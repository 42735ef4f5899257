-------------------------- MODULE OperationsProofs --------------------------
(***************************************************************************)
(* Proofs about the smaller components, for any value of their constants:  *)
(* the payouts of a reseller's wallet, the clients bound to a tenant, the  *)
(* pool of tunnel addresses, the counters of portal attempts and the       *)
(* remote control of a subscriber; and about all operational components    *)
(* together, as MCOperations composes them.                                *)
(***************************************************************************)
EXTENDS MCOperations, AccountsProofs, MessagesProofs, RouterChannelProofs,
        SequenceTheorems, WellFoundedInduction, TLAPS

(* Payouts: the balance a clerk read is worth the wallet's as long as nothing was *)
(* booked since, which the number of transactions it saw tells.                   *)

HasRead(c) == clerk[c] # Away /\ clerk[c].pc = "pay"
Handles(c) == IF clerk[c] = Away THEN {} ELSE {clerk[c].for}

\* What an administrator between the reads and the transaction still knows.
ClerksKnow ==
  \A c \in Clerks :
    /\ \A p \in Handles(c) : payout[p].status \in {"APPROVED", "PAID"}
    /\ HasRead(c) => /\ clerk[c].seen <= Len(ledger)
                     /\ clerk[c].balance >= payout[clerk[c].for].amount
                     /\ OneAtATime /\ clerk[c].seen = Len(ledger) => clerk[c].balance = wallet

PayoutInv == PayoutTypeOK /\ PaidIffBooked /\ ClerksKnow /\ OverdrawnOnlyByOverlap

-----------------------------------------------------------------------------

LEMMA AmountIsNat ==
  ASSUME PayoutTypeOK, NEW p \in PayoutIds
  PROVE  payout[p].amount \in Nat
<1>1. Amounts \subseteq Nat
  BY PayoutAssumption DEF PayoutAssumption
<1>2. payout[p] \in [status : {"NONE", "PENDING", "APPROVED", "PAID"},
                    amount : Amounts \union {0}]
  BY DEF PayoutTypeOK
<1>3. payout[p].amount \in Amounts \union {0}
  BY <1>2
<1>4. \A a \in Amounts \union {0} : a \in Nat
  BY <1>1
<1> QED BY <1>3, <1>4

LEMMA ClerkCases ==
  ASSUME PayoutTypeOK, NEW c \in Clerks
  PROVE  \/ clerk[c] = Away
         \/ clerk[c].pc = "wallet" /\ clerk[c] \in [pc : {"wallet"}, for : PayoutIds]
         \/ clerk[c].pc = "pay"
            /\ clerk[c] \in [pc : {"pay"}, for : PayoutIds, balance : Int, seen : Nat]
BY DEF PayoutTypeOK

LEMMA BusyClerk ==
  ASSUME PayoutTypeOK, NEW c \in Clerks, clerk[c].pc \in {"wallet", "pay"}
  PROVE  clerk[c] # Away /\ clerk[c].for \in PayoutIds
BY ClerkCases DEF Away

LEMMA PayingClerk ==
  ASSUME PayoutTypeOK, NEW c \in Clerks, clerk[c].pc = "pay"
  PROVE  /\ HasRead(c) /\ clerk[c].for \in PayoutIds
         /\ clerk[c].balance \in Int /\ clerk[c].seen \in Nat
BY ClerkCases DEF Away, HasRead

\* The row the transaction writes has its type.
LEMMA EntryTyped ==
  ASSUME PayoutTypeOK, NEW c \in Clerks, clerk[c].pc = "pay"
  PROVE  Entry(c) \in EntryType
<1>1. payout[clerk[c].for].amount \in Nat
  BY PayingClerk, AmountIsNat
<1> QED BY <1>1, PayingClerk DEF Entry, EntryType

\* Each of the steps keeps the types.
LEMMA PayoutTypeStep ==
  ASSUME PayoutTypeOK, [PayoutNext]_payoutVars
  PROVE  PayoutTypeOK'
<1>1. ASSUME NEW e \in Earnings, EarnCommission(e)
      PROVE  PayoutTypeOK'
  <2>1. commission + e \in 0..MaxCommission
    BY <1>1, PayoutAssumption DEF EarnCommission, PayoutTypeOK, PayoutAssumption
  <2> QED BY <1>1, <2>1 DEF EarnCommission, PayoutTypeOK
<1>2. ASSUME NEW p \in PayoutIds, NEW a \in Amounts, RequestPayout(p, a)
      PROVE  PayoutTypeOK'
  BY <1>2 DEF RequestPayout, PayoutTypeOK
<1>3. ASSUME NEW p \in PayoutIds, ApprovePayout(p)
      PROVE  PayoutTypeOK'
  BY <1>3 DEF ApprovePayout, PayoutTypeOK
<1>4. ASSUME NEW c \in Clerks, NEW p \in PayoutIds, FindApproved(c, p)
      PROVE  PayoutTypeOK'
  BY <1>4 DEF FindApproved, PayoutTypeOK
<1>5. ASSUME NEW c \in Clerks, ReadWallet(c)
      PROVE  PayoutTypeOK'
  <2>1. clerk[c].for \in PayoutIds
    BY <1>5, BusyClerk DEF ReadWallet
  <2>2. wallet \in Int /\ Len(ledger) \in Nat
    BY LenProperties DEF PayoutTypeOK
  <2> QED BY <1>5, <2>1, <2>2 DEF ReadWallet, PayoutTypeOK
<1>6. ASSUME NEW c \in Clerks, Pay(c)
      PROVE  PayoutTypeOK'
  <2>1. clerk[c].for \in PayoutIds /\ payout[clerk[c].for].amount \in Nat
    BY <1>6, PayingClerk, AmountIsNat DEF Pay
  <2>2. ledger' \in Seq(EntryType)
    <3>1. ledger \in Seq(EntryType) /\ Entry(c) \in EntryType
      BY <1>6, EntryTyped DEF Pay, PayoutTypeOK
    <3>2. ledger' = Append(ledger, Entry(c))
      BY <1>6 DEF Pay
    <3> QED BY <3>1, <3>2, AppendProperties
  <2>3. wallet \in Int /\ wallet' \in Int /\ commission' = commission
    BY <1>6, <2>1 DEF Pay, PayoutTypeOK
  <2>4. /\ payout' = [payout EXCEPT ![clerk[c].for].status = "PAID"]
        /\ clerk' = [clerk EXCEPT ![c] = Away]
    BY <1>6 DEF Pay
  <2> QED BY <2>1, <2>2, <2>3, <2>4 DEF PayoutTypeOK
<1>7. ASSUME NEW c \in Clerks, AlreadyProcessed(c)
      PROVE  PayoutTypeOK'
  BY <1>7 DEF AlreadyProcessed, PayoutTypeOK
<1>8. CASE UNCHANGED payoutVars
  BY <1>8 DEF payoutVars, PayoutTypeOK
<1> QED BY <1>1, <1>2, <1>3, <1>4, <1>5, <1>6, <1>7, <1>8 DEF PayoutNext

LEMMA PayoutTypeInit == PayoutInit => PayoutTypeOK
BY PayoutAssumption DEF PayoutAssumption, PayoutInit, PayoutTypeOK

\* The types of the payouts, the wallet and the clerks hold in every state.
THEOREM PayoutsTyped == PayoutSpec => []PayoutTypeOK
BY PayoutTypeInit, PayoutTypeStep, PTL DEF PayoutSpec

-----------------------------------------------------------------------------

\* Only the transaction books, and only for a payout that is not booked.
LEMMA PaidStep ==
  ASSUME PayoutInv, [PayoutNext]_payoutVars
  PROVE  PaidIffBooked'
<1> USE DEF PayoutInv
<1>1. ASSUME NEW c \in Clerks, Pay(c)
      PROVE  PaidIffBooked'
  <2> DEFINE q == clerk[c].for
  <2> DEFINE n == Len(ledger)
  <2>1. q \in PayoutIds /\ payout[q].status = "APPROVED" /\ n \in Nat
    BY <1>1, PayingClerk, LenProperties DEF Pay, PayoutTypeOK
  <2>2. /\ ledger' = Append(ledger, Entry(c)) /\ Entry(c).payout = q
        /\ ledger \in Seq(EntryType) /\ Entry(c) \in EntryType
    BY <1>1, EntryTyped DEF Pay, Entry, PayoutTypeOK
  <2>3. /\ Len(ledger') = n + 1 /\ ledger'[n + 1].payout = q
        /\ \A i \in 1..n : ledger'[i] = ledger[i]
    BY <2>2, AppendProperties
  <2>4. \A p \in PayoutIds : payout'[p].status = IF p = q THEN "PAID" ELSE payout[p].status
    BY <1>1, <2>1 DEF Pay, PayoutTypeOK
  <2>5. ~ \E i \in 1..n : BookedFor(q, i)
    BY <2>1 DEF PaidIffBooked
  <2> HIDE DEF q, n
  <2>6. \A p \in PayoutIds, i \in 1..(n + 1) :
          BookedFor(p, i)' <=> IF i = n + 1 THEN p = q ELSE BookedFor(p, i)
    BY <2>1, <2>3 DEF BookedFor, n
  <2>7. 1..Len(ledger') = 1..(n + 1) /\ 1..Len(ledger) = 1..n
    BY <2>3 DEF n
  <2>8. SUFFICES ASSUME NEW p \in PayoutIds
                 PROVE  /\ payout'[p].status = "PAID" <=> \E i \in 1..(n + 1) : BookedFor(p, i)'
                        /\ \A i, j \in 1..(n + 1) :
                             BookedFor(p, i)' /\ BookedFor(p, j)' => i = j
    BY <2>7 DEF PaidIffBooked
  <2>9. /\ payout[p].status = "PAID" <=> \E i \in 1..n : BookedFor(p, i)
        /\ \A i, j \in 1..n : BookedFor(p, i) /\ BookedFor(p, j) => i = j
    BY <2>7 DEF PaidIffBooked
  <2>10. CASE p = q
    BY <2>10, <2>1, <2>4, <2>5, <2>6
  <2>11. CASE p # q
    BY <2>11, <2>1, <2>4, <2>6, <2>9
  <2> QED BY <2>10, <2>11
<1>2. ASSUME ledger' = ledger,
             \A p \in PayoutIds : payout'[p].status = "PAID" <=> payout[p].status = "PAID"
      PROVE  PaidIffBooked'
  BY <1>2 DEF PaidIffBooked, BookedFor
<1>3. ASSUME NEW p \in PayoutIds, NEW a \in Amounts, RequestPayout(p, a)
      PROVE  PaidIffBooked'
  BY <1>2, <1>3 DEF RequestPayout, PayoutTypeOK
<1>4. ASSUME NEW p \in PayoutIds, ApprovePayout(p)
      PROVE  PaidIffBooked'
  BY <1>2, <1>4 DEF ApprovePayout, PayoutTypeOK
<1>5. ASSUME UNCHANGED <<payout, ledger>>
      PROVE  PaidIffBooked'
  BY <1>2, <1>5
<1> QED BY <1>1, <1>3, <1>4, <1>5
        DEF PayoutNext, payoutVars, EarnCommission, FindApproved, ReadWallet, AlreadyProcessed

\* Steps that book nothing.
LEMMA UnbookedStep ==
  ASSUME PayoutInv, [PayoutNext]_payoutVars, UNCHANGED <<wallet, ledger>>
  PROVE  (ClerksKnow /\ OverdrawnOnlyByOverlap)'
<1> USE DEF PayoutInv
<1>1. OverdrawnOnlyByOverlap'
  BY DEF OverdrawnOnlyByOverlap, OneAtATime, Chained, LastBalance
<1>2. OneAtATime' <=> OneAtATime
  BY DEF OneAtATime
<1>3. ASSUME UNCHANGED clerk,
             \A p \in PayoutIds :
               payout[p].status \in {"APPROVED", "PAID"} => payout'[p] = payout[p]
      PROVE  ClerksKnow'
  <2>1. \A c \in Clerks : Handles(c) \subseteq PayoutIds
    BY ClerkCases DEF Handles
  <2>2. \A c \in Clerks : HasRead(c) => clerk[c].for \in Handles(c)
    BY DEF Handles, HasRead
  <2> QED BY <1>2, <1>3, <2>1, <2>2 DEF ClerksKnow, Handles, HasRead
<1>4. ASSUME NEW p \in PayoutIds, NEW a \in Amounts, RequestPayout(p, a)
      PROVE  ClerksKnow'
  BY <1>3, <1>4 DEF RequestPayout, PayoutTypeOK
<1>5. ASSUME NEW p \in PayoutIds, ApprovePayout(p)
      PROVE  ClerksKnow'
  BY <1>3, <1>4, <1>5 DEF ApprovePayout, PayoutTypeOK
<1>6. ASSUME NEW c \in Clerks, UNCHANGED payout,
             \A d \in Clerks \ {c} : clerk'[d] = clerk[d],
             \/ clerk'[c] = Away
             \/ /\ clerk'[c] # Away /\ payout[clerk'[c].for].status \in {"APPROVED", "PAID"}
                /\ clerk'[c].pc = "pay" =>
                     /\ clerk'[c].seen = Len(ledger) /\ clerk'[c].balance = wallet
                     /\ wallet >= payout[clerk'[c].for].amount
      PROVE  ClerksKnow'
  <2> SUFFICES ASSUME NEW d \in Clerks
               PROVE  /\ \A p \in Handles(d)' : payout[p].status \in {"APPROVED", "PAID"}
                      /\ HasRead(d)' =>
                           /\ clerk'[d].seen <= Len(ledger)
                           /\ clerk'[d].balance >= payout[clerk'[d].for].amount
                           /\ OneAtATime /\ clerk'[d].seen = Len(ledger)
                                => clerk'[d].balance = wallet
    BY <1>2, <1>6 DEF ClerksKnow
  <2>1. CASE d # c
    BY <2>1, <1>6 DEF ClerksKnow, Handles, HasRead
  <2>2. CASE d = c
    <3>1. Len(ledger) \in Nat
      BY LenProperties DEF PayoutTypeOK
    <3> QED BY <3>1, <2>2, <1>6 DEF Handles, HasRead
  <2> QED BY <2>1, <2>2
<1>7. ASSUME NEW c \in Clerks, NEW p \in PayoutIds, FindApproved(c, p)
      PROVE  ClerksKnow'
  <2>1. clerk'[c] = [pc |-> "wallet", for |-> p] /\ \A d \in Clerks \ {c} : clerk'[d] = clerk[d]
    BY <1>7 DEF FindApproved, PayoutTypeOK
  <2> QED BY <1>6, <1>7, <2>1 DEF FindApproved, Away
<1>8. ASSUME NEW c \in Clerks, ReadWallet(c)
      PROVE  ClerksKnow'
  <2>1. clerk[c].for \in PayoutIds /\ clerk[c] # Away
    BY <1>8, BusyClerk DEF ReadWallet
  <2>2. payout[clerk[c].for].status \in {"APPROVED", "PAID"}
    BY <2>1 DEF ClerksKnow, Handles
  <2>3. payout[clerk[c].for].amount \in Nat /\ wallet \in Int
    BY <2>1, AmountIsNat DEF PayoutTypeOK
  <2>4. /\ \A d \in Clerks \ {c} : clerk'[d] = clerk[d]
        /\ clerk'[c] = IF wallet < payout[clerk[c].for].amount THEN Away
                       ELSE [pc |-> "pay", for |-> clerk[c].for,
                             balance |-> wallet, seen |-> Len(ledger)]
    BY <1>8 DEF ReadWallet, PayoutTypeOK
  <2>5. CASE wallet < payout[clerk[c].for].amount
    BY <1>6, <1>8, <2>4, <2>5 DEF ReadWallet
  <2>6. CASE ~(wallet < payout[clerk[c].for].amount)
    BY <1>6, <1>8, <2>2, <2>3, <2>4, <2>6 DEF ReadWallet, Away
  <2> QED BY <2>5, <2>6
<1>9. ASSUME NEW c \in Clerks, AlreadyProcessed(c)
      PROVE  ClerksKnow'
  <2>1. clerk'[c] = Away /\ \A d \in Clerks \ {c} : clerk'[d] = clerk[d]
    BY <1>9 DEF AlreadyProcessed, PayoutTypeOK
  <2> QED BY <1>6, <1>9, <2>1 DEF AlreadyProcessed
<1>10. ASSUME NEW c \in Clerks, Pay(c)
       PROVE  FALSE
  <2>1. Len(ledger') = Len(ledger) + 1 /\ Len(ledger) \in Nat
    BY <1>10, EntryTyped, AppendProperties, LenProperties DEF Pay, PayoutTypeOK
  <2> QED BY <2>1
<1>11. ASSUME UNCHANGED <<payout, clerk>>
       PROVE  ClerksKnow'
  BY <1>3, <1>11
<1> QED BY <1>1, <1>4, <1>5, <1>7, <1>8, <1>9, <1>10, <1>11
        DEF PayoutNext, payoutVars, EarnCommission

\* The transaction.
LEMMA BookedStep ==
  ASSUME PayoutInv, NEW c \in Clerks, Pay(c)
  PROVE  (ClerksKnow /\ OverdrawnOnlyByOverlap)'
<1> USE DEF PayoutInv
<1> DEFINE q == clerk[c].for
           n == Len(ledger)
           e == Entry(c)
<1>1. /\ q \in PayoutIds /\ n \in Nat /\ payout[q].amount \in Nat
      /\ clerk[c].balance \in Int /\ clerk[c].seen \in Nat /\ HasRead(c)
      /\ wallet \in Int
  BY PayingClerk, AmountIsNat, LenProperties DEF Pay, PayoutTypeOK
<1>2. /\ e.seen = clerk[c].seen /\ e.before = clerk[c].balance
      /\ e.after = clerk[c].balance - payout[q].amount
  BY DEF Entry
<1>3. ledger \in Seq(EntryType) /\ e \in EntryType /\ ledger' = Append(ledger, e)
  BY EntryTyped DEF Pay, PayoutTypeOK
<1>4. /\ Len(ledger') = n + 1 /\ ledger'[n + 1] = e /\ ledger' # <<>>
      /\ \A i \in 1..n : ledger'[i] = ledger[i]
  BY <1>3, AppendProperties
<1>5. /\ clerk'[c] = Away /\ \A d \in Clerks \ {c} : clerk'[d] = clerk[d]
      /\ wallet' = wallet - payout[q].amount
      /\ \A p \in PayoutIds :
           /\ payout'[p].amount = payout[p].amount
           /\ payout[p].status \in {"APPROVED", "PAID"} =>
                payout'[p].status \in {"APPROVED", "PAID"}
  BY <1>1 DEF Pay, PayoutTypeOK
<1>6. /\ clerk[c].seen <= n /\ clerk[c].balance >= payout[q].amount
      /\ OneAtATime /\ clerk[c].seen = n => clerk[c].balance = wallet
  BY <1>1 DEF ClerksKnow
<1> HIDE DEF e, n, q
<1>7. ClerksKnow'
  <2>1. SUFFICES ASSUME NEW d \in Clerks
               PROVE  /\ \A p \in Handles(d)' : payout'[p].status \in {"APPROVED", "PAID"}
                      /\ HasRead(d)' =>
                           /\ clerk'[d].seen <= Len(ledger')
                           /\ clerk'[d].balance >= payout'[clerk'[d].for].amount
                           /\ ~(clerk'[d].seen = Len(ledger'))
    BY DEF ClerksKnow
  <2>2. CASE d = c
    BY <2>2, <1>5 DEF Handles, HasRead
  <2>3. CASE d # c
    <3>1. clerk'[d] = clerk[d] /\ Handles(d) \subseteq PayoutIds
      BY <2>3, <1>5, ClerkCases DEF Handles
    <3>2. Handles(d)' = Handles(d) /\ HasRead(d)' = HasRead(d)
      BY <3>1 DEF Handles, HasRead
    <3>3. ASSUME HasRead(d)
          PROVE  /\ clerk[d].for \in PayoutIds /\ clerk[d].seen \in Nat
                 /\ clerk[d].seen <= n
                 /\ clerk[d].balance >= payout[clerk[d].for].amount
      <4>1. clerk[d].for \in PayoutIds /\ clerk[d].seen \in Nat
        BY <3>3, PayingClerk DEF HasRead
      <4> QED BY <3>3, <4>1 DEF ClerksKnow, n
    <3>4. HasRead(d) => /\ clerk[d].seen <= n + 1 /\ ~(clerk[d].seen = n + 1)
                        /\ clerk[d].balance >= payout'[clerk[d].for].amount
      BY <3>3, <1>1, <1>5
    <3>5. \A p \in Handles(d) : payout'[p].status \in {"APPROVED", "PAID"}
      BY <3>1, <1>5 DEF ClerksKnow
    <3> QED BY <3>1, <3>2, <3>4, <3>5, <1>4
  <2> QED BY <2>2, <2>3
<1>8. OverdrawnOnlyByOverlap'
  <2>1. SUFFICES ASSUME OneAtATime'
                 PROVE  wallet' >= 0 /\ Chained' /\ wallet' = LastBalance'
    BY DEF OverdrawnOnlyByOverlap
  <2>2. \A i \in 1..(n + 1) : ledger'[i].seen = i - 1
    BY <2>1, <1>4 DEF OneAtATime
  <2>3. OneAtATime /\ clerk[c].seen = n
    <3>1. \A i \in 1..n : ledger[i].seen = i - 1
      BY <2>2, <1>1, <1>4
    <3>2. ledger'[n + 1].seen = n
      BY <2>2, <1>1
    <3> QED BY <3>1, <3>2, <1>2, <1>4 DEF OneAtATime, n
  <2>4. clerk[c].balance = wallet /\ wallet >= 0 /\ Chained /\ wallet = LastBalance
    BY <2>3, <1>6 DEF OverdrawnOnlyByOverlap
  <2>5. wallet' >= 0 /\ wallet' = e.after
    BY <2>4, <1>1, <1>2, <1>5, <1>6
  <2>6. LastBalance' = e.after
    BY <1>4 DEF LastBalance
  <2>7. e.before = IF n = 0 THEN Opening ELSE ledger[n].after
    <3>1. ledger = <<>> <=> n = 0
      BY <1>3, EmptySeq DEF n
    <3> QED BY <3>1, <2>4, <1>2 DEF LastBalance, n
  <2>8. \A i \in 1..n : ledger[i].before = IF i = 1 THEN Opening ELSE ledger[i - 1].after
    BY <2>4 DEF Chained, n
  <2>9. \A i \in 1..(n + 1) :
          ledger'[i].before = IF i = 1 THEN Opening ELSE ledger'[i - 1].after
    <3> TAKE i \in 1..(n + 1)
    <3>1. CASE i = n + 1
      BY <3>1, <2>7, <1>1, <1>4
    <3>2. CASE i # n + 1
      <4>1. i \in 1..n /\ (i # 1 => i - 1 \in 1..n)
        BY <3>2, <1>1
      <4> QED BY <4>1, <2>8, <1>4
    <3> QED BY <3>1, <3>2
  <2>10. Chained'
    BY <2>9, <1>4 DEF Chained
  <2> QED BY <2>5, <2>6, <2>10
<1> QED BY <1>7, <1>8

LEMMA PayoutInvInit == PayoutInit => PayoutInv
<1> SUFFICES ASSUME PayoutInit PROVE PayoutInv
  OBVIOUS
<1>1. PayoutTypeOK
  BY PayoutTypeInit
<1>2. ledger = <<>> /\ 1..Len(ledger) = {} /\ Opening \in Nat
  BY PayoutAssumption DEF PayoutInit, PayoutAssumption
<1>3. PaidIffBooked
  BY <1>2 DEF PayoutInit, PaidIffBooked
<1>4. ClerksKnow
  BY DEF PayoutInit, ClerksKnow, Handles, HasRead
<1>5. OverdrawnOnlyByOverlap
  BY <1>2 DEF PayoutInit, OverdrawnOnlyByOverlap, Chained, LastBalance
<1> QED BY <1>1, <1>3, <1>4, <1>5 DEF PayoutInv

LEMMA PayoutInvStep == PayoutInv /\ [PayoutNext]_payoutVars => PayoutInv'
<1> SUFFICES ASSUME PayoutInv, [PayoutNext]_payoutVars PROVE PayoutInv'
  OBVIOUS
<1>1. PayoutTypeOK' /\ PaidIffBooked'
  BY PayoutTypeStep, PaidStep DEF PayoutInv
<1>2. CASE UNCHANGED <<wallet, ledger>>
  BY <1>1, <1>2, UnbookedStep DEF PayoutInv
<1>3. CASE \E c \in Clerks : Pay(c)
  BY <1>1, <1>3, BookedStep DEF PayoutInv
<1> QED BY <1>2, <1>3
        DEF PayoutNext, payoutVars, EarnCommission, RequestPayout, ApprovePayout,
            FindApproved, ReadWallet, AlreadyProcessed

\* A payout is paid exactly when the wallet has one transaction for it.
THEOREM PaidOnce == PayoutSpec => []PaidIffBooked
<1>1. PayoutInv => PaidIffBooked
  BY DEF PayoutInv
<1> QED BY <1>1, PayoutInvInit, PayoutInvStep, PTL DEF PayoutSpec

\* While payments do not overlap the wallet never goes negative and its
\* transactions form a chain that ends in its balance.
THEOREM OverdrawnByOverlap == PayoutSpec => []OverdrawnOnlyByOverlap
<1>1. PayoutInv => OverdrawnOnlyByOverlap
  BY DEF PayoutInv
<1> QED BY <1>1, PayoutInvInit, PayoutInvStep, PTL DEF PayoutSpec

-----------------------------------------------------------------------------
(* Tenants: a call that a bound client names touches and returns only rows    *)
(* whose organization is the caller's, and the call it passes through only    *)
(* adds rows, so the shared table implements a database for each of them.     *)

TenantTables == [RowIds -> [org : Tenants, value : Values] \union {NoRow}]
Owned(t, hits) == \A i \in hits : table[i].org = t
Unowned(hits) == \A i \in hits : table[i] = NoRow

\* What every call of t that the client names does: `hits' were t's or nobody's and are so afterwards, and
\* the answer shows rows that are t's after the call.
OwnCall(t, hits, shown) ==
  /\ hits \subseteq RowIds /\ shown \subseteq RowIds
  /\ \A i \in hits : table[i].org = t \/ table[i] = NoRow
  /\ \A i \in hits : table'[i].org = t \/ table'[i] = NoRow
  /\ \A i \in RowIds \ hits : table'[i] = table[i]
  /\ \A i \in shown : table'[i].org = t /\ table'[i].value \in Values
  /\ answer' = [by |-> t, passed |-> FALSE, rows |-> {<<i, table'[i].value>> : i \in shown}]
  /\ table' \in TenantTables

-----------------------------------------------------------------------------

LEMMA RowFacts ==
  ASSUME table \in TenantTables, NEW i \in RowIds
  PROVE  /\ table[i] = NoRow \/ (table[i].org \in Tenants /\ table[i].value \in Values)
         /\ table[i] = NoRow <=> table[i].org = AnyTenant
<1>1. AnyTenant \notin Tenants
  BY TenantAssumption DEF TenantAssumption
<1> QED BY <1>1 DEF TenantTables, NoRow

\* A filter with the organization's own condition selects only its rows.
LEMMA SelectedOwn ==
  ASSUME NEW t \in Tenants, NEW where, NEW w \in where, w.org = t
  PROVE  Selected(where) \subseteq RowIds /\ Owned(t, Selected(where))
<1>1. t # AnyTenant
  BY TenantAssumption DEF TenantAssumption
<1> QED BY <1>1 DEF Selected, Present, Owned

LEMMA ScopedFilters ==
  ASSUME NEW t \in Tenants, NEW w \in Conditions
  PROVE  /\ Selected(OrganizationWhere(t, w)) \subseteq RowIds
         /\ Owned(t, Selected(OrganizationWhere(t, w)))
         /\ Selected(UniqueWhere(t, w)) \subseteq RowIds
         /\ Owned(t, Selected(UniqueWhere(t, w)))
<1>1. [ids |-> RowIds, org |-> t] \in OrganizationWhere(t, w)
  BY DEF OrganizationWhere
<1>2. [w EXCEPT !.org = t] \in UniqueWhere(t, w) /\ [w EXCEPT !.org = t].org = t
  BY DEF UniqueWhere, Conditions
<1> QED BY <1>1, <1>2, SelectedOwn

LEMMA DataScoped ==
  ASSUME NEW t \in Tenants, NEW d \in Data
  PROVE  /\ TenantData(t, d) \in [org : Tenants, value : Values]
         /\ TenantData(t, d).org = t
BY DEF TenantData, Data

LEMMA WriteOwn ==
  ASSUME table \in TenantTables, NEW t \in Tenants, NEW d \in Data,
         NEW hits \in SUBSET RowIds, Owned(t, hits) \/ Unowned(hits),
         table' = [i \in RowIds |-> IF i \in hits THEN TenantData(t, d) ELSE table[i]],
         Answer(t, hits)
  PROVE  OwnCall(t, hits, hits)
<1> DEFINE r == TenantData(t, d)
<1>1. r \in [org : Tenants, value : Values] /\ r.org = t /\ r.value \in Values
  BY DataScoped
<1> HIDE DEF r
<1>2. /\ \A i \in hits : table'[i] = r
      /\ \A i \in RowIds \ hits : table'[i] = table[i]
  BY DEF r
<1>3. table' \in TenantTables
  BY <1>1 DEF TenantTables, r
<1> QED BY <1>1, <1>2, <1>3 DEF OwnCall, Answer, Owned, Unowned

LEMMA RemoveOwn ==
  ASSUME table \in TenantTables, NEW t \in Tenants,
         NEW hits \in SUBSET RowIds, Owned(t, hits), Remove(t, hits)
  PROVE  OwnCall(t, hits, {})
<1>1. table' \in TenantTables
  BY DEF Remove, TenantTables
<1>2. /\ \A i \in hits : table'[i] = NoRow
      /\ \A i \in RowIds \ hits : table'[i] = table[i]
  BY DEF Remove
<1> QED BY <1>1, <1>2 DEF OwnCall, Owned, Remove

LEMMA FindOwn ==
  ASSUME table \in TenantTables, NEW t \in Tenants,
         NEW hits \in SUBSET RowIds, Owned(t, hits), UNCHANGED table, Answer(t, hits)
  PROVE  OwnCall(t, {}, hits)
<1>1. \A i \in hits : table[i].value \in Values
  <2>1. \A i \in hits : table[i] # NoRow
    BY RowFacts, TenantAssumption DEF Owned, TenantAssumption
  <2> QED BY <2>1, RowFacts
<1> QED BY <1>1 DEF OwnCall, Owned, Answer

\* Every operation the client names is such a call.
LEMMA CallsAreOwn ==
  ASSUME table \in TenantTables, NEW t \in Tenants, TenantCall(t)
  PROVE  \/ \E hits, shown \in SUBSET RowIds : OwnCall(t, hits, shown)
         \/ \E ids \in SUBSET RowIds, d \in Data : CreateManyAndReturn(t, ids, d)
<1>1. ASSUME NEW w \in Conditions, FindMany(t, w) \/ DeleteMany(t, w)
      PROVE  \E hits, shown \in SUBSET RowIds : OwnCall(t, hits, shown)
  BY <1>1, ScopedFilters, FindOwn, RemoveOwn DEF FindMany, DeleteMany
<1>2. ASSUME NEW w \in Conditions, NEW d \in Data, UpdateMany(t, w, d)
      PROVE  \E hits, shown \in SUBSET RowIds : OwnCall(t, hits, shown)
  BY <1>2, ScopedFilters, WriteOwn DEF UpdateMany, Write
<1>3. ASSUME NEW w \in Conditions, FindUnique(t, w) \/ Delete(t, w)
      PROVE  \E hits, shown \in SUBSET RowIds : OwnCall(t, hits, shown)
  BY <1>3, ScopedFilters, FindOwn, RemoveOwn DEF FindUnique, Delete
<1>4. ASSUME NEW w \in Conditions, NEW d \in Data, Update(t, w, d)
      PROVE  \E hits, shown \in SUBSET RowIds : OwnCall(t, hits, shown)
  BY <1>4, ScopedFilters, WriteOwn DEF Update, Write
<1>5. ASSUME NEW ids \in SUBSET RowIds, NEW d \in Data, CreateMany(t, ids, d)
      PROVE  \E hits, shown \in SUBSET RowIds : OwnCall(t, hits, shown)
  <2>1. Unowned(ids)
    BY <1>5 DEF CreateMany, Unowned, Present
  <2> QED BY <1>5, <2>1, WriteOwn DEF CreateMany
<1>6. ASSUME NEW w \in Conditions, NEW d \in Data, Upsert(t, w, d)
      PROVE  \E hits, shown \in SUBSET RowIds : OwnCall(t, hits, shown)
  BY <1>4, <1>5, <1>6 DEF Upsert, Conditions
<1> QED BY <1>1, <1>2, <1>3, <1>4, <1>5, <1>6 DEF TenantCall, OnRow

\* Such a call is a call of the caller's own database.
LEMMA OwnCallIsSeparate ==
  ASSUME table \in TenantTables, NEW t \in Tenants,
         NEW hits \in SUBSET RowIds, NEW shown \in SUBSET RowIds, OwnCall(t, hits, shown)
  PROVE  Separate!CallFor(t) /\ TenantTypeOK'
<1>1. AnyTenant \notin Tenants /\ Absent \notin Values
  BY TenantAssumption DEF TenantAssumption
<1>2. /\ answer'.by = t /\ ~answer'.passed
      /\ answer'.rows = {<<i, table'[i].value>> : i \in shown}
  BY DEF OwnCall
<1>3. OwnRows' \in [Tenants -> [RowIds -> Values \union {Absent}]]
  <2>1. \A i \in RowIds : table'[i].value \in Values \union {Absent}
    BY DEF OwnCall, TenantTables, NoRow
  <2> QED BY <2>1 DEF OwnRows
<1>4. ASSUME NEW u \in Tenants \ {t}
      PROVE  OwnRows'[u] = OwnRows[u]
  <2>1. ASSUME NEW i \in hits
        PROVE  table[i].org # u /\ table'[i].org # u
    BY <1>1, <2>1 DEF OwnCall, NoRow
  <2>2. \A i \in RowIds \ hits : table'[i] = table[i]
    BY DEF OwnCall
  <2>3. \A i \in RowIds : (IF table'[i].org = u THEN table'[i].value ELSE Absent)
                          = (IF table[i].org = u THEN table[i].value ELSE Absent)
    BY <2>1, <2>2
  <2> QED BY <2>3 DEF OwnRows
<1>5. answer'.rows \subseteq Separate!RowsOf(t)'
  <2>1. ASSUME NEW i \in shown
        PROVE  <<i, table'[i].value>> \in Separate!RowsOf(t)'
    <3>1. table'[i].org = t /\ table'[i].value \in Values
      BY <2>1 DEF OwnCall
    <3>2. OwnRows'[t][i] = table'[i].value /\ table'[i].value # Absent
      BY <1>1, <3>1 DEF OwnRows
    <3> QED BY <3>2 DEF Separate!RowsOf
  <2> QED BY <1>2, <2>1
<1>6. TenantTypeOK'
  <2>1. answer' \in [by : Tenants, passed : BOOLEAN, rows : SUBSET (RowIds \X Values)]
    BY DEF OwnCall
  <2> QED BY <2>1 DEF OwnCall, TenantTables, TenantTypeOK
<1> QED BY <1>2, <1>3, <1>4, <1>5, <1>6 DEF Separate!CallFor

\* What is passed through finds its ids free, so it only adds rows.
LEMMA PassOnlyAdds ==
  ASSUME table \in TenantTables, NEW t \in Tenants, NEW ids \in SUBSET RowIds,
         NEW d \in Data, CreateManyAndReturn(t, ids, d)
  PROVE  Separate!PassFor(t) /\ TenantTypeOK'
<1>1. AnyTenant \notin Tenants /\ Absent \notin Values
  BY TenantAssumption DEF TenantAssumption
<1>2. d.org \in Tenants /\ d.value \in Values /\ d \in [org : Tenants, value : Values]
  BY DEF CreateManyAndReturn, Data
<1>3. /\ \A i \in ids : table[i] = NoRow /\ table'[i] = d
      /\ \A i \in RowIds \ ids : table'[i] = table[i]
  BY DEF CreateManyAndReturn, Present
<1>4. table' \in TenantTables
  BY <1>2 DEF CreateManyAndReturn, TenantTables
<1>5. /\ answer'.by = t /\ answer'.passed /\ answer'.rows = {<<i, d.value>> : i \in ids}
      /\ answer' \in [by : Tenants, passed : BOOLEAN, rows : SUBSET (RowIds \X Values)]
  BY <1>2 DEF CreateManyAndReturn
<1>6. OwnRows' \in [Tenants -> [RowIds -> Values \union {Absent}]]
  <2>1. \A i \in RowIds : table'[i].value \in Values \union {Absent}
    BY <1>4 DEF TenantTables, NoRow
  <2> QED BY <2>1 DEF OwnRows
<1>7. ASSUME NEW u \in Tenants, NEW i \in RowIds, OwnRows[u][i] # Absent
      PROVE  OwnRows'[u][i] = OwnRows[u][i]
  <2>1. i \notin ids
    BY <1>1, <1>3, <1>7 DEF OwnRows, NoRow
  <2> QED BY <1>3, <2>1 DEF OwnRows
<1>8. ASSUME NEW i \in ids
      PROVE  /\ OwnRows[d.org][i] = Absent
             /\ OwnRows'[d.org][i] = d.value /\ d.value # Absent
  BY <1>1, <1>2, <1>3, <1>8 DEF OwnRows, NoRow
<1>9. Separate!PassFor(t)
  BY <1>2, <1>5, <1>6, <1>7, <1>8 DEF Separate!PassFor
<1> QED BY <1>4, <1>5, <1>9 DEF TenantTables, TenantTypeOK

LEMMA TenantStep ==
  ASSUME TenantTypeOK, [TenantNext]_tenantVars
  PROVE  /\ TenantTypeOK'
         /\ [\E t \in Tenants : Separate!CallFor(t) \/ Separate!PassFor(t)]_<<OwnRows, answer>>
<1>1. table \in TenantTables
  BY DEF TenantTypeOK, TenantTables
<1>2. CASE TenantNext
  <2>1. PICK t \in Tenants : TenantCall(t)
    BY <1>2 DEF TenantNext
  <2> QED BY <1>1, <2>1, CallsAreOwn, OwnCallIsSeparate, PassOnlyAdds
<1>3. CASE UNCHANGED tenantVars
  BY <1>3 DEF tenantVars, TenantTypeOK, OwnRows
<1> QED BY <1>2, <1>3

LEMMA TenantInitial ==
  ASSUME TenantInit
  PROVE  TenantTypeOK /\ Separate!EmptyDatabases
<1>1. AnyTenant \notin Tenants
  BY TenantAssumption DEF TenantAssumption
<1>2. OwnRows = [t \in Tenants |-> [i \in RowIds |-> Absent]]
  BY <1>1 DEF TenantInit, OwnRows, NoRow
<1> QED BY <1>2 DEF TenantInit, TenantTypeOK, Separate!EmptyDatabases

\* The table and the answers keep their types.
THEOREM TenantsTyped == TenantSpec => []TenantTypeOK
BY TenantInitial, TenantStep, PTL DEF TenantSpec

\* The shared table implements a separate database for every organization, to which
\* only a call that is passed through adds rows of another's making.
THEOREM TenantsIsolated == TenantSpec => IsolatedSpec
<1>1. TenantInit => Separate!EmptyDatabases
  BY TenantInitial
<1>2. TenantTypeOK /\ [TenantNext]_tenantVars
        => [\E t \in Tenants : Separate!CallFor(t) \/ Separate!PassFor(t)]_<<OwnRows, answer>>
  BY TenantStep
<1> QED BY <1>1, <1>2, TenantsTyped, PTL DEF TenantSpec, IsolatedSpec, Separate!SeparateSpec

-----------------------------------------------------------------------------
(* The pool of addresses *)

Choosing == [pc : {"chosen", "row"}, isp : Isps, host : Hosts, read : SUBSET Registrations]
Refused == [pc : {"full"}, isp : Isps, read : SUBSET Registrations]

\* What a registration read stays true: its organization's routers, none at its host.
ReadStands(r) ==
  \A s \in router[r].read :
    /\ router[s].pc = "row" /\ router[s].isp = router[r].isp
    /\ router[r].pc # "full" => router[s].host # router[r].host

HoldsAll(r) ==
  router[r].pc = "full" => \A h \in Hosts : \E s \in router[r].read : router[s].host = h

PoolInv ==
  /\ PoolTypeOK
  /\ \A r \in Registrations : router[r].pc # "new" => ReadStands(r) /\ HoldsAll(r)

LEMMA RouterCases ==
  ASSUME PoolTypeOK, NEW r \in Registrations
  PROVE  \/ router[r] = Unregistered
         \/ router[r] \in Choosing
         \/ router[r] \in Refused
BY DEF PoolTypeOK, Choosing, Refused

LEMMA LowestIsMember ==
  ASSUME NEW S \in SUBSET Hosts, S # {}
  PROVE  Lowest(S) \in S
<1>1. S \subseteq Nat
  BY PoolAssumption DEF PoolAssumption, Hosts
<1> DEFINE less == {ss \in Nat \X Nat : ss[1] < ss[2]}
<1>2. IsWellFoundedOn(less, Nat)
  BY NatLessThanWellFounded DEF OpToRel
<1>3. \A m, n \in Nat : <<m, n>> \in less <=> m < n
  OBVIOUS
<1> HIDE DEF less
<1>4. PICK h \in S : \A k \in S : ~ (<<k, h>> \in less)
  BY <1>1, <1>2, WFMin
<1>5. \A k \in S : h <= k
  <2> TAKE k \in S
  <2>1. h \in Nat /\ k \in Nat
    BY <1>1
  <2>2. ~ (<<k, h>> \in less)
    BY <1>4
  <2>3. ~ (k < h)
    BY <1>3, <2>1, <2>2
  <2> QED BY <2>1, <2>3
<1> QED BY <1>5 DEF Lowest

\* Registering.
LEMMA PoolStep == PoolInv /\ [PoolNext]_router => PoolInv'
<1> SUFFICES ASSUME PoolInv, [PoolNext]_router PROVE PoolInv'
  OBVIOUS
<1>1. ASSUME NEW r \in Registrations, NEW new \in Choosing \union Refused,
             router' = [router EXCEPT ![r] = new],
             new.pc # "row",
             router[r] = Unregistered,
             \A s \in new.read : /\ s \in Registrations /\ router[s].pc = "row"
                                 /\ router[s].isp = new.isp
                                 /\ new.pc # "full" => router[s].host # new.host,
             new.pc = "full" => \A h \in Hosts : \E s \in new.read : router[s].host = h
      PROVE  PoolInv'
  <2>1. PoolTypeOK'
    BY <1>1 DEF PoolInv, PoolTypeOK, Choosing, Refused
  <2>2. /\ router'[r] = new /\ \A s \in Registrations \ {r} : router'[s] = router[s]
        /\ router[r].pc = "new"
    BY <1>1 DEF PoolInv, PoolTypeOK, Unregistered
  <2>3. \A q \in Registrations : router[q].pc # "new" => router[q].read \subseteq Registrations
    BY RouterCases DEF PoolInv, Choosing, Refused, Unregistered
  <2> SUFFICES ASSUME NEW q \in Registrations, router'[q].pc # "new"
               PROVE  ReadStands(q)' /\ HoldsAll(q)'
    BY <2>1 DEF PoolInv
  <2>4. CASE q = r
    BY <2>4, <2>2, <1>1 DEF ReadStands, HoldsAll
  <2>5. CASE q # r
    <3>1. router'[q] = router[q] /\ ReadStands(q) /\ HoldsAll(q)
          /\ router[q].read \subseteq Registrations
      BY <2>2, <2>3, <2>5 DEF PoolInv
    <3>2. \A s \in router[q].read : router[s].pc = "row" /\ router'[s] = router[s]
      BY <2>2, <3>1 DEF ReadStands
    <3> QED BY <3>1, <3>2 DEF ReadStands, HoldsAll
  <2> QED BY <2>4, <2>5
<1>2. ASSUME NEW r \in Registrations, NEW o \in Isps, AllocateVpnIp(r, o)
      PROVE  PoolInv'
  <2>1. \A s \in RoutersOf(o) : /\ s \in Registrations /\ router[s].pc = "row"
                                /\ router[s].isp = o /\ router[s].host \in Used(o)
    BY DEF RoutersOf, Registered, Used
  <2>2. CASE Hosts \subseteq Used(o)
    <3> DEFINE new == [pc |-> "full", isp |-> o, read |-> RoutersOf(o)]
    <3>1. new \in Refused /\ router' = [router EXCEPT ![r] = new] /\ router[r] = Unregistered
      BY <1>2, <2>1, <2>2 DEF AllocateVpnIp, Refused
    <3>2. \A h \in Hosts : \E s \in RoutersOf(o) : router[s].host = h
      BY <2>2 DEF Used
    <3>3. new.pc = "full" /\ new.isp = o /\ new.read = RoutersOf(o)
      OBVIOUS
    <3> HIDE DEF new
    <3>4. \A s \in new.read : /\ s \in Registrations /\ router[s].pc = "row"
                              /\ router[s].isp = new.isp
                              /\ new.pc # "full" => router[s].host # new.host
      BY <2>1, <3>3
    <3>5. \A h \in Hosts : \E s \in new.read : router[s].host = h
      BY <3>2, <3>3
    <3>6. new \in Choosing \union Refused /\ new.pc # "row"
      BY <3>1, <3>3
    <3> QED BY <1>1, <3>1, <3>4, <3>5, <3>6
  <2>3. CASE ~(Hosts \subseteq Used(o))
    <3> DEFINE new == [pc |-> "chosen", isp |-> o, host |-> Lowest(Hosts \ Used(o)),
                       read |-> RoutersOf(o)]
    <3>1. Lowest(Hosts \ Used(o)) \in Hosts \ Used(o)
      BY <2>3, LowestIsMember
    <3>2. new \in Choosing /\ router' = [router EXCEPT ![r] = new] /\ router[r] = Unregistered
      BY <1>2, <2>1, <2>3, <3>1 DEF AllocateVpnIp, Choosing
    <3>3. /\ new.pc = "chosen" /\ new.isp = o /\ new.read = RoutersOf(o)
          /\ new.host \notin Used(o)
      BY <3>1
    <3> HIDE DEF new
    <3> QED BY <1>1, <2>1, <3>2, <3>3
  <2> QED BY <2>2, <2>3
<1>3. ASSUME NEW r \in Registrations, CreateRouter(r)
      PROVE  PoolInv'
  <2>1. /\ router[r] \in Choosing /\ router[r].pc = "chosen"
        /\ router' = [router EXCEPT ![r].pc = "row"]
    BY <1>3, RouterCases DEF CreateRouter, PoolInv, Refused, Unregistered
  <2>2. /\ \A s \in Registrations \ {r} : router'[s] = router[s]
        /\ router'[r] = [router[r] EXCEPT !.pc = "row"]
    BY <2>1 DEF PoolInv, PoolTypeOK
  <2>3. /\ router'[r] \in Choosing /\ router'[r].pc = "row"
        /\ router'[r].isp = router[r].isp /\ router'[r].host = router[r].host
        /\ router'[r].read = router[r].read
    BY <2>1, <2>2 DEF Choosing
  <2>4. PoolTypeOK'
    BY <2>1, <2>2, <2>3 DEF PoolInv, PoolTypeOK, Choosing
  <2>5. \A q \in Registrations : router[q].pc # "new" => router[q].read \subseteq Registrations
    BY RouterCases DEF PoolInv, Choosing, Refused, Unregistered
  <2> SUFFICES ASSUME NEW q \in Registrations, router'[q].pc # "new"
               PROVE  ReadStands(q)' /\ HoldsAll(q)'
    BY <2>4 DEF PoolInv
  <2>6. router[q].pc # "new" /\ router'[q].read = router[q].read
        /\ router'[q].isp = router[q].isp
        /\ (router'[q].pc # "full" <=> router[q].pc # "full")
        /\ (router[q].pc # "full" => router'[q].host = router[q].host)
    BY <2>1, <2>2, <2>3
  <2>7. \A s \in router[q].read : /\ s # r /\ router[s].pc = "row" /\ router'[s] = router[s]
    <3>1. ReadStands(q)
      BY <2>6 DEF PoolInv
    <3> QED BY <2>1, <2>2, <2>5, <2>6, <3>1 DEF ReadStands
  <2>8. ReadStands(q) /\ HoldsAll(q)
    BY <2>6 DEF PoolInv
  <2> QED BY <2>6, <2>7, <2>8 DEF ReadStands, HoldsAll
<1>4. CASE UNCHANGED router
  BY <1>4 DEF PoolInv, PoolTypeOK, ReadStands, HoldsAll
<1> QED BY <1>2, <1>3, <1>4 DEF PoolNext

LEMMA PoolInitial == PoolInit => PoolInv
  BY DEF PoolInit, PoolInv, PoolTypeOK, Unregistered

\* The registrations keep their type.
THEOREM PoolTyped == PoolSpec => []PoolTypeOK
<1>1. PoolInv => PoolTypeOK
  BY DEF PoolInv
<1> QED BY <1>1, PoolInitial, PoolStep, PTL DEF PoolSpec

\* Two routers of one organization share an address only after registrations that
\* overlapped, and a full pool is really full.
THEOREM AddressesShared == PoolSpec => []AddressSharedOnlyByRace
<1>1. ASSUME PoolInv
      PROVE  AddressSharedOnlyByRace
  <2>1. ASSUME NEW r \in Registered, NEW s \in Registered, r # s,
               router[r].host = router[s].host, router[r].isp = router[s].isp
        PROVE  Overlapped(r, s)
    BY <1>1, <2>1 DEF PoolInv, Registered, ReadStands, Overlapped
  <2>2. ASSUME NEW r \in Registrations, router[r].pc = "full", NEW h \in Hosts
        PROVE  \E s \in RoutersOf(router[r].isp) : s \in router[r].read /\ router[s].host = h
    <3>1. ReadStands(r) /\ HoldsAll(r) /\ router[r].read \subseteq Registrations
      BY <1>1, <2>2, RouterCases DEF PoolInv, Choosing, Refused, Unregistered
    <3>2. PICK s \in router[r].read : router[s].host = h
      BY <2>2, <3>1 DEF HoldsAll
    <3> QED BY <3>1, <3>2 DEF ReadStands, RoutersOf, Registered
  <2> QED BY <2>1, <2>2 DEF AddressSharedOnlyByRace
<1> QED BY <1>1, PoolInitial, PoolStep, PTL DEF PoolSpec
-----------------------------------------------------------------------------
(* The counters of attempts *)

IsAttempt(x) ==
  /\ x = [pc |-> x.pc, ip |-> x.ip, id |-> x.id, step |-> x.step]
  /\ x.pc \in {"store", "local", "answered"}
  /\ x.ip \in Addresses /\ x.id \in Identifiers
  /\ x.step \in [{x.ip, x.id} -> KeySteps]

\* Attempts are whole records, which the type invariant follows from.
ThrottleTyped ==
  /\ counter \in [Keys -> 0..MaxCount] /\ expiry \in [Keys -> 0..RateWindow]
  /\ attempt = [a \in Attempts |-> attempt[a]]
  /\ \A a \in Attempts : attempt[a] # Quiet => IsAttempt(attempt[a])
  /\ cut \subseteq Keys /\ cuts \in 0..MaxCuts

Expiring(k) == {a \in Attempts : At(a, k, "expire")}

\* A counter no fault cut off: it counts exactly while it has an expiry or the one
\* attempt that counted 1 is about to set it.
Tended(k) ==
  /\ counter[k] = 0 => expiry[k] = 0 /\ Expiring(k) = {}
  /\ counter[k] > 0 /\ expiry[k] > 0 => Expiring(k) = {}
  /\ counter[k] > 0 /\ expiry[k] = 0 => \E a \in Attempts : Expiring(k) = {a}

ThrottleInv == ThrottleTyped /\ \A k \in Keys \ cut : Tended(k)

LEMMA LockedFromTended ==
  ASSUME ThrottleInv
  PROVE  LockedOutOnlyByFault
<1> SUFFICES ASSUME NEW k \in Keys \ cut, counter[k] > 0, expiry[k] = 0
             PROVE  \E a \in Attempts : /\ At(a, k, "expire")
                                        /\ \A b \in Attempts \ {a} : ~At(b, k, "expire")
  BY DEF LockedOutOnlyByFault
<1>1. PICK a \in Attempts : Expiring(k) = {a}
  BY DEF ThrottleInv, Tended
<1> QED BY <1>1 DEF Expiring

\* One request replaced by another, whole one.
LEMMA AttemptReplaced ==
  ASSUME ThrottleTyped, NEW a \in Attempts, NEW y, y = Quiet \/ IsAttempt(y),
         attempt' = [attempt EXCEPT ![a] = y]
  PROVE  /\ attempt' = [b \in Attempts |-> attempt'[b]]
         /\ \A b \in Attempts : attempt'[b] # Quiet => IsAttempt(attempt'[b])
         /\ attempt'[a] = y
         /\ \A b \in Attempts \ {a}, j \in Keys : At(b, j, "expire")' <=> At(b, j, "expire")
<1> DEFINE f == attempt
<1>1. f = [b \in Attempts |-> f[b]] /\ \A b \in Attempts : f[b] # Quiet => IsAttempt(f[b])
  BY DEF ThrottleTyped
<1> HIDE DEF f
<1>2. DEFINE g == [f EXCEPT ![a] = y]
<1>3. /\ g = [b \in Attempts |-> g[b]] /\ g[a] = y
      /\ \A b \in Attempts \ {a} : g[b] = f[b]
  BY <1>1
<1>4. attempt' = g
  BY DEF f
<1> HIDE DEF g
<1>5. \A b \in Attempts \ {a} : attempt'[b] = attempt[b]
  BY <1>3, <1>4 DEF f
<1>6. \A b \in Attempts : g[b] # Quiet => IsAttempt(g[b])
  BY <1>1, <1>3
<1> QED BY <1>3, <1>4, <1>5, <1>6 DEF At

\* A request's step at one of its keys disturbs what is at its expiry only there.
LEMMA KeyStep ==
  ASSUME ThrottleTyped, NEW a \in Attempts, NEW k \in Keys, NEW from, At(a, k, from),
         NEW to \in KeySteps, NEW pc \in {"store", "local", "answered"},
         \/ attempt' = [attempt EXCEPT ![a].step[k] = to] /\ pc = attempt[a].pc
         \/ attempt' = [attempt EXCEPT ![a].step[k] = to, ![a].pc = pc]
  PROVE  /\ attempt' = [b \in Attempts |-> attempt'[b]]
         /\ \A b \in Attempts : attempt'[b] # Quiet => IsAttempt(attempt'[b])
         /\ \A j \in Keys \ {k} : Expiring(j)' = Expiring(j)
         /\ to = "expire" => Expiring(k)' = Expiring(k) \union {a}
         /\ to # "expire" => Expiring(k)' = Expiring(k) \ {a}
<1> DEFINE x == attempt[a]
           y == [pc |-> pc, ip |-> x.ip, id |-> x.id, step |-> [x.step EXCEPT ![k] = to]]
<1>1. x # Quiet /\ IsAttempt(x) /\ k \in {x.ip, x.id}
  BY DEF ThrottleTyped, At
<1>y. y = [pc |-> pc, ip |-> x.ip, id |-> x.id, step |-> [x.step EXCEPT ![k] = to]]
  OBVIOUS
<1>x. x = attempt[a]
  OBVIOUS
<1> HIDE DEF x, y
<1>2. /\ IsAttempt(y) /\ y # Quiet
      /\ [x EXCEPT !.step[k] = to, !.pc = pc] = y
      /\ pc = x.pc => [x EXCEPT !.step[k] = to] = y
      /\ \A j \in {x.ip, x.id} : y.step[j] = IF j = k THEN to ELSE x.step[j]
      /\ y.ip = x.ip /\ y.id = x.id
  <2> DEFINE f == [x.step EXCEPT ![k] = to]
  <2>1. f \in [{x.ip, x.id} -> KeySteps]
    BY <1>1 DEF IsAttempt
  <2>2. \A j \in {x.ip, x.id} : f[j] = IF j = k THEN to ELSE x.step[j]
    BY <1>1 DEF IsAttempt
  <2>3. y # Quiet /\ y.ip = x.ip /\ y.id = x.id /\ y.step = f
    BY <1>y DEF Quiet
  <2>r. x \in [pc : {x.pc}, ip : {x.ip}, id : {x.id}, step : {x.step}]
    <3>1. x = [pc |-> x.pc, ip |-> x.ip, id |-> x.id, step |-> x.step]
      BY <1>1 DEF IsAttempt
    <3> QED BY <3>1
  <2>4. [x EXCEPT !.step[k] = to, !.pc = pc] = y
    <3> DEFINE z == [pc |-> x.pc, ip |-> x.ip, id |-> x.id, step |-> f]
    <3>1. [x EXCEPT !.step[k] = to] = z
      BY <2>r
    <3>2. [z EXCEPT !.pc = pc] = y
      BY <1>y
    <3>3. [x EXCEPT !.step[k] = to, !.pc = pc] = [[x EXCEPT !.step[k] = to] EXCEPT !.pc = pc]
      BY <2>r
    <3> QED BY <3>1, <3>2, <3>3
  <2>5. pc = x.pc => [x EXCEPT !.step[k] = to] = y
    BY <2>r, <1>y
  <2>6. IsAttempt(y)
    <3>1. y = [pc |-> pc, ip |-> x.ip, id |-> x.id, step |-> f]
      BY <1>y
    <3> HIDE DEF f
    <3> QED BY <1>1, <2>1, <3>1 DEF IsAttempt
  <2> HIDE DEF f
  <2> QED BY <2>2, <2>3, <2>4, <2>5, <2>6
<1>3. attempt' = [attempt EXCEPT ![a] = y]
  <2>1. CASE attempt' = [attempt EXCEPT ![a].step[k] = to] /\ pc = attempt[a].pc
    <3>1. attempt' = [attempt EXCEPT ![a] = [x EXCEPT !.step[k] = to]]
      BY <2>1, Zenon DEF x
    <3> QED BY <2>1, <3>1, <1>2, <1>x
  <2>2. CASE attempt' = [attempt EXCEPT ![a].step[k] = to, ![a].pc = pc]
    <3>1. attempt' = [attempt EXCEPT ![a] = [x EXCEPT !.step[k] = to, !.pc = pc]]
      BY <2>2 DEF x
    <3> QED BY <3>1, <1>2
  <2> QED BY <2>1, <2>2
<1>4. /\ attempt' = [b \in Attempts |-> attempt'[b]]
      /\ \A b \in Attempts : attempt'[b] # Quiet => IsAttempt(attempt'[b])
      /\ attempt'[a] = y
      /\ \A b \in Attempts \ {a}, j \in Keys : At(b, j, "expire")' <=> At(b, j, "expire")
  BY <1>2, <1>3, AttemptReplaced
<1>5. /\ \A j \in Keys \ {k} : At(a, j, "expire")' <=> At(a, j, "expire")
      /\ At(a, k, "expire")' <=> to = "expire"
  <2>1. \A j : At(a, j, "expire") <=> j \in {x.ip, x.id} /\ x.step[j] = "expire"
    BY <1>1, <1>x DEF At
  <2>2. \A j : At(a, j, "expire")' <=> j \in {y.ip, y.id} /\ y.step[j] = "expire"
    BY <1>2, <1>4 DEF At
  <2> QED BY <1>1, <1>2, <2>1, <2>2
<1>6. \A j \in Keys, b \in Attempts :
        At(b, j, "expire")' <=> IF b = a /\ j = k THEN to = "expire" ELSE At(b, j, "expire")
  BY <1>4, <1>5
<1>7. \A j \in Keys : Expiring(j)' = {b \in Attempts : At(b, j, "expire")'}
  BY DEF Expiring
<1>8. \A j \in Keys \ {k} : Expiring(j)' = Expiring(j)
  BY <1>6, <1>7 DEF Expiring
<1>9. to = "expire" => Expiring(k)' = Expiring(k) \union {a}
  BY <1>6, <1>7 DEF Expiring
<1>10. to # "expire" => Expiring(k)' = Expiring(k) \ {a}
  BY <1>6, <1>7 DEF Expiring
<1> QED BY <1>4, <1>8, <1>9, <1>10

LEMMA ThrottleInitial == ThrottleInit => ThrottleInv
<1> SUFFICES ASSUME ThrottleInit PROVE ThrottleInv
  OBVIOUS
<1>1. ThrottleTyped
  BY ThrottleAssumption DEF ThrottleInit, ThrottleTyped, ThrottleAssumption
<1>2. \A k \in Keys : Expiring(k) = {}
  BY DEF ThrottleInit, Expiring, At
<1>3. \A k \in Keys : counter[k] = 0 /\ expiry[k] = 0
  BY DEF ThrottleInit
<1> QED BY <1>1, <1>2, <1>3 DEF ThrottleInv, Tended

\* Where neither the count, the expiry nor the expiring change, nothing is disturbed.
LEMMA TendedStands ==
  ASSUME NEW k, Tended(k), counter'[k] = counter[k], expiry'[k] = expiry[k],
         Expiring(k)' = Expiring(k)
  PROVE  Tended(k)'
BY DEF Tended

LEMMA TimeKeepsLimits ==
  ASSUME ThrottleInv, TimePasses
  PROVE  ThrottleInv'
<1>1. \A k \in Keys : counter[k] \in 0..MaxCount /\ expiry[k] \in 0..RateWindow
  BY DEF ThrottleInv, ThrottleTyped
<1>2. \A k \in Keys : /\ counter'[k] = IF expiry[k] = 1 THEN 0 ELSE counter[k]
                      /\ expiry'[k] = IF expiry[k] > 0 THEN expiry[k] - 1 ELSE 0
  BY DEF TimePasses
<1>3. \A k : Expiring(k)' = Expiring(k)
  BY DEF TimePasses, Expiring, At
<1>4. counter' \in [Keys -> 0..MaxCount] /\ expiry' \in [Keys -> 0..RateWindow]
  <2>1. \A k \in Keys : /\ (IF expiry[k] = 1 THEN 0 ELSE counter[k]) \in 0..MaxCount
                        /\ (IF expiry[k] > 0 THEN expiry[k] - 1 ELSE 0) \in 0..RateWindow
    <3>1. MaxCount \in Nat /\ RateWindow \in Nat
      BY ThrottleAssumption DEF ThrottleAssumption
    <3> QED BY <1>1, <3>1
  <2> QED BY <2>1 DEF TimePasses
<1>5. ThrottleTyped'
  BY <1>4 DEF ThrottleInv, ThrottleTyped, TimePasses
<1>6. ASSUME NEW k \in Keys \ cut' PROVE Tended(k)'
  <2>1. Tended(k) /\ k \in Keys
    BY <1>6 DEF ThrottleInv, TimePasses
  <2> QED BY <1>1, <1>2, <1>3, <2>1 DEF Tended
<1> QED BY <1>5, <1>6 DEF ThrottleInv

\* A request that begins, ends or decides by itself is at no expiry before or after.
LEMMA QuietStep ==
  ASSUME ThrottleInv, NEW a \in Attempts, NEW y, y = Quiet \/ IsAttempt(y),
         attempt' = [attempt EXCEPT ![a] = y], UNCHANGED <<counter, expiry>>,
         cut' \subseteq Keys, cut \subseteq cut', cuts' \in 0..MaxCuts,
         \A k \in Keys \ cut' : At(a, k, "expire")' <=> At(a, k, "expire")
  PROVE  ThrottleInv'
<1>1. ThrottleTyped
  BY DEF ThrottleInv
<1>2. /\ attempt' = [b \in Attempts |-> attempt'[b]]
      /\ \A b \in Attempts : attempt'[b] # Quiet => IsAttempt(attempt'[b])
      /\ \A b \in Attempts \ {a}, j \in Keys : At(b, j, "expire")' <=> At(b, j, "expire")
  BY <1>1, AttemptReplaced
<1>3. ThrottleTyped'
  BY <1>1, <1>2 DEF ThrottleTyped
<1>4. ASSUME NEW k \in Keys \ cut' PROVE Tended(k)'
  <2>1. \A b \in Attempts : At(b, k, "expire")' <=> At(b, k, "expire")
    BY <1>2, <1>4
  <2>2. Expiring(k)' = Expiring(k)
    BY <2>1 DEF Expiring
  <2>3. Tended(k)
    BY <1>4 DEF ThrottleInv
  <2> QED BY <2>2, <2>3, TendedStands
<1> QED BY <1>3, <1>4 DEF ThrottleInv

LEMMA BeginKeepsLimits ==
  ASSUME ThrottleInv, NEW a \in Attempts, NEW ip \in Addresses, NEW id \in Identifiers,
         BeginAttempt(a, ip, id)
  PROVE  ThrottleInv'
<1> DEFINE y == [pc |-> "store", ip |-> ip, id |-> id, step |-> [k \in {ip, id} |-> "incr"]]
<1>1. IsAttempt(y) /\ y # Quiet /\ \A k : ~(k \in {y.ip, y.id} /\ y.step[k] = "expire")
  BY DEF IsAttempt, KeySteps, Quiet
<1>2. attempt' = [attempt EXCEPT ![a] = y]
  BY DEF BeginAttempt
<1> HIDE DEF y
<1>3. ThrottleTyped
  BY DEF ThrottleInv
<1>4. attempt'[a] = y
  BY <1>1, <1>2, <1>3, AttemptReplaced
<1>5. \A k : ~At(a, k, "expire") /\ ~At(a, k, "expire")'
  BY <1>1, <1>4 DEF At, BeginAttempt
<1>6. cuts \in 0..MaxCuts /\ cut \subseteq Keys
  BY <1>3 DEF ThrottleTyped
<1> QED BY <1>1, <1>2, <1>5, <1>6, QuietStep DEF BeginAttempt

LEMMA DecisionKeepsLimits ==
  ASSUME ThrottleInv, NEW a \in Attempts, DecideLocally(a)
  PROVE  ThrottleInv'
<1> DEFINE x == attempt[a]
           y == [pc |-> "answered", ip |-> x.ip, id |-> x.id, step |-> x.step]
<1>1. x # Quiet
  BY DEF DecideLocally, Quiet
<1>2. ThrottleTyped /\ cuts \in 0..MaxCuts /\ cut \subseteq Keys
  BY DEF ThrottleInv, ThrottleTyped
<1>3. IsAttempt(x)
  BY <1>1, <1>2 DEF ThrottleTyped
<1>4. IsAttempt(y) /\ y # Quiet /\ y.ip = x.ip /\ y.id = x.id /\ y.step = x.step
  BY <1>3 DEF IsAttempt, Quiet
<1>5. [x EXCEPT !.pc = "answered"] = y
  <2>1. x = [pc |-> x.pc, ip |-> x.ip, id |-> x.id, step |-> x.step]
    BY <1>3 DEF IsAttempt
  <2>2. x \in [pc : {x.pc}, ip : {x.ip}, id : {x.id}, step : {x.step}]
    BY <2>1
  <2> QED BY <2>2
<1>6. attempt' = [attempt EXCEPT ![a] = y]
  <2>1. attempt' = [attempt EXCEPT ![a] = [x EXCEPT !.pc = "answered"]]
    BY DEF DecideLocally
  <2> QED BY <1>5, <2>1
<1>x. x = attempt[a]
  OBVIOUS
<1> HIDE DEF x, y
<1>7. attempt'[a] = y
  BY <1>2, <1>4, <1>6, AttemptReplaced
<1>8. \A k : At(a, k, "expire")' <=> At(a, k, "expire")
  BY <1>1, <1>4, <1>7, <1>x DEF At
<1> QED BY <1>2, <1>4, <1>6, <1>8, QuietStep DEF DecideLocally

LEMMA OverKeepsLimits ==
  ASSUME ThrottleInv, NEW a \in Attempts, AttemptOver(a)
  PROVE  ThrottleInv'
<1>1. ThrottleTyped /\ cuts \in 0..MaxCuts /\ cut \subseteq Keys
  BY DEF ThrottleInv, ThrottleTyped
<1>2. attempt' = [attempt EXCEPT ![a] = Quiet]
  BY DEF AttemptOver
<1>3. attempt'[a] = Quiet
  BY <1>1, <1>2, AttemptReplaced
<1>4. \A k : ~At(a, k, "expire") /\ ~At(a, k, "expire")'
  BY <1>3 DEF At, AttemptOver
<1> QED BY <1>1, <1>2, <1>4, QuietStep DEF AttemptOver

LEMMA DeathKeepsLimits ==
  ASSUME ThrottleInv, NEW a \in Attempts, AttemptDies(a)
  PROVE  ThrottleInv'
<1>1. ThrottleTyped /\ cuts \in 0..MaxCuts /\ cut \subseteq Keys
  BY DEF ThrottleInv, ThrottleTyped
<1>2. attempt' = [attempt EXCEPT ![a] = Quiet]
  BY DEF AttemptDies
<1>3. attempt'[a] = Quiet
  BY <1>1, <1>2, AttemptReplaced
<1>4. cut' = cut \union {k \in Keys : At(a, k, "expire")}
  BY DEF AttemptDies
<1>5. \A k \in Keys \ cut' : At(a, k, "expire")' <=> At(a, k, "expire")
  BY <1>3, <1>4 DEF At
<1>6. cuts' \in 0..MaxCuts
  <2>1. MaxCuts \in Nat
    BY ThrottleAssumption DEF ThrottleAssumption
  <2> QED BY <1>1, <2>1 DEF AttemptDies, Fault
<1> QED BY <1>1, <1>2, <1>4, <1>5, <1>6, QuietStep DEF AttemptDies

LEMMA IncrKeepsLimits ==
  ASSUME ThrottleInv, NEW a \in Attempts, NEW k \in Keys, Incr(a, k)
  PROVE  ThrottleInv'
<1> DEFINE to == IF counter[k] = 0 THEN "expire" ELSE Verdict(k)
<1>1. ThrottleTyped
  BY DEF ThrottleInv
<1>2. /\ At(a, k, "incr") /\ counter[k] < MaxCount
      /\ counter' = [counter EXCEPT ![k] = @ + 1]
      /\ attempt' = [attempt EXCEPT ![a].step[k] = to]
      /\ UNCHANGED <<expiry, cut, cuts>>
  BY DEF Incr, Counts
<1>3. to \in KeySteps /\ (to = "expire" <=> counter[k] = 0)
  BY DEF KeySteps, Verdict
<1> HIDE DEF to
<1>4. attempt[a].pc \in {"store", "local", "answered"}
  BY <1>1, <1>2 DEF ThrottleTyped, At, IsAttempt
<1>5. /\ attempt' = [b \in Attempts |-> attempt'[b]]
      /\ \A b \in Attempts : attempt'[b] # Quiet => IsAttempt(attempt'[b])
      /\ \A j \in Keys \ {k} : Expiring(j)' = Expiring(j)
      /\ to = "expire" => Expiring(k)' = Expiring(k) \union {a}
      /\ to # "expire" => Expiring(k)' = Expiring(k) \ {a}
  BY <1>1, <1>2, <1>3, <1>4, KeyStep
<1>6. a \notin Expiring(k)
  BY <1>2 DEF Expiring, At
<1>7. MaxCount \in Nat /\ counter \in [Keys -> 0..MaxCount]
  BY <1>1, ThrottleAssumption DEF ThrottleAssumption, ThrottleTyped
<1>8. /\ counter' \in [Keys -> 0..MaxCount] /\ counter'[k] = counter[k] + 1
      /\ \A j \in Keys \ {k} : counter'[j] = counter[j]
  BY <1>2, <1>7
<1>9. ThrottleTyped'
  BY <1>1, <1>2, <1>5, <1>8 DEF ThrottleTyped
<1>10. ASSUME NEW j \in Keys \ cut', j # k PROVE Tended(j)'
  BY <1>2, <1>5, <1>8, <1>10, TendedStands DEF ThrottleInv
<1>11. ASSUME k \notin cut' PROVE Tended(k)'
  <2>1. Tended(k) /\ counter[k] \in 0..MaxCount /\ expiry[k] \in 0..RateWindow
    BY <1>1, <1>2, <1>7, <1>11 DEF ThrottleInv, ThrottleTyped
  <2>2. CASE counter[k] = 0
    BY <1>2, <1>3, <1>5, <1>8, <2>1, <2>2 DEF Tended
  <2>3. CASE counter[k] # 0
    <3>1. Expiring(k)' = Expiring(k)
      BY <1>3, <1>5, <1>6, <2>3
    <3> QED BY <1>2, <1>8, <2>1, <2>3, <3>1 DEF Tended
  <2> QED BY <2>2, <2>3
<1> QED BY <1>9, <1>10, <1>11 DEF ThrottleInv

LEMMA ExpiryKeepsLimits ==
  ASSUME ThrottleInv, NEW a \in Attempts, NEW k \in Keys, SetExpiry(a, k)
  PROVE  ThrottleInv'
<1>1. ThrottleTyped
  BY DEF ThrottleInv
<1>2. /\ At(a, k, "expire")
      /\ expiry' = [expiry EXCEPT ![k] = RateWindow]
      /\ attempt' = [attempt EXCEPT ![a].step[k] = "within"]
      /\ UNCHANGED <<counter, cut, cuts>>
  BY DEF SetExpiry
<1>3. "within" \in KeySteps
  BY DEF KeySteps
<1>4. attempt[a].pc \in {"store", "local", "answered"}
  BY <1>1, <1>2 DEF ThrottleTyped, At, IsAttempt
<1>5. /\ attempt' = [b \in Attempts |-> attempt'[b]]
      /\ \A b \in Attempts : attempt'[b] # Quiet => IsAttempt(attempt'[b])
      /\ \A j \in Keys \ {k} : Expiring(j)' = Expiring(j)
      /\ Expiring(k)' = Expiring(k) \ {a}
  BY <1>1, <1>2, <1>3, <1>4, KeyStep
<1>6. a \in Expiring(k)
  BY <1>2 DEF Expiring
<1>7. RateWindow \in Nat \ {0} /\ expiry \in [Keys -> 0..RateWindow]
  BY <1>1, ThrottleAssumption DEF ThrottleAssumption, ThrottleTyped
<1>8. /\ expiry' \in [Keys -> 0..RateWindow] /\ expiry'[k] = RateWindow
      /\ \A j \in Keys \ {k} : expiry'[j] = expiry[j]
  BY <1>2, <1>7
<1>9. ThrottleTyped'
  BY <1>1, <1>2, <1>5, <1>8 DEF ThrottleTyped
<1>10. ASSUME NEW j \in Keys \ cut', j # k PROVE Tended(j)'
  BY <1>2, <1>5, <1>8, <1>10, TendedStands DEF ThrottleInv
<1>11. ASSUME k \notin cut' PROVE Tended(k)'
  <2>1. Tended(k) /\ counter[k] \in 0..MaxCount /\ expiry[k] \in 0..RateWindow
    BY <1>1, <1>2, <1>11 DEF ThrottleInv, ThrottleTyped
  <2>2. counter[k] > 0 /\ expiry[k] = 0
    <3>1. MaxCount \in Nat
      BY ThrottleAssumption DEF ThrottleAssumption
    <3> QED BY <1>6, <1>7, <2>1, <3>1 DEF Tended
  <2>3. Expiring(k)' = {}
    BY <1>5, <1>6, <2>1, <2>2 DEF Tended
  <2> QED BY <1>2, <1>7, <1>8, <2>2, <2>3 DEF Tended
<1> QED BY <1>9, <1>10, <1>11 DEF ThrottleInv

LEMMA FailureKeepsLimits ==
  ASSUME ThrottleInv, NEW a \in Attempts, NEW k \in Keys, CallFails(a, k)
  PROVE  ThrottleInv'
<1> DEFINE pc == IF attempt[a].pc = "store" THEN "local" ELSE attempt[a].pc
<1>1. ThrottleTyped /\ counter \in [Keys -> 0..MaxCount] /\ cut \subseteq Keys
  BY DEF ThrottleInv, ThrottleTyped
<1>2. UNCHANGED expiry /\ cuts' \in 0..MaxCuts
  <2>1. MaxCuts \in Nat
    BY ThrottleAssumption DEF ThrottleAssumption
  <2> QED BY <1>1, <2>1 DEF CallFails, Fault, ThrottleTyped
<1>3. PICK from \in {"incr", "expire"} : At(a, k, from)
  BY DEF CallFails
<1>4. /\ attempt' = [attempt EXCEPT ![a].step[k] = "failed", ![a].pc = pc]
      /\ pc \in {"store", "local", "answered"} /\ "failed" \in KeySteps
  <2>1. attempt[a].pc \in {"store", "local", "answered"}
    BY <1>1, <1>3 DEF ThrottleTyped, At, IsAttempt
  <2>2. pc \in {"store", "local", "answered"} /\ "failed" \in KeySteps
    BY <2>1 DEF KeySteps
  <2>3. attempt' = [attempt EXCEPT ![a].step[k] = "failed", ![a].pc = pc]
    BY DEF CallFails
  <2> QED BY <2>2, <2>3
<1> HIDE DEF pc
<1>5. /\ attempt' = [b \in Attempts |-> attempt'[b]]
      /\ \A b \in Attempts : attempt'[b] # Quiet => IsAttempt(attempt'[b])
      /\ \A j \in Keys \ {k} : Expiring(j)' = Expiring(j)
      /\ Expiring(k)' = Expiring(k) \ {a}
  <2>1. "failed" # "expire"
    OBVIOUS
  <2>2. \/ attempt' = [attempt EXCEPT ![a].step[k] = "failed"] /\ pc = attempt[a].pc
        \/ attempt' = [attempt EXCEPT ![a].step[k] = "failed", ![a].pc = pc]
    BY <1>4
  <2> QED BY <1>1, <1>3, <1>4, <2>1, <2>2, KeyStep, Zenon
<1>6. /\ counter' \in [Keys -> 0..MaxCount] /\ cut' \subseteq Keys /\ cut \subseteq cut'
      /\ \A j \in Keys \ {k} : counter'[j] = counter[j]
  <2>1. MaxCount \in Nat
    BY ThrottleAssumption DEF ThrottleAssumption
  <2> QED BY <1>1, <2>1 DEF CallFails
<1>7. ThrottleTyped'
  BY <1>1, <1>2, <1>5, <1>6 DEF ThrottleTyped
<1>8. ASSUME NEW j \in Keys \ cut', j # k PROVE Tended(j)'
  BY <1>2, <1>5, <1>6, <1>8, TendedStands DEF ThrottleInv
<1>9. ASSUME k \notin cut' PROVE Tended(k)'
  <2>1. Tended(k) /\ counter[k] \in 0..MaxCount /\ expiry[k] \in 0..RateWindow
    BY <1>1, <1>6, <1>9 DEF ThrottleInv, ThrottleTyped
  <2>2. /\ At(a, k, "incr")
        /\ counter'[k] = counter[k] \/ (counter[k] # 0 /\ counter'[k] = counter[k] + 1)
    BY <1>1, <1>9 DEF CallFails
  <2>3. Expiring(k)' = Expiring(k)
    BY <1>5, <2>2 DEF Expiring, At
  <2> QED BY <1>2, <2>1, <2>2, <2>3 DEF Tended
<1> QED BY <1>7, <1>8, <1>9 DEF ThrottleInv

LEMMA ThrottleStep == ThrottleInv /\ [ThrottleNext]_throttleVars => ThrottleInv'
<1> SUFFICES ASSUME ThrottleInv, [ThrottleNext]_throttleVars PROVE ThrottleInv'
  OBVIOUS
<1>1. CASE ThrottleNext
  BY <1>1, TimeKeepsLimits, BeginKeepsLimits, IncrKeepsLimits, ExpiryKeepsLimits,
     FailureKeepsLimits, DecisionKeepsLimits, OverKeepsLimits, DeathKeepsLimits
     DEF ThrottleNext
<1>2. CASE UNCHANGED throttleVars
  <2>1. /\ counter' = counter /\ expiry' = expiry /\ attempt' = attempt
        /\ cut' = cut /\ cuts' = cuts
    BY <1>2 DEF throttleVars
  <2>2. \A k : Expiring(k)' = Expiring(k)
    BY <2>1 DEF Expiring, At
  <2>3. ThrottleTyped'
    BY <2>1 DEF ThrottleInv, ThrottleTyped
  <2> QED BY <2>1, <2>2, <2>3, TendedStands DEF ThrottleInv
<1> QED BY <1>1, <1>2

\* Whatever the requests, their order and the failures: a counter without an expiry is
\* one a fault cut off, or its one request is about to set it.
THEOREM LockedOut == ThrottleSpec => []LockedOutOnlyByFault
<1>1. ThrottleInv => LockedOutOnlyByFault
  BY LockedFromTended
<1> QED BY <1>1, ThrottleInitial, ThrottleStep, PTL DEF ThrottleSpec

\* The remembered attempts, by how long each of them still counts.
RecentTyped == recent \in [Keys -> [1..RateWindow -> Nat]]

LEMMA RecentInitial == ThrottleInit => RecentTyped
BY DEF ThrottleInit, RecentTyped

LEMMA RecentStep == ThrottleInv /\ RecentTyped /\ [ThrottleNext]_throttleVars => RecentTyped'
<1> SUFFICES ASSUME ThrottleInv, RecentTyped, [ThrottleNext]_throttleVars
             PROVE  RecentTyped'
  OBVIOUS
<1>0. RateWindow \in Nat \ {0} /\ RateWindow \in 1..RateWindow
  BY ThrottleAssumption DEF ThrottleAssumption
<1>1. CASE TimePasses
  <2>1. recent' = [k \in Keys |-> [left \in 1..RateWindow |->
          IF left < RateWindow THEN recent[k][left + 1] ELSE 0]]
    BY <1>1 DEF TimePasses
  <2>2. ASSUME NEW k \in Keys, NEW left \in 1..RateWindow
        PROVE  (IF left < RateWindow THEN recent[k][left + 1] ELSE 0) \in Nat
    <3>1. recent[k] \in [1..RateWindow -> Nat]
      BY <2>2 DEF RecentTyped
    <3>2. left < RateWindow => left + 1 \in 1..RateWindow
      BY <1>0, <2>2
    <3> QED BY <3>1, <3>2
  <2> QED BY <2>1, <2>2 DEF RecentTyped
<1>2. ASSUME NEW a \in Attempts, DecideLocally(a) PROVE RecentTyped'
  <2>1. attempt[a].ip \in Keys /\ attempt[a].id \in Keys
    <3>1. attempt[a] # Quiet
      BY <1>2 DEF DecideLocally, Quiet
    <3>2. IsAttempt(attempt[a])
      BY <3>1 DEF ThrottleInv, ThrottleTyped
    <3> QED BY <3>2 DEF IsAttempt, Keys
  <2> DEFINE remembers(k) == [recent[k] EXCEPT ![RateWindow] = @ + 1]
  <2>2. \A k \in Keys : remembers(k) \in [1..RateWindow -> Nat]
    <3> SUFFICES ASSUME NEW k \in Keys PROVE remembers(k) \in [1..RateWindow -> Nat]
      OBVIOUS
    <3>1. recent[k] \in [1..RateWindow -> Nat]
      BY DEF RecentTyped
    <3>2. recent[k][RateWindow] + 1 \in Nat
      BY <1>0, <3>1
    <3> QED BY <3>1, <3>2
  <2>3. \/ recent' = recent
        \/ recent' = [recent EXCEPT ![attempt[a].ip] = remembers(attempt[a].ip)]
        \/ recent' = [recent EXCEPT ![attempt[a].ip] = remembers(attempt[a].ip),
                                    ![attempt[a].id] = remembers(attempt[a].id)]
    BY <1>2, Zenon DEF DecideLocally
  <2> HIDE DEF remembers
  <2> QED BY <2>1, <2>2, <2>3 DEF RecentTyped
<1>3. CASE UNCHANGED recent
  BY <1>3 DEF RecentTyped
<1> QED BY <1>1, <1>2, <1>3 DEF ThrottleNext, BeginAttempt, Incr, Counts, SetExpiry,
     CallFails, AttemptOver, AttemptDies, throttleVars

\* Every count stays within its bound, every remaining time within the window, and a
\* request that is under way is at one step of each of its keys.
THEOREM AttemptsTyped == ThrottleSpec => []ThrottleTypeOK
<1>1. ThrottleInv /\ RecentTyped => ThrottleTypeOK
  BY DEF ThrottleInv, ThrottleTyped, RecentTyped, ThrottleTypeOK, IsAttempt
<1> QED BY <1>1, ThrottleInitial, ThrottleStep, RecentInitial, RecentStep, PTL
           DEF ThrottleSpec
-----------------------------------------------------------------------------
(* Remote control of a subscriber *)

Ops == {"isolate", "restore", "disconnect", "reconnect"}
Work == [pc : {"work"}, op : Ops, todo : SUBSET Sessions, read : SUBSET Sessions,
         wait : SUBSET Sessions, ok : BOOLEAN, alone : BOOLEAN]
JobStates == Running \union {"none", "completed", "failed"}

RemoteTyped ==
  /\ standing \in {"ACTIVE", "SUSPENDED"}
  /\ online \subseteq Sessions
  /\ blocked \subseteq Sessions /\ covered \subseteq Sessions
  /\ call \in [Calls -> {Unused, Over} \union Work]
  /\ job \in [Calls -> [Sessions -> JobStates]]
  /\ disturbed \in BOOLEAN /\ edits \in 0..MaxEdits

Working(c) == call[c].pc = "work"
Steps == [isolate |-> {"block", "kick"}, restore |-> {"unblock"},
          disconnect |-> {"kick"}, reconnect |-> {"unblock"}]

\* What the agent does is of the operation that asked for it, and unawaited only
\* after a failure; a call that shares its time with nobody finds nobody busy.
WorkInv(c) ==
  Working(c) =>
    /\ call[c].wait \subseteq call[c].read /\ call[c].todo \subseteq call[c].read
    /\ call[c].wait \intersect call[c].todo = {}
    /\ \A s, u \in call[c].wait : s = u
    /\ \A s \in Sessions : job[c][s] \in Running => job[c][s] \in Steps[call[c].op]
    /\ call[c].ok => \A s \in Sessions : job[c][s] # "none" => s \in call[c].wait
    /\ call[c].alone => \A d \in Calls \ {c} : ~Busy(d)

\* How far an isolation or restoration that is alone has brought the routers.
ReachInv(c) ==
  Working(c) /\ call[c].alone /\ call[c].ok =>
    \A s \in call[c].read \ call[c].todo :
      /\ call[c].op = "isolate" /\ job[c][s] \notin {"block", "failed"} => s \in blocked
      /\ call[c].op = "restore" /\ job[c][s] \notin {"unblock", "failed"} => s \notin blocked

\* A command that outlived its call and changes the block list disturbs.
OrphanInv(c) ==
  /\ call[c] = Unused => \A s \in Sessions : job[c][s] = "none"
  /\ ~Working(c) /\ (\E s \in Sessions : job[c][s] \in {"block", "unblock"}) => disturbed

Changing(c) == Working(c) /\ call[c].op # "disconnect"
Matches == IF standing = "SUSPENDED" THEN covered \subseteq blocked
           ELSE covered \intersect blocked = {}

MatchInv == ~disturbed /\ (\A c \in Calls : ~Changing(c)) => Matches

RemoteInv ==
  /\ RemoteTyped
  /\ \A c \in Calls : WorkInv(c) /\ ReachInv(c) /\ OrphanInv(c)
  /\ MatchInv

LEMMA CallCases ==
  ASSUME RemoteTyped, NEW c \in Calls
  PROVE  /\ Working(c) <=> call[c] \in Work
         /\ ~Working(c) <=> call[c] \in {Unused, Over}
<1>1. Unused.pc = "new" /\ Over.pc = "over"
  BY DEF Unused, Over
<1>2. \A w \in Work : w.pc = "work"
  BY DEF Work
<1>3. call[c] \in {Unused, Over} \union Work
  BY DEF RemoteTyped
<1> QED BY <1>1, <1>2, <1>3 DEF Working

LEMMA WorkTyped ==
  ASSUME NEW w \in Work
  PROVE  /\ w.op \in Ops /\ w.todo \subseteq Sessions /\ w.read \subseteq Sessions
         /\ w.wait \subseteq Sessions /\ w.ok \in BOOLEAN /\ w.alone \in BOOLEAN
         /\ w.pc = "work" /\ w # Unused /\ w # Over
<1>1. Unused.pc = "new" /\ Over.pc = "over"
  BY DEF Unused, Over
<1> QED BY <1>1 DEF Work

\* Sessions come and go, and the status is edited.
LEMMA AroundKeeps ==
  ASSUME RemoteInv, UNCHANGED <<blocked, call, job, covered>>,
         online' \subseteq Sessions, standing' \in {"ACTIVE", "SUSPENDED"},
         edits' \in 0..MaxEdits,
         disturbed' = TRUE \/ UNCHANGED <<standing, disturbed>>
  PROVE  RemoteInv'
<1>1. RemoteTyped'
  BY DEF RemoteInv, RemoteTyped
<1>2. ASSUME NEW c \in Calls PROVE WorkInv(c)' /\ ReachInv(c)' /\ OrphanInv(c)'
  <2>1. WorkInv(c) /\ ReachInv(c) /\ OrphanInv(c)
    BY DEF RemoteInv
  <2>2. WorkInv(c)'
    BY <2>1 DEF WorkInv, Working, Busy
  <2>3. ReachInv(c)'
    BY <2>1 DEF ReachInv, Working
  <2>4. OrphanInv(c)'
    BY <2>1 DEF OrphanInv, Working
  <2> QED BY <2>2, <2>3, <2>4
<1>3. MatchInv'
  BY DEF RemoteInv, MatchInv, Matches, Changing, Working
<1> QED BY <1>1, <1>2, <1>3 DEF RemoteInv

LEMMA StartsKeeps ==
  ASSUME RemoteInv, NEW c \in Calls, NEW op \in Ops, NEW T \in SUBSET Sessions,
         Starts(c, op, T)
  PROVE  RemoteInv'
<1> DEFINE w == [pc |-> "work", op |-> op, todo |-> T, read |-> T,
                 wait |-> {}, ok |-> TRUE, alone |-> \A e \in Calls : ~Busy(e)]
<1>1. /\ w \in Work /\ w.pc = "work" /\ w.op = op /\ w.todo = T /\ w.read = T /\ w.wait = {}
      /\ w.alone => \A e \in Calls : ~Busy(e)
  BY DEF Work
<1>2. call[c] = Unused /\ RemoteTyped /\ MatchInv
      /\ UNCHANGED <<standing, online, blocked, job, covered, disturbed, edits>>
  BY DEF Starts, RemoteInv
<1>3. call' = [d \in Calls |-> IF d = c THEN w
               ELSE IF call[d].pc = "work" THEN [call[d] EXCEPT !.alone = FALSE] ELSE call[d]]
  BY DEF Starts
<1> HIDE DEF w
<1>4. ASSUME NEW d \in Calls \ {c}
      PROVE  /\ call'[d] \in {Unused, Over} \union Work
             /\ ~Working(d) => call'[d] = call[d]
             /\ Working(d) => /\ call'[d].pc = "work" /\ call'[d].op = call[d].op
                              /\ call'[d].todo = call[d].todo /\ call'[d].read = call[d].read
                              /\ call'[d].wait = call[d].wait /\ call'[d].ok = call[d].ok
                              /\ call'[d].alone = FALSE
  <2> DEFINE x == call[d]
             r == [x EXCEPT !.alone = FALSE]
  <2>1. x \in {Unused, Over} \union Work
    BY <1>2 DEF RemoteTyped
  <2>2. call'[d] = IF x.pc = "work" THEN r ELSE x
    BY <1>3
  <2>3. x \in Work => /\ r \in Work /\ r.pc = "work" /\ r.op = x.op /\ r.todo = x.todo
                      /\ r.read = x.read /\ r.wait = x.wait /\ r.ok = x.ok /\ r.alone = FALSE
    <3> HIDE DEF x
    <3> QED BY DEF Work
  <2>4. (Working(d) <=> x \in Work) /\ (Working(d) <=> x.pc = "work")
    BY <1>2, CallCases DEF Working
  <2> HIDE DEF r, x
  <2>5. x = call[d]
    BY DEF x
  <2> QED BY <2>1, <2>2, <2>3, <2>4, <2>5
<1>5. call'[c] = w
  BY <1>3
<1>6. call' \in [Calls -> {Unused, Over} \union Work]
  BY <1>1, <1>3, <1>4, <1>5
<1>7. RemoteTyped'
  BY <1>2, <1>6 DEF RemoteTyped
<1>8. \A d \in Calls \ {c} : Working(d)' <=> Working(d)
  BY <1>4 DEF Working
<1>9. ASSUME NEW d \in Calls \ {c} PROVE WorkInv(d)' /\ ReachInv(d)' /\ OrphanInv(d)'
  <2>1. WorkInv(d) /\ OrphanInv(d)
    BY DEF RemoteInv
  <2>2. WorkInv(d)'
    BY <1>2, <1>4, <1>8, <2>1 DEF WorkInv
  <2>3. ReachInv(d)'
    BY <1>4, <1>8 DEF ReachInv
  <2>4. OrphanInv(d)'
    <3>1. Unused.pc = "new"
      BY DEF Unused
    <3>2. call'[d] = Unused => call[d] = Unused
      BY <1>4, <3>1
    <3> QED BY <1>2, <1>8, <2>1, <3>2 DEF OrphanInv
  <2> QED BY <2>2, <2>3, <2>4
<1>10. WorkInv(c)' /\ ReachInv(c)' /\ OrphanInv(c)'
  <2>1. \A s \in Sessions : job'[c][s] = "none" /\ job'[c][s] \notin Running
    BY <1>2 DEF RemoteInv, OrphanInv, Running
  <2>2. w.alone => \A d \in Calls \ {c} : ~Busy(d)'
    BY <1>1, <1>2, <1>8 DEF Busy, Working
  <2>3. WorkInv(c)'
    BY <1>1, <1>5, <2>1, <2>2 DEF WorkInv
  <2>4. ReachInv(c)'
    BY <1>1, <1>5 DEF ReachInv
  <2>5. OrphanInv(c)'
    BY <1>1, <1>5, <2>1 DEF OrphanInv, Working
  <2> QED BY <2>3, <2>4, <2>5
<1>11. MatchInv'
  <2>1. (\A d \in Calls : ~Changing(d)') => \A d \in Calls : ~Changing(d)
    <3>1. \A d \in Calls \ {c} : Changing(d)' <=> Changing(d)
      BY <1>4, <1>8 DEF Changing
    <3>2. ~Changing(c)
      BY <1>2 DEF Changing, Working, Unused
    <3> QED BY <3>1, <3>2
  <2> QED BY <1>2, <2>1 DEF MatchInv, Matches
<1> QED BY <1>7, <1>9, <1>10, <1>11 DEF RemoteInv

\* A step of call c, or of the agent for it, leaves the other calls as they are.
LEMMA OthersStand ==
  ASSUME RemoteInv, NEW c \in Calls,
         \A d \in Calls \ {c} : call'[d] = call[d] /\ job'[d] = job[d],
         Busy(c)' => Busy(c), blocked' = blocked \/ Busy(c),
         disturbed => disturbed' \/ \A d \in Calls \ {c} : ~Busy(d)
  PROVE  \A d \in Calls \ {c} : WorkInv(d)' /\ ReachInv(d)' /\ OrphanInv(d)'
<1> SUFFICES ASSUME NEW d \in Calls \ {c} PROVE WorkInv(d)' /\ ReachInv(d)' /\ OrphanInv(d)'
  OBVIOUS
<1>1. WorkInv(d) /\ ReachInv(d) /\ OrphanInv(d)
  BY DEF RemoteInv
<1>2. \A e \in Calls \ {d} : Busy(e)' => Busy(e)
  BY DEF Busy
<1>3. WorkInv(d)'
  BY <1>1, <1>2 DEF WorkInv, Working
<1>4. ReachInv(d)'
  BY <1>1 DEF ReachInv, WorkInv, Working
<1>5. OrphanInv(d)'
  <2>1. (\E s \in Sessions : job[d][s] \in {"block", "unblock"}) => Busy(d)
    BY DEF Busy, Running
  <2> QED BY <1>1, <2>1 DEF OrphanInv, Working
<1> QED BY <1>3, <1>4, <1>5

\* A call at work writes its record and one of its jobs.
LEMMA WorkMoved ==
  ASSUME RemoteInv, NEW c \in Calls, NEW s \in Sessions, Working(c),
         NEW r \in Work, NEW v \in JobStates,
         call' = [call EXCEPT ![c] = r], job' = [job EXCEPT ![c][s] = v],
         UNCHANGED <<standing, online, blocked, covered, disturbed, edits>>,
         r.op = call[c].op, WorkInv(c)', ReachInv(c)'
  PROVE  RemoteInv'
<1>1. RemoteTyped /\ MatchInv
  BY DEF RemoteInv
<1>2. /\ call'[c] = r
      /\ \A d \in Calls \ {c} : call'[d] = call[d] /\ job'[d] = job[d]
  BY <1>1 DEF RemoteTyped
<1>3. RemoteTyped'
  <2>1. call' \in [Calls -> {Unused, Over} \union Work]
    BY <1>1 DEF RemoteTyped
  <2>2. job' \in [Calls -> [Sessions -> JobStates]]
    BY <1>1 DEF RemoteTyped
  <2> QED BY <1>1, <2>1, <2>2 DEF RemoteTyped
<1>4. r.pc = "work" /\ r # Unused
  BY WorkTyped
<1>5. OrphanInv(c)'
  BY <1>2, <1>4 DEF OrphanInv, Working
<1>6. Busy(c)
  BY DEF Busy, Working
<1>7. \A d \in Calls \ {c} : WorkInv(d)' /\ ReachInv(d)' /\ OrphanInv(d)'
  BY <1>2, <1>6, OthersStand
<1>8. MatchInv'
  <2>1. \A d \in Calls : Changing(d)' <=> Changing(d)
    BY <1>2, <1>4 DEF Changing, Working
  <2> QED BY <1>1, <2>1 DEF MatchInv, Matches
<1> QED BY <1>3, <1>5, <1>7, <1>8 DEF RemoteInv

LEMMA SendKeepsRemote ==
  ASSUME RemoteInv, NEW c \in Calls, NEW s \in Sessions, Send(c, s)
  PROVE  RemoteInv'
<1> DEFINE w == call[c]
           r == [w EXCEPT !.wait = {s}, !.todo = @ \ {s}]
           v == FirstStep[w.op]
<1>1. /\ Working(c) /\ RemoteTyped /\ WorkInv(c) /\ ReachInv(c)
      /\ w.wait = {} /\ s \in w.todo
  BY DEF Send, RemoteInv, Working
<1>2. w \in Work
  BY <1>1, CallCases
<1>3. w.op \in Ops
  BY <1>2, WorkTyped
<1>4. v \in Steps[w.op] /\ v \in JobStates
      /\ (w.op = "isolate" => v = "block") /\ (w.op = "restore" => v = "unblock")
  BY <1>3 DEF FirstStep, Steps, Ops, JobStates, Running
<1>5. /\ call' = [call EXCEPT ![c] = r] /\ job' = [job EXCEPT ![c][s] = v]
      /\ UNCHANGED <<standing, online, blocked, covered, disturbed, edits>>
  BY DEF Send
<1>6. /\ r \in Work /\ r.op = w.op /\ r.wait = {s} /\ r.todo = w.todo \ {s}
      /\ r.read = w.read /\ r.ok = w.ok /\ r.alone = w.alone
  <2> HIDE DEF w
  <2> QED BY <1>2 DEF Work
<1> HIDE DEF r, v
<1>7. /\ call'[c] = r /\ job'[c][s] = v
      /\ \A u \in Sessions \ {s} : job'[c][u] = job[c][u]
      /\ \A d \in Calls \ {c} : call'[d] = call[d] /\ job'[d] = job[d]
  BY <1>1, <1>5 DEF RemoteTyped
<1>8. \A d \in Calls \ {c} : Busy(d)' => Busy(d)
  BY <1>7 DEF Busy
<1>w. w = call[c]
  OBVIOUS
<1> HIDE DEF w
<1>9. WorkInv(c)'
  BY <1>1, <1>4, <1>6, <1>7, <1>8, <1>w DEF WorkInv, Working
<1>10. ReachInv(c)'
  BY <1>1, <1>4, <1>5, <1>6, <1>7, <1>w DEF ReachInv, Working
<1> QED BY <1>1, <1>4, <1>5, <1>6, <1>9, <1>10, <1>w, WorkMoved

LEMMA HearsKeeps ==
  ASSUME RemoteInv, NEW c \in Calls, NEW s \in Sessions, Hears(c, s)
  PROVE  RemoteInv'
<1> DEFINE w == call[c]
           j == job[c][s]
           fine == w.ok /\ j = "completed"
           r == [w EXCEPT !.wait = {}, !.ok = fine]
           v == IF j \in Running THEN j ELSE "none"
<1>1. Working(c) /\ RemoteTyped /\ WorkInv(c) /\ ReachInv(c) /\ s \in w.wait
  BY DEF Hears, RemoteInv, Working
<1>2. w \in Work /\ j \in JobStates
  BY <1>1, CallCases DEF RemoteTyped
<1>3. v \in JobStates /\ (j = "completed" => v = "none")
  BY DEF JobStates, Running
<1>4. /\ call' = [call EXCEPT ![c] = r] /\ job' = [job EXCEPT ![c][s] = v]
      /\ UNCHANGED <<standing, online, blocked, covered, disturbed, edits>>
  BY <1>1 DEF Hears, RemoteTyped
<1>5. /\ r \in Work /\ r.op = w.op /\ r.wait = {} /\ r.todo = w.todo
      /\ r.read = w.read /\ r.ok = fine /\ r.alone = w.alone
  <2>1. fine \in BOOLEAN
    OBVIOUS
  <2> HIDE DEF w, fine
  <2> QED BY <1>2, <2>1 DEF Work
<1>x. w = call[c] /\ j = job[c][s] /\ (fine => w.ok /\ j = "completed")
      /\ (v \in Running => v = j)
  BY DEF Running
<1> HIDE DEF r, v, w, j, fine
<1>6. /\ call'[c] = r /\ job'[c][s] = v
      /\ \A u \in Sessions \ {s} : job'[c][u] = job[c][u]
      /\ \A d \in Calls \ {c} : call'[d] = call[d] /\ job'[d] = job[d]
  BY <1>1, <1>4 DEF RemoteTyped
<1>7. \A d \in Calls \ {c} : Busy(d)' => Busy(d)
  BY <1>6 DEF Busy
<1>8. WorkInv(c)'
  <2>1. r.ok => \A u \in Sessions : job'[c][u] = "none"
    <3>1. r.ok => v = "none"
      BY <1>3, <1>5, <1>x
    <3>2. r.ok => \A u \in Sessions \ {s} : job[c][u] = "none"
      BY <1>1, <1>5, <1>x DEF WorkInv
    <3> QED BY <1>6, <3>1, <3>2
  <2>2. \A u \in Sessions : job'[c][u] \in Running => job'[c][u] \in Steps[w.op]
    BY <1>1, <1>6, <1>x DEF WorkInv
  <2>3. \A u \in Sessions : job'[c][u] \in Running => job'[c][u] \in Steps[r.op]
    BY <1>5, <2>2
  <2> QED BY <1>1, <1>5, <1>6, <1>7, <1>x, <2>1, <2>3 DEF WorkInv, Working
<1>9. ReachInv(c)'
  <2>1. j = "completed" => j \notin {"block", "unblock", "failed"}
    OBVIOUS
  <2> QED BY <1>1, <1>4, <1>5, <1>6, <1>x, <2>1 DEF ReachInv, WorkInv, Working
<1> QED BY <1>1, <1>3, <1>4, <1>5, <1>8, <1>9, <1>x, WorkMoved

LEMMA FinishKeeps ==
  ASSUME RemoteInv, NEW c \in Calls, Finish(c)
  PROVE  RemoteInv'
<1> DEFINE w == call[c]
           settles == w.ok /\ w.op \in {"isolate", "restore"}
<1>1. /\ Working(c) /\ RemoteTyped /\ WorkInv(c) /\ ReachInv(c) /\ MatchInv
      /\ w.wait = {} /\ w.todo = {}
  BY DEF Finish, RemoteInv, Working
<1>2. w \in Work
  BY <1>1, CallCases
<1>3. w.op \in Ops /\ w.read \subseteq Sessions /\ w.ok \in BOOLEAN /\ w.alone \in BOOLEAN
  BY <1>2, WorkTyped
<1>4. call' = [call EXCEPT ![c] = Over] /\ UNCHANGED <<online, blocked, job, edits>>
  BY DEF Finish
<1>5. IF settles
      THEN /\ standing' = IF w.op = "isolate" THEN "SUSPENDED" ELSE "ACTIVE"
           /\ covered' = w.read /\ disturbed' = ~w.alone
      ELSE /\ standing' = standing /\ covered' = covered
           /\ disturbed' = (disturbed \/ w.op # "disconnect")
  BY DEF Finish
<1>6. call' \in [Calls -> {Unused, Over} \union Work] /\ call'[c] = Over
      /\ \A d \in Calls \ {c} : call'[d] = call[d]
  BY <1>1, <1>4 DEF RemoteTyped
<1>7. RemoteTyped'
  <2>1. standing' \in {"ACTIVE", "SUSPENDED"} /\ covered' \subseteq Sessions
        /\ disturbed' \in BOOLEAN
    BY <1>1, <1>3, <1>5 DEF RemoteTyped
  <2> QED BY <1>1, <1>4, <1>6, <2>1 DEF RemoteTyped
<1>8. ~Working(c)' /\ call'[c] # Unused
  BY <1>6 DEF Working, Over, Unused
<1>9. w.ok => \A s \in Sessions : job[c][s] = "none"
  BY <1>1 DEF WorkInv
<1>10. w.alone => \A d \in Calls \ {c} : ~Busy(d)
  BY <1>1 DEF WorkInv
<1>11. \A d \in Calls \ {c} : WorkInv(d)' /\ ReachInv(d)' /\ OrphanInv(d)'
  <2>1. Busy(c)
    BY <1>1 DEF Busy, Working
  <2>2. disturbed => disturbed' \/ \A d \in Calls \ {c} : ~Busy(d)
    BY <1>3, <1>5, <1>10
  <2> QED BY <1>4, <1>6, <2>1, <2>2, OthersStand
<1>12. OrphanInv(c)'
  <2>1. CASE settles
    BY <1>4, <1>8, <1>9, <2>1 DEF OrphanInv
  <2>2. CASE ~settles
    <3>1. CASE w.op = "disconnect"
      <4>1. \A s \in Sessions : job[c][s] \notin {"block", "unblock"}
        <5>1. Steps[w.op] = {"kick"}
          BY <3>1 DEF Steps
        <5>2. \A s \in Sessions : job[c][s] \in Running => job[c][s] \in {"kick"}
          BY <1>1, <5>1 DEF WorkInv
        <5> HIDE DEF w
        <5> QED BY <5>2 DEF Running
      <4> QED BY <1>4, <1>8, <4>1 DEF OrphanInv
    <3>2. CASE w.op # "disconnect"
      BY <1>5, <1>8, <2>2, <3>2 DEF OrphanInv
    <3> QED BY <3>1, <3>2
  <2> QED BY <2>1, <2>2
<1>13. WorkInv(c)' /\ ReachInv(c)'
  BY <1>8 DEF WorkInv, ReachInv
<1>14. MatchInv'
  <2>1. CASE settles
    <3>1. \A s \in Sessions : job[c][s] = "none"
      BY <1>9, <2>1
    <3>2. w.alone /\ w.op = "isolate" => \A s \in w.read : s \in blocked
      BY <1>1, <1>3, <2>1, <3>1 DEF ReachInv
    <3>3. w.alone /\ w.op = "restore" => \A s \in w.read : s \notin blocked
      BY <1>1, <1>3, <2>1, <3>1 DEF ReachInv
    <3> HIDE DEF w
    <3>4. w.alone /\ w.op = "isolate" => Matches'
      BY <1>4, <1>5, <2>1, <3>2 DEF Matches
    <3>5. w.alone /\ w.op = "restore" => Matches'
      BY <1>4, <1>5, <2>1, <3>3 DEF Matches
    <3> QED BY <1>5, <2>1, <3>4, <3>5 DEF MatchInv
  <2>2. CASE ~settles
    <3>1. \A d \in Calls \ {c} : Changing(d)' <=> Changing(d)
      BY <1>6 DEF Changing, Working
    <3> QED BY <1>1, <1>4, <1>5, <2>2, <3>1 DEF MatchInv, Matches, Changing
  <2> QED BY <2>1, <2>2
<1> QED BY <1>7, <1>11, <1>12, <1>13, <1>14 DEF RemoteInv

\* A command of the agent ends or goes on to disconnect the session.
LEMMA JobMoved ==
  ASSUME RemoteInv, NEW c \in Calls, NEW s \in Sessions,
         NEW from \in Running, NEW to \in {"kick", "completed", "failed"},
         JobGoes(c, s, from, to), to = "kick" => from = "block",
         blocked' = IF from = "block" /\ to = "kick" THEN blocked \union {s}
                    ELSE IF from = "unblock" /\ to = "completed" THEN blocked \ {s}
                    ELSE blocked,
         to = "completed" => from # "block"
  PROVE  RemoteInv'
<1> DEFINE v == IF to \in Running \/ Awaited(c, s) THEN to ELSE "none"
<1>1. /\ RemoteTyped /\ WorkInv(c) /\ ReachInv(c) /\ OrphanInv(c) /\ MatchInv
      /\ job[c][s] = from
      /\ UNCHANGED <<standing, online, call, covered, disturbed, edits>>
  BY DEF JobGoes, RemoteInv
<1>2. job' = [job EXCEPT ![c][s] = v]
  BY DEF JobGoes
<1>3. /\ v \in JobStates /\ v \notin {"block", "unblock"}
      /\ v \in Running => v = "kick" /\ from = "block"
      /\ v # "none" => v = to /\ (to \in Running \/ Awaited(c, s))
      /\ Awaited(c, s) => v = to
  BY DEF JobStates, Running
<1>4. from \in {"block", "kick", "unblock"} /\ from # "none"
  BY DEF Running
<1> HIDE DEF v
<1>5. /\ job'[c][s] = v
      /\ \A u \in Sessions \ {s} : job'[c][u] = job[c][u]
      /\ \A d \in Calls \ {c} : call'[d] = call[d] /\ job'[d] = job[d]
  BY <1>1, <1>2 DEF RemoteTyped
<1>6. Busy(c) /\ call[c] # Unused
  BY <1>1, <1>4 DEF Busy, OrphanInv
<1>7. \A u \in Sessions \ {s} : u \in blocked' <=> u \in blocked
  OBVIOUS
<1>8. RemoteTyped'
  <2>1. job' \in [Calls -> [Sessions -> JobStates]]
    BY <1>1, <1>2, <1>3 DEF RemoteTyped
  <2>2. blocked' \subseteq Sessions
    BY <1>1 DEF RemoteTyped
  <2> QED BY <1>1, <2>1, <2>2 DEF RemoteTyped
<1>9. \A d \in Calls \ {c} : WorkInv(d)' /\ ReachInv(d)' /\ OrphanInv(d)'
  BY <1>1, <1>5, <1>6, OthersStand
<1>10. Working(c) => /\ from \in Steps[call[c].op] /\ call[c].op \in Ops
                     /\ call[c].ok => s \in call[c].wait /\ Awaited(c, s)
  <2>1. Working(c) => call[c].op \in Ops
    BY <1>1, CallCases, WorkTyped
  <2>2. Working(c) /\ call[c].ok => s \in call[c].wait
    BY <1>1, <1>4 DEF WorkInv
  <2> QED BY <1>1, <2>1, <2>2 DEF WorkInv, Awaited, Working
<1>11. Working(c) => /\ from = "block" => call[c].op = "isolate"
                     /\ from = "unblock" => call[c].op \in {"restore", "reconnect"}
                     /\ call[c].op = "isolate" => from \in {"block", "kick"}
                     /\ call[c].op = "restore" => from = "unblock"
  BY <1>10 DEF Steps, Ops
<1>12. WorkInv(c)'
  <2>1. Working(c) /\ v \in Running => v \in Steps[call[c].op]
    <3>1. "kick" \in Steps["isolate"]
      BY DEF Steps
    <3> QED BY <1>3, <1>11, <3>1
  <2>2. \A d \in Calls \ {c} : Busy(d)' => Busy(d)
    BY <1>5 DEF Busy
  <2>3. Working(c) => \A u \in Sessions : job'[c][u] \in Running => job'[c][u] \in Steps[call[c].op]
    BY <1>1, <1>5, <2>1 DEF WorkInv
  <2>4. Working(c) /\ call[c].ok => \A u \in Sessions : job'[c][u] # "none" => u \in call[c].wait
    BY <1>1, <1>5, <1>10 DEF WorkInv
  <2> QED BY <1>1, <2>2, <2>3, <2>4 DEF WorkInv, Working
<1>13. ReachInv(c)'
  <2> SUFFICES ASSUME Working(c), call[c].alone, call[c].ok,
                      NEW u \in call[c].read \ call[c].todo
               PROVE  /\ call[c].op = "isolate" /\ job'[c][u] \notin {"block", "failed"} => u \in blocked'
                      /\ call[c].op = "restore" /\ job'[c][u] \notin {"unblock", "failed"} => u \notin blocked'
    BY <1>1 DEF ReachInv, Working
  <2>1. /\ call[c].op = "isolate" /\ job[c][u] \notin {"block", "failed"} => u \in blocked
        /\ call[c].op = "restore" /\ job[c][u] \notin {"unblock", "failed"} => u \notin blocked
    BY <1>1 DEF ReachInv
  <2>2. u \in Sessions
    BY <1>1, CallCases, WorkTyped
  <2>3. CASE u # s
    BY <1>5, <1>7, <2>1, <2>2, <2>3
  <2>4. CASE u = s
    <3>1. job'[c][u] = to /\ job[c][u] = from
      BY <1>1, <1>3, <1>5, <1>10, <2>4
    <3>2. CASE call[c].op = "isolate"
      BY <1>11, <2>1, <2>4, <3>1, <3>2
    <3>3. CASE call[c].op = "restore"
      BY <1>11, <2>1, <2>4, <3>1, <3>3
    <3> QED BY <3>2, <3>3
  <2> QED BY <2>3, <2>4
<1>14. OrphanInv(c)'
  BY <1>1, <1>3, <1>5, <1>6 DEF OrphanInv, Working
<1>15. MatchInv'
  <2>1. \A d \in Calls : Changing(d)' <=> Changing(d)
    BY <1>1 DEF Changing, Working
  <2>2. CASE from = "kick" \/ to = "failed"
    <3>1. blocked' = blocked
      BY <2>2
    <3> QED BY <1>1, <2>1, <3>1 DEF MatchInv, Matches
  <2>3. CASE from # "kick" /\ to # "failed"
    <3>1. from \in {"block", "unblock"}
      BY <1>4, <2>3
    <3>2. CASE Working(c)
      <4>1. Changing(c)
        BY <1>11, <3>1, <3>2 DEF Changing
      <4> QED BY <2>1, <4>1 DEF MatchInv
    <3>3. CASE ~Working(c)
      <4>1. disturbed'
        BY <1>1, <3>1, <3>3 DEF OrphanInv
      <4> QED BY <4>1 DEF MatchInv
    <3> QED BY <3>2, <3>3
  <2> QED BY <2>2, <2>3
<1> QED BY <1>8, <1>9, <1>12, <1>13, <1>14, <1>15 DEF RemoteInv

LEMMA AgentKeeps ==
  ASSUME RemoteInv, NEW c \in Calls, NEW s \in Sessions,
         IsolateSubscriber(c, s) \/ RestoreSubscriber(c, s)
         \/ DisconnectSubscriber(c, s) \/ JobFails(c, s)
  PROVE  RemoteInv'
<1> Running = {"block", "kick", "unblock"}
  BY DEF Running
<1>1. CASE IsolateSubscriber(c, s)
  BY <1>1, JobMoved DEF IsolateSubscriber
<1>2. CASE RestoreSubscriber(c, s)
  BY <1>2, JobMoved DEF RestoreSubscriber
<1>3. CASE DisconnectSubscriber(c, s)
  BY <1>3, JobMoved DEF DisconnectSubscriber
<1>4. CASE JobFails(c, s)
  <2>1. PICK step \in Running : JobGoes(c, s, step, "failed")
    BY <1>4 DEF JobFails
  <2>2. blocked' = blocked
    BY <1>4 DEF JobFails
  <2> QED BY <2>1, <2>2, JobMoved
<1> QED BY <1>1, <1>2, <1>3, <1>4

LEMMA RemoteInitial ==
  ASSUME RemoteInit PROVE RemoteInv
<1>1. Unused.pc = "new"
  BY DEF Unused
<1>2. /\ call = [c \in Calls |-> Unused]
      /\ job = [c \in Calls |-> [s \in Sessions |-> "none"]]
      /\ standing = "ACTIVE" /\ online = {} /\ blocked = {} /\ covered = {}
      /\ disturbed = FALSE /\ edits = 0
  BY DEF RemoteInit
<1>3. RemoteTyped
  <2>1. edits \in 0..MaxEdits
    BY <1>2, RemoteAssumption DEF RemoteAssumption
  <2>2. job \in [Calls -> [Sessions -> JobStates]]
    BY <1>2 DEF JobStates
  <2> QED BY <1>2, <2>1, <2>2 DEF RemoteTyped
<1>4. \A c \in Calls : ~Working(c) /\ (\A s \in Sessions : job[c][s] = "none")
  BY <1>1, <1>2 DEF Working
<1>5. \A c \in Calls : WorkInv(c) /\ ReachInv(c) /\ OrphanInv(c)
  BY <1>4 DEF WorkInv, ReachInv, OrphanInv
<1>6. MatchInv
  BY <1>2 DEF MatchInv, Matches
<1> QED BY <1>3, <1>5, <1>6 DEF RemoteInv

LEMMA RemoteStep ==
  ASSUME RemoteInv, [RemoteNext]_remoteVars PROVE RemoteInv'
<1>1. CASE UNCHANGED remoteVars
  BY <1>1, AroundKeeps DEF remoteVars, RemoteInv, RemoteTyped
<1>2. CASE RemoteNext
  <2>1. ASSUME NEW s \in Sessions, LogIn(s) \/ SessionEnds(s) PROVE RemoteInv'
    BY <2>1, AroundKeeps DEF LogIn, SessionEnds, RemoteInv, RemoteTyped
  <2>2. ASSUME NEW to \in {"ACTIVE", "SUSPENDED"}, EditStatus(to) PROVE RemoteInv'
    <3>1. edits' \in 0..MaxEdits
      BY <2>2, RemoteAssumption DEF RemoteAssumption, EditStatus, RemoteInv, RemoteTyped
    <3> QED BY <2>2, <3>1, AroundKeeps DEF EditStatus, RemoteInv, RemoteTyped
  <2>3. ASSUME NEW c \in Calls, OperateOnSubscriber(c) PROVE RemoteInv'
    <3>1. PICK op \in {"isolate", "restore"}, T \in SUBSET Sessions : Starts(c, op, T)
      BY <2>3 DEF OperateOnSubscriber
    <3>2. op \in Ops
      BY DEF Ops
    <3> QED BY <3>1, <3>2, StartsKeeps
  <2>4. ASSUME NEW c \in Calls, Finish(c) PROVE RemoteInv'
    BY <2>4, FinishKeeps
  <2>5. ASSUME NEW c \in Calls, NEW s \in Sessions, OperateOnSession(c, s) PROVE RemoteInv'
    <3>1. PICK op \in {"disconnect", "reconnect"} : Starts(c, op, {s})
      BY <2>5 DEF OperateOnSession
    <3>2. op \in Ops /\ {s} \in SUBSET Sessions
      BY DEF Ops
    <3> QED BY <3>1, <3>2, StartsKeeps
  <2>6. ASSUME NEW c \in Calls, NEW s \in Sessions, Send(c, s) PROVE RemoteInv'
    BY <2>6, SendKeepsRemote
  <2>7. ASSUME NEW c \in Calls, NEW s \in Sessions, Hears(c, s) PROVE RemoteInv'
    BY <2>7, HearsKeeps
  <2>8. ASSUME NEW c \in Calls, NEW s \in Sessions,
               IsolateSubscriber(c, s) \/ RestoreSubscriber(c, s)
               \/ DisconnectSubscriber(c, s) \/ JobFails(c, s)
        PROVE RemoteInv'
    BY <2>8, AgentKeeps
  <2> QED BY <1>2, <2>1, <2>2, <2>3, <2>4, <2>5, <2>6, <2>7, <2>8 DEF RemoteNext
<1> QED BY <1>1, <1>2

\* What the calls of one subscriber's remote control and the agent's commands for them
\* know of each other and of the routers (operateOnSubscriberRemotely, NetworkAgent).
THEOREM RemoteInvariant == RemoteSpec => []RemoteInv
<1>1. RemoteInit => RemoteInv
  BY RemoteInitial
<1>2. RemoteInv /\ [RemoteNext]_remoteVars => RemoteInv'
  BY RemoteStep
<1> QED BY <1>1, <1>2, PTL DEF RemoteSpec

\* The rows, the calls and the agent's jobs keep their types (operateOnSubscriberRemotely,
\* NetworkAgent).
THEOREM RemoteTypes == RemoteSpec => []RemoteTypeOK
<1>1. DOMAIN FirstStep = Ops
  BY DEF FirstStep, Ops
<1>2. RemoteInv => RemoteTypeOK
  BY <1>1 DEF RemoteInv, RemoteTyped, RemoteTypeOK, Work, JobStates
<1> QED BY <1>2, RemoteInvariant, PTL

\* When nothing is under way and nothing disturbed the last isolation or restoration,
\* the routers it reached do what the subscriber's status says
\* (operateOnSubscriberRemotely, subscriberNetworkAction).
THEOREM StatusOfRouters == RemoteSpec => []StatusMatchesRouters
<1>1. RemoteInv => StatusMatchesRouters
  BY DEF RemoteInv, MatchInv, Matches, Changing, Working, Busy, Settled, StatusMatchesRouters
<1> QED BY <1>1, RemoteInvariant, PTL
-----------------------------------------------------------------------------
(* The components together: whichever runs, the others stand still, so a behaviour *)
(* of all of them is one of each, and each keeps what it promises alone.           *)

LEMMA PartsInitial ==
  OperationsInit => /\ PayoutInit /\ TenantInit /\ AccountInit /\ MessageInit
                    /\ ChannelInit /\ RemoteInit /\ PoolInit /\ ThrottleInit
BY DEF OperationsInit

LEMMA PartsStep ==
  [OperationsNext]_operationsVars =>
    /\ [PayoutNext]_payoutVars /\ [TenantNext]_tenantVars
    /\ [AccountNext]_accountVars /\ [MessageNext]_messageVars
    /\ [ChannelNext]_channelVars /\ [RemoteNext]_remoteVars
    /\ [PoolNext]_router /\ [ThrottleNext]_throttleVars
<1> SUFFICES ASSUME [OperationsNext]_operationsVars
             PROVE  /\ [PayoutNext]_payoutVars /\ [TenantNext]_tenantVars
                    /\ [AccountNext]_accountVars /\ [MessageNext]_messageVars
                    /\ [ChannelNext]_channelVars /\ [RemoteNext]_remoteVars
                    /\ [PoolNext]_router /\ [ThrottleNext]_throttleVars
  OBVIOUS
<1>1. CASE Only("payouts") /\ PayoutNext
  BY <1>1 DEF Only
<1>2. CASE Only("tenants") /\ TenantNext
  BY <1>2 DEF Only
<1>3. CASE Only("accounts") /\ AccountNext
  BY <1>3 DEF Only
<1>4. CASE Only("reminders") /\ MessageNext
  BY <1>4 DEF Only
<1>5. CASE Only("alerts") /\ MessageNext
  BY <1>5 DEF Only
<1>6. CASE Only("channel") /\ ChannelNext
  BY <1>6 DEF Only
<1>7. CASE Only("remote") /\ RemoteNext
  BY <1>7 DEF Only
<1>8. CASE Only("pool") /\ PoolNext
  BY <1>8 DEF Only
<1>9. CASE Only("throttle") /\ ThrottleNext
  BY <1>9 DEF Only
<1>10. CASE UNCHANGED operationsVars
  BY <1>10 DEF operationsVars
<1> QED BY <1>1, <1>2, <1>3, <1>4, <1>5, <1>6, <1>7, <1>8, <1>9, <1>10 DEF OperationsNext

\* Every behaviour of the composition is a behaviour of each of its components.
THEOREM ComponentsRun ==
  OperationsSpec => /\ PayoutSpec /\ TenantSpec /\ AccountSpec /\ MessageSpec
                    /\ ChannelSpec /\ RemoteSpec /\ PoolSpec /\ ThrottleSpec
BY PartsInitial, PartsStep, PTL
   DEF OperationsSpec, PayoutSpec, TenantSpec, AccountSpec, MessageSpec,
       ChannelSpec, RemoteSpec, PoolSpec, ThrottleSpec

\* The variables of whichever component runs keep their types, whatever is done in it.
THEOREM OperationsTyped == OperationsSpec => []OperationsTypeOK
<1>1. /\ PayoutTypeOK /\ TenantTypeOK /\ AccountTypeOK /\ MessageTypeOK
      /\ ChannelTypeOK /\ RemoteTypeOK /\ PoolTypeOK /\ ThrottleTypeOK
      => OperationsTypeOK
  BY DEF OperationsTypeOK
<1> QED BY <1>1, ComponentsRun, PayoutsTyped, TenantsTyped, AccountsTyped, MessagesTyped,
           ChannelTyped, RemoteTypes, PoolTyped, AttemptsTyped, PTL

\* What the components promise holds of them together: money booked once and overdrawn
\* only by overlapping payments, one account for an accepted invitation, messages sent
\* again or missing only for the causes named, replies that answer their command, a
\* status that is the routers', addresses and counters disturbed only by a race or a
\* fault.
THEOREM OperationsSafe ==
  OperationsSpec =>
    [](/\ PaidIffBooked /\ OverdrawnOnlyByOverlap
       /\ AccountIffAccepted /\ RegisteredGetsAccount
       /\ SentAgainOnlyByOverlap /\ SilentOnlyByFault
       /\ RepliesMatch /\ StatusMatchesRouters
       /\ AddressSharedOnlyByRace /\ LockedOutOnlyByFault)
BY ComponentsRun, PaidOnce, OverdrawnByOverlap, AccountPerInvitation, AccountForRegistered,
   SentAgainByOverlap, SilentByFault, ReplyMatches, StatusOfRouters, AddressesShared,
   LockedOut, PTL

\* The tenants' calls, among all the rest, implement one database for each tenant, with
\* the same exception for a call that is passed through.
THEOREM OperationsIsolated == OperationsSpec => IsolatedSpec
BY ComponentsRun, TenantsIsolated, PTL
=============================================================================
