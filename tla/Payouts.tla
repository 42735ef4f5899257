------------------------------ MODULE Payouts ------------------------------
(***************************************************************************)
(* Payouts of a reseller's commission: requested by the reseller against   *)
(* the commission balance, approved by an administrator, and paid from the *)
(* reseller's wallet.  Paying reads the payout, reads the wallet and only  *)
(* then runs a transaction, so several administrators may be between the   *)
(* reads and the transaction at the same time.                             *)
(***************************************************************************)
EXTENDS Integers, Sequences

CONSTANTS
  PayoutIds,      \* payouts, each requested once
  Clerks,         \* executions of payPayoutAction
  Amounts,        \* amounts a reseller asks for
  Opening,        \* the wallet's balance at the start: nothing here refills it
  Earnings,       \* commissions credited to the profile
  MaxCommission   \* bound on the commission balance

ASSUME PayoutAssumption ==
  /\ Amounts \subseteq Nat \ {0}
  /\ Opening \in Nat
  /\ Earnings \subseteq Nat
  /\ MaxCommission \in Nat

VARIABLES
  commission,   \* ResellerProfile.wallet_balance
  payout,       \* ResellerPayout: status and amount
  wallet,       \* Wallet.balance
  ledger,       \* WalletTransaction rows; "seen" is how many the clerk's read saw
  clerk         \* each execution: program counter, payout, the balance it read

payoutVars == <<commission, payout, wallet, ledger, clerk>>

Away == [pc |-> "away"]

PayoutInit ==
  /\ commission = 0
  /\ payout = [p \in PayoutIds |-> [status |-> "NONE", amount |-> 0]]
  /\ wallet = Opening
  /\ ledger = <<>>
  /\ clerk = [c \in Clerks |-> Away]

\* A confirmed sale credits the profile, never the wallet.
EarnCommission(e) ==
  /\ commission + e <= MaxCommission
  /\ commission' = commission + e
  /\ UNCHANGED <<payout, wallet, ledger, clerk>>

\* The whole balance is compared, whatever is already requested; it only
\* grows, so the read and the insert may be one step.
RequestPayout(p, a) ==
  /\ payout[p].status = "NONE"
  /\ a <= commission
  /\ payout' = [payout EXCEPT ![p] = [status |-> "PENDING", amount |-> a]]
  /\ UNCHANGED <<commission, wallet, ledger, clerk>>

ApprovePayout(p) ==
  /\ payout[p].status = "PENDING"
  /\ payout' = [payout EXCEPT ![p].status = "APPROVED"]
  /\ UNCHANGED <<commission, wallet, ledger, clerk>>

-----------------------------------------------------------------------------
(* payPayoutAction *)

FindApproved(c, p) ==
  /\ clerk[c] = Away
  /\ payout[p].status = "APPROVED"
  /\ clerk' = [clerk EXCEPT ![c] = [pc |-> "wallet", for |-> p]]
  /\ UNCHANGED <<commission, payout, wallet, ledger>>

\* Mutant: the balance is read but not compared.
TrustBalance(c) ==
  /\ clerk[c].pc = "wallet"
  /\ clerk' = [clerk EXCEPT ![c] = [pc |-> "pay", for |-> clerk[c].for,
                                    balance |-> wallet, seen |-> Len(ledger)]]
  /\ UNCHANGED <<commission, payout, wallet, ledger>>

ReadWallet(c) ==
  /\ clerk[c].pc = "wallet"
  /\ clerk' = [clerk EXCEPT ![c] =
                 IF wallet < payout[clerk[c].for].amount THEN Away
                 ELSE [pc |-> "pay", for |-> clerk[c].for,
                       balance |-> wallet, seen |-> Len(ledger)]]
  /\ UNCHANGED <<commission, payout, wallet, ledger>>

Entry(c) ==
  LET p == clerk[c].for
  IN  [payout |-> p, before |-> clerk[c].balance,
       after |-> clerk[c].balance - payout[p].amount, seen |-> clerk[c].seen]

\* Mutant: the payout is marked by its id, whatever its status has become.
PayTwice(c) ==
  /\ clerk[c].pc = "pay"
  /\ payout' = [payout EXCEPT ![clerk[c].for].status = "PAID"]
  /\ wallet' = wallet - payout[clerk[c].for].amount
  /\ ledger' = Append(ledger, Entry(c))
  /\ clerk' = [clerk EXCEPT ![c] = Away]
  /\ UNCHANGED commission

\* The transaction: claimed while APPROVED, the decrement without a condition,
\* the row written from the balance read before the transaction.
Pay(c) ==
  /\ clerk[c].pc = "pay"
  /\ payout[clerk[c].for].status = "APPROVED"
  /\ payout' = [payout EXCEPT ![clerk[c].for].status = "PAID"]
  /\ wallet' = wallet - payout[clerk[c].for].amount
  /\ ledger' = Append(ledger, Entry(c))
  /\ clerk' = [clerk EXCEPT ![c] = Away]
  /\ UNCHANGED commission

AlreadyProcessed(c) ==
  /\ clerk[c].pc = "pay"
  /\ payout[clerk[c].for].status # "APPROVED"
  /\ clerk' = [clerk EXCEPT ![c] = Away]
  /\ UNCHANGED <<commission, payout, wallet, ledger>>

PayoutNext ==
  \/ \E e \in Earnings : EarnCommission(e)
  \/ \E p \in PayoutIds : \/ \E a \in Amounts : RequestPayout(p, a)
                          \/ ApprovePayout(p)
  \/ \E c \in Clerks : \/ \E p \in PayoutIds : FindApproved(c, p)
                       \/ ReadWallet(c) \/ Pay(c) \/ AlreadyProcessed(c)

PayoutSpec == PayoutInit /\ [][PayoutNext]_payoutVars

-----------------------------------------------------------------------------
(* Properties *)

EntryType == [payout : PayoutIds, before : Int, after : Int, seen : Nat]

\* The types of the payout rows, the wallet, its transactions and the clerks.
PayoutTypeOK ==
  /\ commission \in 0..MaxCommission
  /\ payout \in [PayoutIds -> [status : {"NONE", "PENDING", "APPROVED", "PAID"},
                               amount : Amounts \union {0}]]
  /\ wallet \in Int
  /\ ledger \in Seq(EntryType)
  /\ clerk \in [Clerks -> {Away} \union [pc : {"wallet"}, for : PayoutIds]
                          \union [pc : {"pay"}, for : PayoutIds, balance : Int, seen : Nat]]

BookedFor(p, i) == i \in 1..Len(ledger) /\ ledger[i].payout = p

\* A payout is PAID exactly when the wallet has a transaction for it, and never
\* has two, however many administrators press "pay" (the claim in the transaction
\* of payPayoutAction).
PaidIffBooked ==
  \A p \in PayoutIds :
    /\ payout[p].status = "PAID" <=> \E i \in 1..Len(ledger) : BookedFor(p, i)
    /\ \A i, j \in 1..Len(ledger) : BookedFor(p, i) /\ BookedFor(p, j) => i = j

\* No payment read the balance before a payment that was booked ahead of it.
OneAtATime == \A i \in 1..Len(ledger) : ledger[i].seen = i - 1

Chained ==
  \A i \in 1..Len(ledger) :
    ledger[i].before = IF i = 1 THEN Opening ELSE ledger[i - 1].after

LastBalance == IF ledger = <<>> THEN Opening ELSE ledger[Len(ledger)].after

\* Requests reserve nothing, so approved payouts may exceed the commission and
\* the wallet together; while payments do not overlap, the check of the balance
\* still keeps the wallet from going negative and its transactions form a chain
\* that ends in the balance (payPayoutAction reads the wallet outside the
\* transaction: overlapping payments break both).
OverdrawnOnlyByOverlap ==
  OneAtATime => wallet >= 0 /\ Chained /\ wallet = LastBalance
=============================================================================
