--------------------------- MODULE PaymentLedger ----------------------------
(***************************************************************************)
(* What billing promises about one payment, whatever the deliveries that   *)
(* settle it do: an order is opened once, is then either refused or        *)
(* settled and never both, entitles its customer only once settled and     *)
(* for good, and earns its reseller at most one commission.                *)
(***************************************************************************)
EXTENDS Naturals

CONSTANT Payments

VARIABLES
  order,     \* where each payment stands
  credits    \* commissions credited for each payment

OrderStates == {"none", "open", "refused", "settled", "entitled"}

Init ==
  /\ order = [p \in Payments |-> "none"]
  /\ credits = [p \in Payments |-> 0]

Move(p, from, to) ==
  /\ order[p] = from
  /\ order' = [order EXCEPT ![p] = to]
  /\ UNCHANGED credits

Credit(p) ==
  /\ order[p] \in {"settled", "entitled"}
  /\ credits[p] = 0
  /\ credits' = [credits EXCEPT ![p] = 1]
  /\ UNCHANGED order

Next ==
  \E p \in Payments :
    \/ Move(p, "none", "open")
    \/ Move(p, "open", "refused")
    \/ Move(p, "open", "settled")
    \/ Move(p, "settled", "entitled")
    \/ Credit(p)

Spec == Init /\ [][Next]_<<order, credits>>
=============================================================================
