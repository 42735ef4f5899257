----------------------------- MODULE MCVouchers -----------------------------
(* Vouchers on small instances: each code in a batch of its own.            *)
EXTENDS Vouchers, TLC

CONSTANTS b1, b2, v1, v2

OneBatch == v1 :> b1
TwoBatches == v1 :> b1 @@ v2 :> b2
=============================================================================
