---------------------------- MODULE MCAccounting ----------------------------
(* Accounting on small instances.                                           *)
EXTENDS Accounting, TLC

CONSTANTS a1, a2, s1, u1, u2

OneSession == a1 :> s1
TwoDevices == a1 :> s1 @@ a2 :> s1
Interchangeable == Permutations(Accts) \union Permutations(Requests) \union Permutations(Rows)
\* Bound: of overlaps, late updates and deaths a behaviour has one.
OneIrregularity ==
  Cardinality(doubled) + Cardinality(recounted) + Cardinality(crossed) + late + crashes <= 1

OneSubscription == u1 :> s1
Renewal == u1 :> s1 @@ u2 :> s1
Allowance == [u \in Subscriptions |-> IF u = u1 THEN 1 ELSE 2]
=============================================================================
