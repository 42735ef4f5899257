---------------------------- MODULE MCSettlement ----------------------------
(* Settlement on small instances.                                          *)
EXTENDS Settlement, TLC

Symmetry == Permutations(Webhooks) \union Permutations(Callbacks)
=============================================================================
