--------------------------- MODULE MCSubscription ---------------------------
(* Finite instances of Subscription: one process that restarts, or two       *)
(* replicas.                                                                 *)
EXTENDS Subscription, TLC

CONSTANTS i1, i2

Replicas == Permutations({i1, i2})
=============================================================================
