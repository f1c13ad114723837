-------------------------- MODULE MCPaymentBridge --------------------------
(* PaymentBridge with small sets.  Ids of orders, payments and handlers are *)
(* only compared, so permuting each of these sets changes nothing.          *)
EXTENDS PaymentBridge, TLC

Symmetry == Permutations(OrderIDs) \cup Permutations(PaymentIDs)
            \cup Permutations(Handlers)
=============================================================================
