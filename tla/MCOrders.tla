------------------------------ MODULE MCOrders ------------------------------
(* A small instance of Orders for TLC. *)
EXTENDS Orders, TLC

CONSTANTS r1, pA, pB, f1, f2, q1, q2, q3, o1, o2, w1

\* One reservation of two items on two products.
OneCart == 1 :> r1 @@ 2 :> r1
TwoProducts == 1 :> pA @@ 2 :> pB
TwoRefs == 1 :> f1 @@ 2 :> f2
TwoQty == 1 :> 1 @@ 2 :> 2
TwoStock == pA :> 1 @@ pB :> 2
=============================================================================
