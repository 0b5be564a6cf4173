----------------------------- MODULE MCCheckout -----------------------------
(* Small instances of CheckoutSafety for TLC. *)
EXTENDS CheckoutSafety, CheckoutClaims, TLC

CONSTANTS r1, r2, r3, pA, pB, f1, f2, f3, f4, q1, q2, q3, w1

\* One reservation of two items on two products, of which only pA's provider
\* takes reservations.
OneCart == 1 :> r1 @@ 2 :> r1
TwoProducts == 1 :> pA @@ 2 :> pB
TwoRefs == 1 :> f1 @@ 2 :> f2
TwoQty == 1 :> 1 @@ 2 :> 2
TwoStock == pA :> 1 @@ pB :> 2

\* Two reservations that name the same two products in opposite order;
\* there is not enough of pA for both.
CrossCarts == 1 :> r1 @@ 2 :> r1 @@ 3 :> r2 @@ 4 :> r2
CrossProducts == 1 :> pA @@ 2 :> pB @@ 3 :> pB @@ 4 :> pA
CrossRefs == 1 :> f1 @@ 2 :> f2 @@ 3 :> f3 @@ 4 :> f4
CrossQty == 1 :> 1 @@ 2 :> 2 @@ 3 :> 1 @@ 4 :> 1
CrossStock == pA :> 1 @@ pB :> 3

\* Two reservations of one item each, both on pA.
PairCarts == 1 :> r1 @@ 2 :> r2
PairProducts == 1 :> pA @@ 2 :> pA
PairQty == 1 :> 1 @@ 2 :> 1

\* The first cart beside a second reservation of one of its products: one sweep
\* finds both.
SweepCarts == 1 :> r1 @@ 2 :> r1 @@ 3 :> r2
SweepProducts == 1 :> pA @@ 2 :> pB @@ 3 :> pA
SweepQty == 1 :> 1 @@ 2 :> 2 @@ 3 :> 1
SweepStock == pA :> 2 @@ pB :> 2
SweepRefs == 1 :> f1 @@ 2 :> f2 @@ 3 :> f3

SingleCart == 1 :> r1
SingleProduct == 1 :> pA
SingleQty == 1 :> 1
SingleStock == pA :> 1
SingleRef == 1 :> f1

Alike == Permutations(Requests)
=============================================================================
