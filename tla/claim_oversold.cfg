CONSTANTS
  r1 = r1
  r2 = r2
  r3 = r3
  pA = pA
  pB = pB
  f1 = f1
  f2 = f2
  f3 = f3
  f4 = f4
  q1 = q1
  q2 = q2
  q3 = q3
  w1 = w1
  None = None
  Products = {pA}
  Reservations = {r1, r2}
  Items = {1, 2}
  CartOf <- PairCarts
  ProductOf <- PairProducts
  Qty <- PairQty
  Stock0 <- SingleStock
  Reservable = {pA}
  Refs = {f1, f2}
  RefOf <- TwoRefs
  Requests = {q1, q2, q3}
  Workers = {}
  MaxFaults = 0
SPECIFICATION Spec
SYMMETRY Alike
INVARIANT NeverOversold
