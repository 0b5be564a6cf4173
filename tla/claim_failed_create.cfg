CONSTANTS
  r1 = r1
  r2 = r2
  r3 = r3
  pA = pA
  pB = pB
  f1 = f1
  f2 = f2
  f3 = f3
  f4 = f4
  q1 = q1
  q2 = q2
  q3 = q3
  w1 = w1
  None = None
  Products = {pA, pB}
  Reservations = {r1}
  Items = {1, 2}
  CartOf <- OneCart
  ProductOf <- TwoProducts
  Qty <- TwoQty
  Stock0 <- TwoStock
  Reservable = {pA}
  Refs = {f1, f2}
  RefOf <- TwoRefs
  Requests = {q1}
  Workers = {}
  MaxFaults = 1
SPECIFICATION SerialSpec
SYMMETRY Alike
INVARIANT FailedCreateLetsGo
