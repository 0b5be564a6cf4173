CONSTANTS
  r1 = r1
  r2 = r2
  r3 = r3
  pA = pA
  pB = pB
  f1 = f1
  f2 = f2
  f3 = f3
  f4 = f4
  q1 = q1
  q2 = q2
  q3 = q3
  w1 = w1
  None = None
  Products = {pA, pB}
  Reservations = {r1, r2}
  Items = {1, 2, 3}
  CartOf <- SweepCarts
  ProductOf <- SweepProducts
  Qty <- SweepQty
  Stock0 <- SweepStock
  Reservable = {pA}
  Refs = {f1, f2, f3}
  RefOf <- SweepRefs
  Requests = {q1, q2, q3}
  Workers = {w1}
  MaxFaults = 1
SPECIFICATION Spec
SYMMETRY Alike
INVARIANT TypeOK
INVARIANT NoLostUpdate
INVARIANT ItemRowsUncontended
INVARIANT ConfirmedUpstream
