CONSTANTS
  r1 = r1
  pA = pA
  pB = pB
  f1 = f1
  f2 = f2
  q1 = q1
  q2 = q2
  q3 = q3
  o1 = o1
  o2 = o2
  w1 = w1
  None = None
  Products = {pA, pB}
  Reservations = {r1}
  Items = {1, 2}
  CartOf <- OneCart
  ProductOf <- TwoProducts
  Qty <- TwoQty
  Stock0 <- TwoStock
  Reservable = {pA}
  Refs = {f1, f2}
  RefOf <- TwoRefs
  Requests = {q1, q2, q3}
  Workers = {w1}
  MaxFaults = 1
  OrderRequests = {o1, o2}
SPECIFICATION OrderSpec
INVARIANT OrderTypeOK
INVARIANT OrderedIsSold
INVARIANT OrderIsWholeCart
PROPERTY OrderRequestsEnd
