CONSTANTS
  r1 = r1
  r2 = r2
  r3 = r3
  pA = pA
  pB = pB
  f1 = f1
  f2 = f2
  f3 = f3
  f4 = f4
  q1 = q1
  q2 = q2
  q3 = q3
  w1 = w1
  None = None
  Products = {pA, pB}
  Reservations = {r1, r2}
  Items = {1, 2, 3, 4}
  CartOf <- CrossCarts
  ProductOf <- CrossProducts
  Qty <- CrossQty
  Stock0 <- CrossStock
  Reservable = {pA}
  Refs = {f1, f2, f3, f4}
  RefOf <- CrossRefs
  Requests = {q1, q2}
  Workers = {w1}
  MaxFaults = 1
SPECIFICATION FairSpec
PROPERTY EveryRequestEnds
PROPERTY DueReservationsClose
