CONSTANTS
  f1 = f1
  f2 = f2
  q1 = q1
  q2 = q2
  q3 = q3
  p1 = p1
  p2 = p2
  None = None
  Ambiguous = Ambiguous
  Phones = {f1}
  Requests = {q1, q2, q3}
  Processes = {p1}
  Homes <- One
  Known <- NewPhone
  MaxFaults = 1
SPECIFICATION FairSpec
CHECK_DEADLOCK FALSE
PROPERTY RequestsEndWithoutRedis
