CONSTANTS
  t1 = t1
  t2 = t2
  None = None
  Threads = {t1, t2}
  Threshold = 2
  MaxRetries = 2
SPECIFICATION FairSpec
INVARIANT CallsTypeOK
INVARIANT BreakerCoherent
PROPERTY OneBreakerInTheEnd
PROPERTY BreakerRecovers
