SPECIFICATION Spec
CONSTANTS
  None = None
  v1 = v1
  own = own
  d1 = d1
  dOwn = dOwn
  dBad = dBad
  q1 = q1
  Producers = {q1}
  Pairs = {v1, own}
  OwnPairs = {own}
  DevicePairs = {d1, dOwn, dBad}
  PersonOf <- MCPersonOf
  QueueCap = 1
  FlushSize = 1
INVARIANT TypeOK
INVARIANT NothingVanishes
INVARIANT SelfViewsStayDeleted
PROPERTY ImplementsCounter
