SPECIFICATION FairSpec
CONSTANTS
  None = None
  v1 = v1
  own = own
  d1 = d1
  dOwn = dOwn
  dBad = dBad
  q1 = q1
  q2 = q2
  Producers = {q1, q2}
  Pairs = {v1}
  OwnPairs = {}
  DevicePairs = {}
  PersonOf <- NoDevices
  QueueCap = 1
  FlushSize = 2
INVARIANT StoppedIsCommitted
PROPERTY WritesWhileOpen
PROPERTY NobodyWaits
PROPERTY QueueIsWritten
