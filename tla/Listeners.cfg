SPECIFICATION FairSpec
CONSTANTS
  None = None
  s1 = s1
  Senders = {s1}
  l1 = l1
  Streams = {l1}
  k1 = k1
  k2 = k2
  Kinds = {k1, k2}
  BufCap = 2
  MaxDrops = 2
  MaxEvents = 7
CHECK_DEADLOCK FALSE
INVARIANTS NoSendOnClosedChannel EveryEventAccounted
PROPERTIES PoisonsWhenStuck SendersNeverBlock StreamsEnd
