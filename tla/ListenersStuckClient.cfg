SPECIFICATION FairSpec
CONSTANTS
  None = None
  s1 = s1
  Senders = {s1}
  l1 = l1
  Streams = {l1}
  k1 = k1
  Kinds = {k1}
  BufCap = 1
  MaxDrops = 2
  MaxEvents = 6
CHECK_DEADLOCK FALSE
PROPERTY PoisonKillsStream
