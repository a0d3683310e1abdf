SPECIFICATION FairSpec
CONSTANTS
  None = None
  c1 = c1
  Callers = {c1}
  g1 = g1
  g2 = g2
  Instances = {g1, g2}
  p1 = p1
  p2 = p2
  Pumps = {p1, p2}
  ChanCap = 1
  MaxEmitters = 2
INVARIANT LiveSessionHasPump
INVARIANT NoZombie
PROPERTY FullChannelDrains
PROPERTY NothingLeftBehind
