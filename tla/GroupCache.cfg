SPECIFICATION Spec
CONSTANTS
  None = None
  a = a
  b = b
  p = p
  q = q
  w1 = w1
  w2 = w2
  Workers = {w1, w2}
  Groups = {a, b}
  Named = {a}
  People = {p, q}
  Roster <- MCRoster
  Attempts = 2
  MaxChanges <- MCMaxChanges
INVARIANT VersionTruth
INVARIANT CacheInSync
INVARIANT LockIsHeld
SYMMETRY Symmetry
PROPERTY VersionsOnlyGrow
PROPERTY UpsertFirst
