SPECIFICATION FairSpec
CONSTANTS
  None = None
  m = m
  x = x
  w1 = w1
  w2 = w2
  Workers = {w1, w2}
  Ids = {m, x}
  Mine = {m, x}
  Target <- MCTarget
  TimeOf <- MCTimeOf
  Times = {2}
  Batches <- MCBatches
  HistoryStatuses = {0, 4}
  Attempts = 2
INVARIANTS RealContentStays
PROPERTIES CurrentWriteBackKeeps HandlersEnd
