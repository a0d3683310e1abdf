SPECIFICATION FairSpec
CONSTANTS
  None = None
  Nothing = Nothing
  c = c
  u1 = u1
  u2 = u2
  u3 = u3
  h = h
  s = s
  Calls = {c}
  NackedCalls = {c}
  SessionSources = {s}
  Requests <- MCRequests
  Stored <- MCStored
  Users = {u1, u2, u3}
  HiddenUsers = {h}
  Audience <- MCAudience
  BatchSize = 2
  MaxRetries = 1
INVARIANTS ContextIsRequested DeliveryAccounted
PROPERTIES KeepsPromise NackIsLearnt
