SPECIFICATION FairSpec
CONSTANTS
  None = None
  r1 = r1
  r2 = r2
  r3 = r3
  Requests = {r1, r2, r3}
  a1 = a1
  a2 = a2
  Adds = {a1, a2}
  Stops = {}
  ServedTh = 1
  SnapshotModes = {TRUE}
  RPCMayFail = TRUE
  OrchMayFail = FALSE
INVARIANTS
  ForwardedToLive
PROPERTIES
  EveryCallReturns
CHECK_DEADLOCK FALSE
