SPECIFICATION FairSpec
CONSTANTS
  None = None
  r1 = r1
  r2 = r2
  Requests = {r1, r2}
  Adds = {}
  Stops = {}
  ServedTh = 2
  SnapshotModes = {TRUE}
  RPCMayFail = FALSE
  OrchMayFail = FALSE
PROPERTIES
  EveryCallReturns
CHECK_DEADLOCK FALSE
