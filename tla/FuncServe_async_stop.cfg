SPECIFICATION Spec
CONSTANTS
  None = None
  r1 = r1
  r2 = r2
  Requests = {r1, r2}
  Adds = {}
  Stops = {}
  ServedTh = 1
  SnapshotModes = {FALSE}
  RPCMayFail = FALSE
  OrchMayFail = FALSE
SYMMETRY Symmetry
INVARIANTS
  AsyncStopHitsRetired
CHECK_DEADLOCK FALSE
