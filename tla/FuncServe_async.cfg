SPECIFICATION Spec
CONSTANTS
  None = None
  r1 = r1
  r2 = r2
  r3 = r3
  s1 = s1
  s2 = s2
  Requests = {r1, r2, r3}
  Adds = {}
  Stops = {s1, s2}
  ServedTh = 2
  SnapshotModes = {FALSE, TRUE}
  RPCMayFail = TRUE
  OrchMayFail = TRUE
SYMMETRY Symmetry
INVARIANTS
  SnapshotOfCurrentVM
CHECK_DEADLOCK FALSE
