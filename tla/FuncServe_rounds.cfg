SPECIFICATION Spec
CONSTANTS
  None = None
  r1 = r1
  r2 = r2
  r3 = r3
  r4 = r4
  a1 = a1
  Requests = {r1, r2, r3, r4}
  Adds = {a1}
  Stops = {}
  ServedTh = 2
  SnapshotModes = {TRUE}
  RPCMayFail = TRUE
  OrchMayFail = FALSE
SYMMETRY Symmetry
INVARIANTS
  OneRetirer
  ReleaseExact
  OneVMForever
  NoDoubleStart
PROPERTIES
  GateSpec
CHECK_DEADLOCK FALSE
