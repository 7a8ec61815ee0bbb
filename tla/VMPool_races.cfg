SPECIFICATION Spec
CONSTANTS
  NoSlot = NoSlot
  NoVM = NoVM
  c1 = c1
  c2 = c2
  c3 = c3
  c4 = c4
  c5 = c5
  v1 = v1
  v2 = v2
  v3 = v3
  Calls = {c1, c2, c3, c4, c5}
  VMs = {v1, v2, v3}
  NumBridges = 2
  TapsPerBridge = 1
  NetMayFail = TRUE
  Guarded = {v1, v2}
SYMMETRY Symmetry
INVARIANTS
  UniqueAddresses
  NoSpaceOnlyWhenFull
  InterfaceStable
CHECK_DEADLOCK FALSE
