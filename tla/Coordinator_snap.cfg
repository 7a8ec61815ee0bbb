SPECIFICATION Spec
CONSTANTS
  Creates <- MCCreates
  q1 = q1
  Proxies = {q1}
  r1 = r1
  r2 = r2
  Removes = {r1, r2}
  Images <- MCImages
  NoImage = NoImage
  NoContainer = NoContainer
  PodOf <- MCPodOf
  ImageOf <- MCImageOf
  SnapshotsEnabled = TRUE
  EarlyRemove = TRUE
  Faults = {"start", "load", "snapshot", "offload", "stock", "proxy"}
SYMMETRY Symmetry
INVARIANTS
  ExclusiveOwner
  ActiveRuns
  IdleLoadable
  NoLostVM
  ProxyAddressMoves
CHECK_DEADLOCK FALSE
