SPECIFICATION FairSpec
CONSTANTS
  Creates <- MCCreates
  q1 = q1
  q2 = q2
  Proxies = {q1, q2}
  r1 = r1
  r2 = r2
  Removes = {r1, r2}
  Images <- MCImages
  NoImage = NoImage
  NoContainer = NoContainer
  PodOf <- MCPodOf
  ImageOf <- MCImageOfNone
  SnapshotsEnabled = FALSE
  EarlyRemove = FALSE
  Faults = {"start", "stop", "stock", "proxy"}
INVARIANTS
  NoLostVM
PROPERTIES
  CallsEnd
CHECK_DEADLOCK FALSE
