SPECIFICATION FairSpec
CONSTANTS
  v1 = v1
  v2 = v2
  VMs = {v1, v2}
  Broken <- MCBroken
  ImageOf <- MCImageOf
  HostFaults <- MCHostFaults
  Strays = {v1}
INVARIANTS
  RollbackReleases
  StopReleases
  LoadedAndServed
  CrashesExplained
PROPERTIES
  CallsReturn
CHECK_DEADLOCK FALSE
