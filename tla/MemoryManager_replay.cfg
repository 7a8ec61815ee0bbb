SPECIFICATION FairSpec
CONSTANTS
  v1 = v1
  VMs = {v1}
  NumPages <- MCNumPages
  Bases = {0, 8}
  Threads = 2
  MaxReplays = 1
  Faults = {"fetch", "map", "uffd", "munmap"}
  Absent = Absent
INVARIANTS
  TypeOK
  GuestMemoryFaithful
  RegionsAreRuns
  StatsExact
  PollerMatchesActive
  FatalOnlyOnOverlap
PROPERTIES
  CallsReturn
CHECK_DEADLOCK FALSE
