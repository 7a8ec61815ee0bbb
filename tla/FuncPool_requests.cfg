SPECIFICATION FairSpec
CONSTANTS
  f1 = f1
  f2 = f2
  r1 = r1
  r2 = r2
  i1 = i1
  Functions = {f1, f2}
  IntOf <- MCIntOf
  Images = {i1}
  Requests = {r1, r2}
  Nobody = Nobody
  NotANumber = NotANumber
  Absent = Absent
  ServedThs = {0, 2}
  PinnedFuncNums = {1}
  Draws <- MCDraws
  MaxDials = 2
  Prompt = {f1}
INVARIANTS
  TypeOK
  CrashesExplained
PROPERTIES
  FunctionsNeverChange
  RequestsProceed
  DialersSettle
CHECK_DEADLOCK FALSE
