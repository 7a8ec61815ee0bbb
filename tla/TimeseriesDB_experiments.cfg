SPECIFICATION Spec
CONSTANTS
  Handlers = {h1, h2}
  Invocations = {"i1", "i2"}
  Attributes = {"a", "b"}
  Definitions <- MCDefinitions
  Events <- MCEvents
  MaxDeliveries <- MCMaxDeliveries
  GiveUps = {1}
INVARIANTS
  TypeOK
  CrashesExplained
  
  CompletedJustified
  ReportedFinal
SYMMETRY HandlerSymmetry
\* Experiments and deliveries are bounded, and a dead server stays dead.
CHECK_DEADLOCK FALSE
