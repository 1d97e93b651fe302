SPECIFICATION FairSpec
CONSTANTS
  Mission = {m1}
  Provider = {p1, p2, p3}
  Output = {o1}
  NoOutput = NoOutput
  Request <- EveryRequest
  Charge = {0, 2}
  DefaultMode = "assist"
  MaxCost = 1
  MaxSteps = 1
  MaxCancels = 1
INVARIANTS
  TypeOK
  StateAnnounced
  FailoverInOrder
  RecordMatchesRun
PROPERTIES
  OnlyCancelAfterConclusion
  RunConcludes
  CancelAnnounced
  ImplementsLifecycle
CHECK_DEADLOCK FALSE
