SPECIFICATION Spec
CONSTANTS
  Mission = {m1, m2}
  Provider = {p1}
  Output = {o1}
  NoOutput = NoOutput
  Request <- FullRequest
  Charge = {1, 2}
  DefaultMode = "full"
  MaxCost = 1
  MaxSteps = 1
  MaxCancels = 1
SYMMETRY MissionSymmetry
INVARIANTS
  EffectsNeedSuccess
CHECK_DEADLOCK FALSE
