SPECIFICATION Spec
CONSTANTS
  Mission = {m1}
  Provider = {p1, p2}
  Output = {o1}
  NoOutput = NoOutput
  Request <- FullRequest
  Charge = {0, 2}
  DefaultMode = "full"
  MaxCost = 1
  MaxSteps = 1
  MaxCancels = 1
PROPERTIES
  CancelledStaysCancelled
CHECK_DEADLOCK FALSE
