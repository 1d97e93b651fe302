SPECIFICATION FairSpec
CONSTANTS
  Agent = {a1, a2}
  Assist = {a1}
  Tool = {shell, mcp}
  Dangerous = {shell}
  External = {mcp}
  MaxSteps = 2
  Openings = {3}
  MaxCalls = 1
  KeepRecent = 2
  LogCap = 2
INVARIANTS
  DangerNeedsRequest
  LastStepWhole
  InvocationsAccounted
PROPERTIES
  LoopReturns
CHECK_DEADLOCK FALSE
