SPECIFICATION Spec
CONSTANTS
  Agent = {a1}
  Assist = {a1}
  Tool = {shell}
  Dangerous = {shell}
  External = {}
  MaxSteps = 2
  Openings = {3}
  MaxCalls = 1
  KeepRecent = 2
  LogCap = 2
PROPERTIES
  ApprovedToolRuns
CHECK_DEADLOCK FALSE
