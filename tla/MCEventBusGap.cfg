SPECIFICATION Spec
CONSTANTS
  NoMission = NoMission
  Mission = {m1}
  Client = {c1}
  BufCap = 2
  MaxEvents = 3
INVARIANTS
  CatchUpThenLiveIsGapFree
CHECK_DEADLOCK FALSE
