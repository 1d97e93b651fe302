SPECIFICATION FairSpec
CONSTANTS
  NoMission = NoMission
  Mission = {m1, m2}
  Client = {c1}
  BufCap = 1
  MaxEvents = 4
INVARIANTS
  NoSendOnClosed
  MissionStreamInOrder
  LiveStreamComplete
PROPERTIES
  BufferedReachesClient
CHECK_DEADLOCK FALSE
