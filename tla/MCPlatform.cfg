SPECIFICATION Spec
CONSTANTS
  Collection <- MCCollection
  MaxWrites = 3
  Provider = {p1, p2}
  Attempt = {a1, a2}
  MaxKeys = 4
  Key = {k1}
  PerMin = 2
  Minute = 3
  MaxTime = 6
  MaxAsked = 7
  Rollout = {1, 2}
  MaxRuns = 2
  Disk <- MCDisk
  Builtin <- MCBuiltin
INVARIANTS
  IssuedRecordsStay
  BackupHoldsWhatStayed
  OperatorKeyUsed
  WindowExact
  GateHonoured
  BootComplete
CHECK_DEADLOCK FALSE
