SPECIFICATION FairSpec
CONSTANTS
  Mission = {1, 2, 3}
  Job = {j1, j2}
  Caller = {c1}
  NoJob = NoJob
  JobMission = {1, 2}
  Session = {s1}
  Chat = {t1}
  Message = {q1, q2}
  Routine = {r1}
  Firing = {f1, f2, f3}
  MaxHistory = 2
  NoOne = NoOne
  Plan = {p1}
  StepList <- StepLists
  Call = {w1, w2}
  NoPlan = NoPlan
  Peer = {pb, px}
  SeededPeer = {pb}
  Offer = {o1, o2}
INVARIANTS
  AnsweredInTurn
  SessionSettles
  DependenciesFirst
  
  TasksTellTrue
PROPERTIES
  OncePerInterval
  DueJobRuns
  RunPlanReturns
CHECK_DEADLOCK FALSE
