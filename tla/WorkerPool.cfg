CONSTANTS
  w1 = w1
  c1 = c1
  c2 = c2
  c3 = c3
  t1 = t1
  t2 = t2
  t3 = t3
  t4 = t4
  NoTask = NoTask
  Workers <- OneWorker
  Callers <- ThreeCallers
  Tasks <- FourTasks
SPECIFICATION FairSpec
INVARIANTS
  EachTaskOnce
  ShutdownDrains
  CancelIsLast
PROPERTIES
  KeepsContract
  AcceptedFinish
  CallsReturn
CHECK_DEADLOCK FALSE
