CONSTANTS
  w1 = w1
  c1 = c1
  c2 = c2
  c3 = c3
  t1 = t1
  t2 = t2
  t3 = t3
  t4 = t4
  NoTask = NoTask
  Workers <- OneWorker
  Callers <- TwoCallers
  Tasks <- ThreeTasks
SPECIFICATION Spec
SYMMETRY Symmetry
INVARIANTS
  SubmitNeverPanics
CHECK_DEADLOCK FALSE
