----------------------------- MODULE WorkerPoolMC -----------------------------
(* Small instances of WorkerPool. *)
EXTENDS WorkerPool, TLC

CONSTANTS w1, c1, c2, c3, t1, t2, t3, t4

OneWorker == {w1}
TwoCallers == {c1, c2}
ThreeCallers == {c1, c2, c3}
ThreeTasks == {t1, t2, t3}
FourTasks == {t1, t2, t3, t4}

Symmetry ==
  Permutations(Workers) \cup Permutations(Callers) \cup Permutations(Tasks)
=============================================================================
