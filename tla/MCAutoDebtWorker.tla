-------------------------- MODULE MCAutoDebtWorker --------------------------
(* Model values for the runs of AutoDebtWorker. *)
EXTENDS AutoDebtWorker, TLC

CONSTANTS c1, c2, w1, w2

OneChange == {c1}
TwoChanges == {c1, c2}
TwoWorkers == {w1, w2}

\* For the safety run only: liveness is checked without symmetry.
Symmetry == Permutations(TwoChanges) \cup Permutations(TwoWorkers)
=============================================================================
