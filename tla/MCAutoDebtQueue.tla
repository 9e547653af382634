-------------------------- MODULE MCAutoDebtQueue --------------------------
(* Model values and symmetry for the runs of AutoDebtQueue. *)
EXTENDS AutoDebtQueue, TLC

CONSTANTS c1, c2, w1, w2, h1, h2

TwoChanges == {c1, c2}
OneWorker == {w1}
TwoWorkers == {w1, w2}
OneHook == {h1}
TwoHooks == {h1, h2}

\* The actors and the changes are interchangeable; no liveness is checked here.
Symmetry == Permutations(TwoChanges) \cup Permutations(TwoWorkers)
              \cup Permutations(TwoHooks)
=============================================================================
