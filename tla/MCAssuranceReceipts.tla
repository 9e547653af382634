------------------------ MODULE MCAssuranceReceipts -------------------------
(* Model values and symmetry for the run of AssuranceReceipts. *)
EXTENDS AssuranceReceipts, TLC

CONSTANTS p1, p2, m1, m2, r1, r2

TwoProcs == {p1, p2}
TwoMeasurements == {m1, m2}
TwoDests == {r1, r2}

ASSUME AssuranceAssumption

Symmetry == Permutations(TwoProcs)
=============================================================================
