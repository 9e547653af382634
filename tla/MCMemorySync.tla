---------------------------- MODULE MCMemorySync -----------------------------
(* Model values, symmetry and the bound on the network for the run of       *)
(* MemorySync.                                                              *)
EXTENDS MemorySync, FiniteSets, TLC

CONSTANTS p1, p2, e1, a, b

TwoProcs == {p1, p2}
OneEnrollment == {e1}
TwoEvents == {<<a, b>>}
Failures == {"stop", "lose", "refuse", "resync"}

ASSUME SyncAssumption

Symmetry == Permutations(TwoProcs)
\* Requests that still may reach the Portal at once: two until the enrollment or the
\* journal has changed once, one after that.
FewRequests == Cardinality(net) <= IF changes = 0 THEN 2 ELSE 1
=============================================================================
