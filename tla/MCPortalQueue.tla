--------------------------- MODULE MCPortalQueue ----------------------------
(* Model values and symmetry for the run of PortalQueue. *)
EXTENDS PortalQueue, TLC

CONSTANTS p1, p2, s1, s2, d1

TwoProcs == {p1, p2}
TwoSnaps == {s1, s2}
OneDest == {d1}
OlderSnap == {s1}

ASSUME QueueAssumption

\* A subsequence by positions is the one SelectSeq gives.
ASSUME \A n \in 0..4 : \A s \in [1..n -> {1, 2, 3}], S \in SUBSET {1, 2, 3} :
         Sub(s, {i \in DOMAIN s : s[i] \in S}) = SelectSeq(s, LAMBDA x : x \in S)

Symmetry == Permutations(TwoProcs)
=============================================================================
