---------------------------- MODULE MCOwnedLock ----------------------------
(* Model values for the run of OwnedLock. *)
EXTENDS OwnedLock

CONSTANTS p1, p2, p3

ThreeProcs == {p1, p2, p3}
=============================================================================
