----------------------------- MODULE AtLeastOnce -----------------------------
(***************************************************************************)
(* What the Portal delivery queue promises: a snapshot that was accepted   *)
(* waits until the Portal has received it, and only then may it be         *)
(* dropped.  It may be received several times, and accepted again later.   *)
(***************************************************************************)
CONSTANT Snaps
VARIABLES waiting, received

AcceptOne(s) == /\ waiting' = waiting \cup {s}
                /\ UNCHANGED received

ReceiveOne(s) == /\ s \in waiting
                 /\ received' = received \cup {s}
                 /\ UNCHANGED waiting

DropOne(s) == /\ s \in waiting \cap received
              /\ waiting' = waiting \ {s}
              /\ UNCHANGED received

ALOInit == waiting = {} /\ received \subseteq Snaps
ALONext == \E s \in Snaps : AcceptOne(s) \/ ReceiveOne(s) \/ DropOne(s)
ALOStep == [ALONext]_<<waiting, received>>
ALOSpec == ALOInit /\ [][ALONext]_<<waiting, received>>
=============================================================================
