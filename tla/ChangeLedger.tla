---------------------------- MODULE ChangeLedger ----------------------------
(***************************************************************************)
(* What automatic debt promises about each completed change, whatever the  *)
(* order in which hooks, workers and commands run: one standing per        *)
(* change, which only moves forward.  A change that was admitted is never  *)
(* forgotten, a change recorded as measured stays measured, and only a     *)
(* reset by the user starts again.  AutoDebtQueue implements it.           *)
(***************************************************************************)
CONSTANT Changes

VARIABLE status

Status == {"unseen",     \* never presented to the queue
           "queued",     \* its job is listed
           "unlisted",   \* its job failed and left the list, still counted
           "skipped",    \* recorded as not measured: the queue was full
           "measured"}   \* never measured automatically again

Successors ==
  [unseen   |-> {"unseen", "queued", "skipped", "measured"},
   queued   |-> {"queued", "unlisted", "measured"},
   unlisted |-> {"unlisted", "queued", "skipped", "measured"},
   skipped  |-> {"skipped", "queued", "measured"},
   measured |-> {"measured"}]

Fresh == [c \in Changes |-> "unseen"]

Init == status = Fresh

Advance ==
  /\ status' \in [Changes -> Status]
  /\ \A c \in Changes : status'[c] \in Successors[status[c]]

Forget == status' = Fresh

Spec == Init /\ [][Advance \/ Forget]_status
=============================================================================
