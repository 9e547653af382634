----------------------------- MODULE OwnerMutex -----------------------------
(***************************************************************************)
(* What a lock of src/src/portal-memory-lock.mjs promises its users: one   *)
(* process at a time is inside, and it stays inside until it leaves or     *)
(* dies; nobody takes the lock from a live process, however long it works. *)
(***************************************************************************)
CONSTANTS Procs, None

VARIABLES holder,  \* the process inside, or None
          gone     \* the processes that died

vars == <<holder, gone>>

Init == holder = None /\ gone = {}

Acquire(p) == /\ holder = None /\ p \notin gone
              /\ holder' = p
              /\ UNCHANGED gone

Release(p) == /\ holder = p
              /\ holder' = None
              /\ UNCHANGED gone

Die(p) == /\ p \notin gone
          /\ gone' = gone \cup {p}
          /\ holder' = IF holder = p THEN None ELSE holder

Next == \E p \in Procs : Acquire(p) \/ Release(p) \/ Die(p)

Spec == Init /\ [][Next]_vars

\* What a step of an implementation may do.
MutexStep == [Next]_vars
=============================================================================
