------------------------------- MODULE AgeLock --------------------------------
(***************************************************************************)
(* The locks that are taken over by age: the Portal queue's (10 s, src/src/ *)
(* portal-client.mjs) and the provenance ledger's (60 s, src/src/          *)
(* provenance.mjs).  Whoever creates the file or directory holds the lock; *)
(* a waiter that finds it older than the limit removes it in a later step; *)
(* a release removes whatever is there.                                    *)
(***************************************************************************)
EXTENDS FiniteSets, Naturals

CONSTANTS Procs, None,
          Slow,       \* whether a live holder may outlast the age limit
          MaxDeaths   \* bound of the processes that die

AgeLockAssumption == None \notin Procs /\ Slow \in BOOLEAN /\ MaxDeaths \in Nat

VARIABLES lock,   \* the process that created it, or None
          old,    \* whether it is older than the limit
          at,     \* where each process is
          gone    \* processes that died
lockVars == <<lock, old, at, gone>>

Alive(p, where) == p \notin gone /\ at[p] = where
Move(p, to) == at' = [at EXCEPT ![p] = to]

Want(p) == Alive(p, "out") /\ Move(p, "want") /\ UNCHANGED <<lock, old, gone>>

Takes == lock = None
Take(p) ==
  /\ Alive(p, "want") /\ Takes
  /\ lock' = p /\ old' = FALSE /\ Move(p, "in")
  /\ UNCHANGED gone

\* The wait (3 s, 30 s) is shorter than the age limit.
GivesUp(p) ==
  /\ Alive(p, "want") /\ lock # None
  /\ Move(p, "out") /\ UNCHANGED <<lock, old, gone>>

Stale == lock # None /\ old
FindStale(p) ==
  /\ Alive(p, "want") /\ Stale
  /\ Move(p, "evict") /\ UNCHANGED <<lock, old, gone>>

RemovesOnly == lock' = None /\ UNCHANGED old  \* mutant: the age outlives the lock
Removes == lock' = None /\ old' = FALSE
Evict(p) == Alive(p, "evict") /\ Removes /\ Move(p, "want") /\ UNCHANGED gone
Leave(p) == Alive(p, "in") /\ Removes /\ Move(p, "out") /\ UNCHANGED gone

Ages ==
  /\ lock # None /\ ~old /\ (Slow \/ lock \in gone)
  /\ old' = TRUE /\ UNCHANGED <<lock, at, gone>>

Dies(p) ==
  /\ p \notin gone /\ at[p] # "out" /\ Cardinality(gone) < MaxDeaths
  /\ gone' = gone \cup {p} /\ UNCHANGED <<lock, old, at>>

LockInit == lock = None /\ old = FALSE /\ at = [p \in Procs |-> "out"] /\ gone = {}
Waits(p) == Take(p) \/ FindStale(p) \/ Evict(p)
LockNext == Ages \/ \E p \in Procs : Want(p) \/ GivesUp(p) \/ Waits(p) \/ Leave(p) \/ Dies(p)
LockSpec == LockInit /\ [][LockNext]_lockVars

\* Callers keep coming, a live process goes on, and time passes.
LockFairness == /\ WF_lockVars(Ages)
                /\ \A p \in Procs : WF_lockVars(Want(p) \/ Waits(p) \/ Leave(p)) /\ SF_lockVars(FindStale(p))

-----------------------------------------------------------------------------
\* The lock directory, its age and the processes that died.
LockTypeOK == /\ lock \in Procs \cup {None} /\ old \in BOOLEAN /\ gone \subseteq Procs
              /\ at \in [Procs -> {"out", "want", "evict", "in"}] /\ (lock = None => ~old)

\* At most one live process is inside, as long as no live holder is slow and no
\* two processes wait for a dead one.
Inside == {p \in Procs \ gone : at[p] = "in"}
Mutex == INSTANCE OwnerMutex WITH holder <- IF Inside = {} THEN None ELSE CHOOSE p \in Inside : TRUE

\* The lock of a dead process does not stop the others for ever, although each
\* of them gives up before the age limit.
DeadLockRemoved == \A p \in Procs : lock = p /\ p \in gone ~> lock # p
=============================================================================
