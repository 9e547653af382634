----------------------------- MODULE LocalState ------------------------------
(***************************************************************************)
(* The project's local state, src/src/state.mjs and src/src/recovery.mjs:  *)
(* hooks load, change and save .idleproof/state.json under a directory     *)
(* lock that is taken over when it is older than 30 s and released without *)
(* a look at its owner.  A save copies the previous file to the backup,    *)
(* then replaces the state; a load falls back on the backup; `idleproof    *)
(* repair` restores the backup and takes no lock.  An event stands for     *)
(* what one hook adds to the state.                                        *)
(***************************************************************************)
EXTENDS Naturals, FiniteSets

CONSTANTS Procs, Events, None,
          Slow,         \* whether a live holder may outlast the age limit
          MaxDeaths, MaxDamage,  \* bounds of deaths and of damaged files
          Repair        \* "never", "alone": with no hook at work, "any": at any time

StateAssumption == /\ None \notin Procs \cup Events /\ Slow \in BOOLEAN
                   /\ MaxDeaths \in Nat /\ MaxDamage \in Nat /\ Repair \in {"never", "alone", "any"}

VARIABLES lock,     \* the process whose directory it is, or None
          old,      \* whether the lock is past the age limit
          primary, backup, proc, gone,
          done,     \* history: events whose mutateState returned
          damage    \* history: files damaged
files == <<primary, backup>>
vars == <<lock, old, files, proc, gone, done, damage>>

File == [is : {"ok", "absent", "corrupt", "newer"}, has : SUBSET Events]
Absent == [is |-> "absent", has |-> {}]
Idle == [pc |-> "idle", ev |-> None, state |-> {}]
At(p, pc) == p \notin gone /\ proc[p].pc = pc
Goto(p, pc) == proc' = [proc EXCEPT ![p].pc = pc]
NoRepair == Repair = "alone" => \A q \in Procs : ~At(q, "planned") /\ ~At(q, "restoring")
Ends(p) == proc' = [proc EXCEPT ![p] = Idle]

-----------------------------------------------------------------------------
(* The lock                                                                *)

Want(p, e) ==
  /\ At(p, "idle") /\ \A q \in Procs \ gone : proc[q].ev # e
  /\ NoRepair
  /\ proc' = [proc EXCEPT ![p] = [Idle EXCEPT !.pc = "want", !.ev = e]]
  /\ UNCHANGED <<lock, old, files, gone, done, damage>>

Free == lock = None
Acquire(p) ==
  /\ At(p, "want") /\ Free
  /\ lock' = p /\ old' = FALSE /\ Goto(p, "load")
  /\ UNCHANGED <<files, gone, done, damage>>

\* After 15 s the hook gives up and its event is reported as not recorded.
GivesUp(p) ==
  /\ At(p, "want") /\ ~Free
  /\ Ends(p)
  /\ UNCHANGED <<lock, old, files, gone, done, damage>>

Release(p) == lock' = None /\ old' = FALSE

StaleNever(p) == FALSE  \* mutant: a lock is never taken over
Stale(p) == lock # None /\ old
\* The age is read in one step, the lock removed in a later one: by then it may
\* be the new lock of another process.
FindStale(p) ==
  /\ At(p, "want") /\ Stale(p)
  /\ Goto(p, "evict")
  /\ UNCHANGED <<lock, old, files, gone, done, damage>>

Evict(p) ==
  /\ At(p, "evict")
  /\ Release(p) /\ Goto(p, "want")
  /\ UNCHANGED <<files, gone, done, damage>>

Ages ==
  /\ lock # None /\ ~old /\ (Slow \/ lock \in gone)
  /\ old' = TRUE
  /\ UNCHANGED <<lock, files, proc, gone, done, damage>>

-----------------------------------------------------------------------------
(* One mutateState                                                         *)

\* loadPersistedState: what the two files give, or an error.
Unreadable == \/ primary.is = "newer"
              \/ primary.is = "corrupt" /\ backup.is # "ok"
              \/ primary.is = "absent" /\ backup.is \notin {"ok", "absent"}
Loaded == IF primary.is = "ok" THEN primary.has ELSE backup.has

Load(p) ==
  /\ At(p, "load") /\ ~Unreadable
  /\ proc' = [proc EXCEPT ![p] = [@ EXCEPT !.pc = "keep", !.state = Loaded \cup {proc[p].ev}]]
  /\ UNCHANGED <<lock, old, files, gone, done, damage>>

LoadFails(p) ==
  /\ At(p, "load") /\ Unreadable
  /\ Ends(p) /\ Release(p)
  /\ UNCHANGED <<files, gone, done, damage>>

\* The file is read again: a damaged one never replaces the backup, a newer one
\* stops the save.
BackupOnce == IF primary.is = "ok" /\ backup.is = "absent" THEN primary ELSE backup  \* mutant: kept once
BackupKept == IF primary.is = "ok" THEN primary ELSE backup
KeepBackup(p) ==
  /\ At(p, "keep")
  /\ IF primary.is = "newer" THEN Ends(p) /\ Release(p) /\ UNCHANGED backup
     ELSE backup' = BackupKept /\ Goto(p, "save") /\ UNCHANGED <<lock, old>>
  /\ UNCHANGED <<primary, gone, done, damage>>

Save(p) ==
  /\ At(p, "save")
  /\ primary' = [is |-> "ok", has |-> proc[p].state]
  /\ Goto(p, "release")
  /\ UNCHANGED <<lock, old, backup, gone, done, damage>>

Return(p) ==
  /\ At(p, "release")
  /\ done' = done \cup {proc[p].ev} /\ Release(p) /\ Ends(p)
  /\ UNCHANGED <<files, gone, damage>>

Dies(p) ==
  /\ Cardinality(gone) < MaxDeaths /\ ~At(p, "idle") /\ p \notin gone
  /\ gone' = gone \cup {p}
  /\ UNCHANGED <<lock, old, files, proc, done, damage>>

-----------------------------------------------------------------------------
(* Repair, and what happens to the files                                   *)

Restorable == primary.is \in {"corrupt", "absent"} /\ backup.is = "ok"
\* inspectRecovery: a state that reads, or that is newer, is left alone.
Plan(p) ==
  /\ At(p, "idle") /\ Repair # "never" /\ Restorable
  /\ Repair = "alone" => \A q \in Procs \ gone : At(q, "idle")
  /\ Goto(p, "planned")
  /\ UNCHANGED <<lock, old, files, gone, done, damage>>

\* The backup is read again; the state file is archived as it is.
Recheck(p) ==
  /\ At(p, "planned")
  /\ IF backup.is = "ok" THEN proc' = [proc EXCEPT ![p] = [@ EXCEPT !.pc = "restoring", !.state = backup.has]]
     ELSE Ends(p)
  /\ UNCHANGED <<lock, old, files, gone, done, damage>>

Restore(p) ==
  /\ At(p, "restoring")
  /\ primary' = [is |-> "ok", has |-> proc[p].state] /\ Ends(p)
  /\ UNCHANGED <<lock, old, backup, gone, done, damage>>

\* A file is damaged or removed on disk, or a newer runtime writes the state.
Damaged ==
  /\ damage < MaxDamage /\ damage' = damage + 1
  /\ \/ \E is \in {"corrupt", "absent"} : primary' = [is |-> is, has |-> {}] /\ UNCHANGED backup
     \/ backup' = [is |-> "corrupt", has |-> {}] /\ UNCHANGED primary
     \/ Free /\ NoRepair /\ ~Unreadable /\ primary' = [is |-> "newer", has |-> Loaded] /\ UNCHANGED backup
  /\ UNCHANGED <<lock, old, proc, gone, done>>

Init == /\ lock = None /\ old = FALSE /\ primary = Absent /\ backup = Absent
        /\ proc = [p \in Procs |-> Idle] /\ gone = {} /\ done = {} /\ damage = 0

Step(p) == \/ Acquire(p) \/ FindStale(p) \/ Evict(p) \/ Load(p) \/ LoadFails(p) \/ KeepBackup(p)
           \/ Save(p) \/ Return(p) \/ Recheck(p) \/ Restore(p)
Next == \/ \E p \in Procs : \/ \E e \in Events : Want(p, e)
                            \/ Step(p) \/ GivesUp(p) \/ Dies(p) \/ Plan(p)
        \/ Ages \/ Damaged
Spec == Init /\ [][Next]_vars

\* Hooks keep coming, a process that lives goes on, and time passes.
Fairness == /\ WF_vars(Ages)
            /\ \A p \in Procs : WF_vars(Step(p)) /\ SF_vars(FindStale(p)) /\ WF_vars(\E e \in Events : Want(p, e))

-----------------------------------------------------------------------------
\* The state lock, the state file with its backup, and every process have their types.
TypeOK == /\ lock \in Procs \cup {None} /\ old \in BOOLEAN /\ (lock = None => ~old)
          /\ primary \in File /\ backup \in File /\ gone \subseteq Procs /\ done \subseteq Events
          /\ proc \in [Procs -> [pc : {"idle", "want", "evict", "load", "keep", "save", "release",
                                       "planned", "restoring"},
                                 ev : Events \cup {None}, state : SUBSET Events]]

Readable == IF Unreadable THEN {} ELSE Loaded

\* No step of a hook or of a repair loses what the files still hold, whatever
\* step a process died at: hooks overwrite neither each other nor the backup.
NothingOverwritten ==
  damage' = damage => Readable \subseteq Readable'

\* Each damaged file costs at most the last recorded event: the backup is never
\* more than one save behind.
DamageCostsOne == Unreadable \/ Cardinality(done \ Loaded) <= damage

\* A state written by a newer version is never replaced by this one.
NeverDowngraded ==
  primary.is = "newer" => primary' = primary \/ damage' # damage

\* The lock is the one of OwnerMutex, as long as no live holder is slow and no
\* two processes wait for a dead one.
Inside == {p \in Procs \ gone : proc[p].pc \in {"load", "keep", "save", "release"}}
Mutex == INSTANCE OwnerMutex WITH
           holder <- IF Inside = {} THEN None ELSE CHOOSE p \in Inside : TRUE

\* The lock of a dead process does not stop the hooks for ever.
DeadLockRecovered == \A p \in Procs : lock = p /\ p \in gone ~> lock # p
=============================================================================
