--------------------------- MODULE PortalEnrollment ---------------------------
(***************************************************************************)
(* `portal configure`, `portal disconnect` and `reset` (src/src/           *)
(* portal-client.mjs, src/src/cli.mjs): an enrollment is reported saved    *)
(* only alongside a persisted project identity.  The identity lives in the *)
(* project state, the enrollment in a file of its own written under the    *)
(* memory lock, and both, with the lock itself, in the directory that a    *)
(* reset moves away or deletes file by file without taking that lock.      *)
(***************************************************************************)
EXTENDS Naturals, FiniteSets

CONSTANTS Procs, Creds, None,
          Attempts,   \* 3 in the code
          MaxResets, MaxWrites,  \* bounds of the resets and of the enrollments written
          ByFile,     \* whether resets delete file by file (`--force`) or move the directory
          Busy       \* whether the memory lock may stay busy for 3 s

EnrollmentAssumption == /\ None \notin Procs \cup Creds /\ Attempts \in Nat \ {0}
                        /\ MaxResets \in Nat /\ MaxWrites \in Nat /\ {ByFile, Busy} \subseteq BOOLEAN

VARIABLES identity,   \* whether the project state, hence the identity, is persisted
          config,     \* the saved enrollment: [cred, id] or None
          lock,       \* the process whose memory lock it is, or None
          deleting,   \* files a forced reset still has to delete
          proc, resets, writes
vars == <<identity, config, lock, deleting, proc, resets, writes>>

Saved == [cred : Creds, id : 1..MaxWrites]
Idle == [pc |-> "idle", cred |-> None, tries |-> 0, ensured |-> 0, own |-> {}, persisted |-> FALSE, read |-> None]
At(p, pc) == proc[p].pc = pc
Becomes(p, r) == proc' = [proc EXCEPT ![p] = r]
Goto(p, pc) == Becomes(p, [proc[p] EXCEPT !.pc = pc])
Throws(p) == Becomes(p, [Idle EXCEPT !.pc = "threw", !.own = proc[p].own])
Mine(p) == config # None /\ config.id \in proc[p].own

-----------------------------------------------------------------------------
(* configurePortal                                                         *)

Start(p, c) ==
  /\ At(p, "idle") /\ Becomes(p, [Idle EXCEPT !.pc = "ensure", !.cred = c])
  /\ UNCHANGED <<identity, config, lock, deleting, resets, writes>>

\* ensurePortalIdentity: the state is created if there is none, then read back.
Ensure(p) ==
  /\ At(p, "ensure")
  /\ identity' = TRUE /\ Becomes(p, [proc[p] EXCEPT !.pc = "ensured", !.ensured = @ + 1])
  /\ UNCHANGED <<config, lock, deleting, resets, writes>>

Ensured(p) ==
  /\ At(p, "ensured")
  /\ CASE identity -> Becomes(p, [proc[p] EXCEPT !.pc = "enter", !.ensured = 0])
       [] ~identity /\ proc[p].ensured < Attempts -> Goto(p, "ensure")
       [] OTHER -> Throws(p)
  /\ UNCHANGED <<identity, config, lock, deleting, resets, writes>>

\* The memory lock, for an enrollment, for its rollback or for a disconnect.
Enter(p) ==
  /\ proc[p].pc \in {"enter", "undo", "disconnect"} /\ lock = None
  /\ lock' = p
  /\ Goto(p, CASE At(p, "enter") -> "write" [] At(p, "undo") -> "check" [] OTHER -> "remove")
  /\ UNCHANGED <<identity, config, deleting, resets, writes>>

\* After 3 s withMemoryLock throws its own error, whatever was written before.
LockBusy(p) ==
  /\ Busy /\ proc[p].pc \in {"enter", "undo", "disconnect"} /\ lock \notin {None, p}
  /\ Becomes(p, [Idle EXCEPT !.pc = "busy", !.own = proc[p].own])
  /\ UNCHANGED <<identity, config, lock, deleting, resets, writes>>

Leaves(p) == lock' = IF lock = p THEN None ELSE lock

\* writePortalConfig: every write carries an id of its own.
Write(p) ==
  /\ At(p, "write") /\ writes < MaxWrites /\ writes' = writes + 1
  /\ config' = [cred |-> proc[p].cred, id |-> writes + 1] /\ Leaves(p)
  /\ Becomes(p, [proc[p] EXCEPT !.pc = "status", !.own = @ \cup {writes + 1}, !.tries = @ + 1])
  /\ UNCHANGED <<identity, deleting, resets>>

\* portalStatus: the identity is read, then the enrollment in another step.
Status(p) ==
  /\ At(p, "status")
  /\ Becomes(p, [proc[p] EXCEPT !.pc = "confirm", !.persisted = identity])
  /\ UNCHANGED <<identity, config, lock, deleting, resets, writes>>

Confirms(p) == proc[p].persisted /\ Mine(p) /\ \A w \in proc[p].own : config.id >= w
TriesAgain(p) == proc[p].tries < Attempts
Confirm(p) ==
  /\ At(p, "confirm")
  /\ CASE Confirms(p) -> Becomes(p, [proc[p] EXCEPT !.pc = "saved", !.read = config])
       [] ~Confirms(p) /\ TriesAgain(p) -> Goto(p, "ensure")
       [] OTHER -> Goto(p, "undo")
  /\ UNCHANGED <<identity, config, lock, deleting, resets, writes>>

\* Rolled back only if the saved enrollment is one of this call's own writes:
\* read, then removed, under the lock.
Check(p) ==
  /\ At(p, "check") /\ Becomes(p, [proc[p] EXCEPT !.pc = "rollback", !.read = config])
  /\ UNCHANGED <<identity, config, lock, deleting, resets, writes>>

RollsBackNever(p) == FALSE  \* mutant: nothing is rolled back
RollsBack(p) == proc[p].read # None /\ proc[p].read.id \in proc[p].own
Rollback(p) ==
  /\ At(p, "rollback")
  /\ config' = IF RollsBack(p) THEN None ELSE config
  /\ Leaves(p) /\ Throws(p)
  /\ UNCHANGED <<identity, deleting, resets, writes>>

Return(p) ==
  /\ proc[p].pc \in {"saved", "threw", "busy"} /\ Becomes(p, Idle)
  /\ UNCHANGED <<identity, config, lock, deleting, resets, writes>>

-----------------------------------------------------------------------------
(* disconnectPortal, hooks, reset                                          *)

Disconnect(p) ==
  /\ At(p, "idle") /\ config # None /\ Goto(p, "disconnect")
  /\ UNCHANGED <<identity, config, lock, deleting, resets, writes>>

Remove(p) ==
  /\ At(p, "remove")
  /\ config' = None /\ Leaves(p) /\ Becomes(p, Idle)
  /\ UNCHANGED <<identity, deleting, resets, writes>>

\* A hook persists the project state.
Hook ==
  /\ ~identity /\ identity' = TRUE
  /\ UNCHANGED <<config, lock, deleting, proc, resets, writes>>

Resets == resets < MaxResets /\ resets' = resets + 1 /\ deleting = {}
\* The directory is renamed: everything in it is gone at once.
Archive ==
  /\ ~ByFile /\ Resets
  /\ identity' = FALSE /\ config' = None /\ lock' = None
  /\ UNCHANGED <<deleting, proc, writes>>

Delete ==
  /\ ByFile /\ Resets /\ deleting' = {"identity", "config", "lock"}
  /\ UNCHANGED <<identity, config, lock, proc, writes>>

\* One file after the other, in the order of the directory.
DeleteOne(file) ==
  /\ deleting' = deleting \ {file}
  /\ identity' = (identity /\ file # "identity")
  /\ config' = IF file = "config" THEN None ELSE config
  /\ lock' = IF file = "lock" THEN None ELSE lock
  /\ UNCHANGED <<proc, resets, writes>>

Init == /\ identity \in BOOLEAN /\ config = None /\ lock = None /\ deleting = {}
        /\ proc = [p \in Procs |-> Idle] /\ resets = 0 /\ writes = 0

Next == \/ \E p \in Procs : \/ \E c \in Creds : Start(p, c)
                            \/ Ensure(p) \/ Ensured(p) \/ Enter(p) \/ LockBusy(p) \/ Write(p) \/ Status(p)
                            \/ Confirm(p) \/ Check(p) \/ Rollback(p) \/ Return(p) \/ Disconnect(p) \/ Remove(p)
        \/ Hook \/ Archive \/ Delete
        \/ \E file \in deleting : DeleteOne(file)
Spec == Init /\ [][Next]_vars

-----------------------------------------------------------------------------
\* Identity, enrollment, lock and every configure have their types.
TypeOK == /\ identity \in BOOLEAN /\ config \in Saved \cup {None} /\ lock \in Procs \cup {None}
          /\ deleting \subseteq {"identity", "config", "lock"} /\ resets \in 0..MaxResets /\ writes \in 0..MaxWrites
          /\ proc \in [Procs -> [pc : {"idle", "ensure", "ensured", "enter", "write", "status", "confirm", "saved",
                                       "undo", "check", "rollback", "threw", "busy", "disconnect", "remove"},
                                 cred : Creds \cup {None}, tries : 0..Attempts, ensured : 0..Attempts,
                                 own : SUBSET (1..MaxWrites), persisted : BOOLEAN, read : Saved \cup {None}]]

\* An enrollment never outlives the identity it was reported with: while nobody
\* is configuring or deleting, an enrolled project has a persisted identity.
Quiet == deleting = {} /\ \A p \in Procs : proc[p].pc \in {"idle", "saved", "threw", "busy"}
EnrolledHasIdentity == Quiet /\ config # None => identity

\* configurePortal that ends with IDLEPROOF_PORTAL_IDENTITY_UNSTABLE leaves no
\* enrollment of its own, as the error says, whatever resets, other configures and
\* busy locks came between its attempts.
ThrowLeavesNothing == \A p \in Procs : At(p, "threw") => ~Mine(p)

\* The enrollment a successful configure reports is the one it wrote, with its
\* own credential, never one that a concurrent configure saved since.
ReportsOwn == \A p \in Procs : At(p, "saved") => proc[p].read.id \in proc[p].own /\ proc[p].read.cred = proc[p].cred
=============================================================================
