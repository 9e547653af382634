--------------------------- MODULE AutoDebtQueue ---------------------------
(***************************************************************************)
(* The automatic debt queue of src/src/auto-debt.mjs: the file             *)
(* `.idleproof/auto-debt-jobs.json`, the measurements kept beside it, and  *)
(* the processes that share them.                                          *)
(*                                                                         *)
(*  - hooks: short processes of the IDE.  A Stop or SessionEnd hook that   *)
(*    completed a change first offers the DiffWitness measurement it found *)
(*    (keepNativeMeasurement), settles the job if Portal's queue took the  *)
(*    receipt, then queues the change (enqueueAutoDebt).  The manual       *)
(*    command `portal assurance` only settles.                             *)
(*  - workers: detached processes (runAutoDebtWorker).  One job per hold   *)
(*    of the worker lock: take it, measure it outside the queue lock,      *)
(*    write the outcome back.                                              *)
(*  - the user: enable, disable, reset.                                    *)
(*                                                                         *)
(* A hold of the queue lock is one step: withJobs reads the file, changes  *)
(* it and renames the new one over it.  Both locks are owned locks, taken  *)
(* over only from a process that died (see OwnedLock).  The Core command,  *)
(* the session history and Portal's own queue are nondeterministic here.   *)
(***************************************************************************)
EXTENDS Naturals, Sequences, FiniteSets, SequencesExt

CONSTANTS
  Changes,      \* the completed changes (dwchg_ identities)
  Workers,      \* the processes running `portal auto-debt run`
  Hooks,        \* the processes running a hook or `portal assurance`
  MaxJobs,      \* MAX_JOBS: open jobs beyond which a change is only recorded
  MaxFailed,    \* MAX_FAILED: failed jobs kept listed
  MaxAttempts,  \* MAX_ATTEMPTS: counted attempts after which a job fails
  None          \* no worker, no change

ASSUME ConstantsAssumption ==
  /\ IsFiniteSet(Changes)
  /\ None \notin Changes \cup Workers
  /\ MaxJobs \in Nat \ {0}
  /\ MaxFailed \in Nat \ {0}
  /\ MaxAttempts \in Nat \ {0}

VARIABLES
  config,       \* the configuration file: "absent", "enabled" or "disabled"
  order,        \* the changes of `jobs`, in the order they were queued
  job,          \* the job of each change; NoJob when it is not in `jobs`
  measured,     \* `measured`: never measured automatically again
  skipped,      \* `skippedIds`: recorded as not measured, the queue was full
  dropped,      \* `failedDroppedIds`: failed jobs that left the list
  bound,        \* changes whose bound.json keeps Core's envelope
  receipt,      \* changes whose receipt.json keeps a finished measurement
  wlock,        \* the holder of the worker lock
  worker,       \* what each worker is doing
  hook,         \* what each hook is doing
  presented,    \* history: changes that reached admitJob while enabled
  runs          \* history: Core measurements kept for each change

queueVars  == <<order, job, measured, skipped, dropped>>
keptVars   == <<bound, receipt>>
history    == <<presented, runs>>
vars == <<config, queueVars, keptVars, wlock, worker, hook, history>>

-----------------------------------------------------------------------------
(* The queue file *)

NoJob  == [state |-> "none", attempts |-> 0, delayed |-> FALSE]
NewJob == [state |-> "pending", attempts |-> 0, delayed |-> FALSE]

Job == [state : {"none", "pending", "measuring", "failed"},
        attempts : 0 .. MaxAttempts,
        delayed : BOOLEAN]       \* retryAfter is still in the future

InState(S) == {c \in Changes : job[c].state \in S}
Listed == InState({"pending", "measuring", "failed"})
Open   == InState({"pending", "measuring"})
Failed == InState({"failed"})
Kept   == bound \cup receipt

\* c is the first change of the queue that belongs to S.
IsFirst(c, S) ==
  /\ c \in S
  /\ \E i \in DOMAIN order :
       order[i] = c /\ \A k \in 1 .. (i - 1) : order[k] \notin S

\* The queue without the job of c.
Without(s, c) ==
  IF c \in Range(s) THEN RemoveAt(s, CHOOSE i \in DOMAIN s : s[i] = c) ELSE s

\* pruneWork: the files of the jobs listed now are kept, and those of the latest
\* others; which of the others go is left open.
PrunableListed(listed) == Kept               \* mutant: listed jobs not excepted
Prunable(listed) == Kept \ listed

Prune(listed) ==
  \E gone \in SUBSET Prunable(listed) :
    bound' = bound \ gone /\ receipt' = receipt \ gone

-----------------------------------------------------------------------------
(* The configuration, written under the queue lock *)

\* enableAutoDebt: Portal attached and Core answering are outside this module.
Enable ==
  /\ config' = "enabled"
  /\ UNCHANGED <<queueVars, keptVars, wlock, worker, hook, history>>

Disable ==
  /\ config # "absent"
  /\ config' = "disabled"
  /\ UNCHANGED <<queueVars, keptVars, wlock, worker, hook, history>>

\* `idleproof reset` moves the whole state directory away, holding the worker
\* lock and then the queue lock.
Reset ==
  /\ wlock = None
  /\ config' = "absent"
  /\ order' = <<>>
  /\ job' = [c \in Changes |-> NoJob]
  /\ measured' = {} /\ skipped' = {} /\ dropped' = {}
  /\ bound' = {} /\ receipt' = {}
  /\ presented' = {}
  /\ runs' = [c \in Changes |-> 0]
  /\ UNCHANGED <<wlock, worker, hook>>

-----------------------------------------------------------------------------
(* Hooks *)

HookState == [pc : {"idle", "read", "admit", "native", "settle"},
              change : Changes \cup {None},
              admits : BOOLEAN]       \* this completion may admit the job

Idle == [pc |-> "idle", change |-> None, admits |-> FALSE]
Goto(h, step) == hook' = [hook EXCEPT ![h].pc = step]
Leave(h) == hook' = [hook EXCEPT ![h] = Idle]

\* A Stop (or SessionEnd) hook on a completed change.  `accepted`: it may admit
\* the job.  `envelope`: a DiffWitness envelope of this very change exists.
Stop(h, c, accepted, envelope) ==
  /\ hook[h].pc = "idle"
  /\ accepted \/ envelope
  /\ hook' = [hook EXCEPT ![h] =
       [pc |-> IF envelope THEN "native" ELSE "read", change |-> c, admits |-> accepted]]
  /\ UNCHANGED <<config, queueVars, keptVars, wlock, worker, history>>

\* `portal assurance`: the receipt of c was accepted by the delivery queue.
ManualAssurance(h, c) ==
  /\ hook[h].pc = "idle"
  /\ hook' = [hook EXCEPT ![h] = [pc |-> "settle", change |-> c, admits |-> FALSE]]
  /\ UNCHANGED <<config, queueVars, keptVars, wlock, worker, history>>

\* Already queued, or already measured.
KnownIfMeasured(c) == c \in measured        \* mutant: queued again
KnownIfListed(c) == c \in Listed            \* mutant: measured queued again
AlreadyKnown(c) == c \in Listed \/ c \in measured

\* Failed jobs do not take the place of new ones.
HasRoom == Cardinality(Open) < MaxJobs

\* resolveSkipped, resolveFailedDropped: c leaves the records it was counted in.
Unresolved(records, c) == records            \* mutant: not resolved
Resolve(records, c) == records \ {c}

\* The full queue counts the change as not measured.
SkipUnrecorded(c) == skipped                 \* mutant: not counted
RecordSkipped(c) == skipped \cup {c}

\* admitJob, under the queue lock.
Admit(c) ==
  /\ presented' = presented \cup {c}
  /\ \/ /\ AlreadyKnown(c)
        /\ UNCHANGED <<order, job, skipped, dropped>>
     \/ /\ ~AlreadyKnown(c)
        /\ ~HasRoom
        /\ skipped' = RecordSkipped(c)
        /\ UNCHANGED <<order, job, dropped>>
     \/ /\ ~AlreadyKnown(c)
        /\ HasRoom
        /\ order' = Append(order, c)
        /\ job' = [job EXCEPT ![c] = NewJob]
        /\ skipped' = Resolve(skipped, c)
        /\ dropped' = Resolve(dropped, c)

\* enqueueAutoDebt reads the configuration first without the queue lock.
ReadConfig(h) ==
  /\ hook[h].pc = "read"
  /\ IF config = "enabled" THEN Goto(h, "admit") ELSE Leave(h)
  /\ UNCHANGED <<config, queueVars, keptVars, wlock, worker, history>>

\* ... and again under it, where `disable` and `reset` cannot come between.
AdmitUnlessReset == config # "absent"        \* mutant: not read again
MayAdmit == config = "enabled"

Enqueue(h) ==
  /\ hook[h].pc = "admit"
  /\ MayAdmit
  /\ Admit(hook[h].change)
  /\ Leave(h)
  /\ UNCHANGED <<config, measured, keptVars, wlock, worker, runs>>

\* keepNativeMeasurement has nothing to attach the measurement to, or the change
\* keeps the measurement it has.
NativeRefused(c, admits) ==
  \/ config # "enabled"
  \/ c \in measured
  \/ job[c].state = "measuring"
  \/ c \notin Listed /\ ~admits

\* The rest of the hook: settle if the Portal queue accepted the receipt, then
\* queue the change if this completion may admit it.
AfterNative(h) == \/ Goto(h, "settle")
                  \/ IF hook[h].admits THEN Goto(h, "read") ELSE Leave(h)

\* Nothing is kept: refused, or the queue lock stayed busy (fail-open).
NotKept(h) ==
  /\ hook[h].pc = "native"
  /\ AfterNative(h)
  /\ UNCHANGED <<config, queueVars, keptVars, wlock, worker, history>>

\* The measurement is kept for the job already queued; a failed one is due again.
KeepForJob(h) ==
  LET c == hook[h].change IN
  /\ hook[h].pc = "native"
  /\ ~NativeRefused(c, hook[h].admits)
  /\ c \in Listed
  /\ receipt' = receipt \cup {c}
  /\ job' = IF job[c].state = "failed" THEN [job EXCEPT ![c] = NewJob] ELSE job
  /\ AfterNative(h)
  /\ UNCHANGED <<config, order, measured, skipped, dropped, bound, wlock, worker, history>>

\* It is kept with the job that this completion admits, in the same lock hold.
KeepAndAdmit(h) ==
  LET c == hook[h].change IN
  /\ hook[h].pc = "native"
  /\ ~NativeRefused(c, hook[h].admits)
  /\ c \notin Listed
  /\ Admit(c)
  /\ receipt' = IF HasRoom THEN receipt \cup {c} ELSE receipt
  /\ AfterNative(h)
  /\ UNCHANGED <<config, measured, bound, wlock, worker, runs>>

\* The process dies after receipt.json is renamed into place and before the
\* queue file is.
KeepInterrupted(h) ==
  LET c == hook[h].change IN
  /\ hook[h].pc = "native"
  /\ ~NativeRefused(c, hook[h].admits)
  /\ c \in Listed \/ HasRoom
  /\ receipt' = receipt \cup {c}
  /\ Leave(h)
  /\ UNCHANGED <<config, queueVars, bound, wlock, worker, history>>

\* A worker process is working on c (its lock names it, it has not died).
BeingMeasured(c) == \E w \in Workers : worker[w].change = c

\* settleWithManualAssurance: a job being measured is left to its worker.
SettledAnyway(c) == FALSE                    \* mutant: taken from the worker
LeftToWorker(c) == job[c].state = "measuring"

Settle(h) ==
  LET c == hook[h].change IN
  /\ hook[h].pc = "settle"
  /\ config # "absent"
  /\ \/ /\ LeftToWorker(c)
        /\ UNCHANGED <<queueVars, keptVars>>
     \/ /\ ~LeftToWorker(c)
        /\ order' = Without(order, c)
        /\ job' = [job EXCEPT ![c] = NoJob]
        /\ measured' = measured \cup {c}
        /\ skipped' = Resolve(skipped, c)
        /\ dropped' = Resolve(dropped, c)
        /\ Prune(Listed')
  /\ IF hook[h].admits THEN Goto(h, "read") ELSE Leave(h)
  /\ UNCHANGED <<config, wlock, worker, presented, runs>>

\* Not enabled here, or the queue lock stayed busy: nothing is settled.
NotSettled(h) ==
  /\ hook[h].pc = "settle"
  /\ IF hook[h].admits THEN Goto(h, "read") ELSE Leave(h)
  /\ UNCHANGED <<config, queueVars, keptVars, wlock, worker, history>>

\* The hook ends early: the queue lock stayed busy, the state was reset, or it died.
HookEnds(h) ==
  /\ hook[h].pc # "idle"
  /\ Leave(h)
  /\ UNCHANGED <<config, queueVars, keptVars, wlock, worker, history>>

-----------------------------------------------------------------------------
(* Workers *)

Result == [state : {"none", "done", "waiting", "failed", "retry", "core-unavailable"},
           taken : BOOLEAN]           \* Core's measurement is kept beside the job

WorkerState == [pc : {"off", "idle", "kept", "core", "correlate", "queue", "apply"},
                change : Changes \cup {None},
                retry : SUBSET Changes,   \* failed jobs this run may still retry
                result : Result]

NoResult == [state |-> "none", taken |-> FALSE]
Off == [pc |-> "off", change |-> None, retry |-> {}, result |-> NoResult]

\* runAutoDebtWorker; with --retry-failed, the jobs failed now may run once more.
RunStart(w, retryFailed) ==
  /\ worker[w].pc = "off"
  /\ config = "enabled"
  /\ worker' = [worker EXCEPT ![w] =
       [Off EXCEPT !.pc = "idle", !.retry = IF retryFailed THEN Failed ELSE {}]]
  /\ UNCHANGED <<config, queueVars, keptVars, wlock, hook, history>>

\* processNextJob runs with the worker lock held.
LockIgnored == TRUE                          \* mutant: no worker lock
LockFree == wlock = None

\* With the worker lock held, a job still `measuring` was left by a dead worker.
Recovered ==
  [c \in Changes |->
     IF job[c].state = "measuring" THEN [job[c] EXCEPT !.state = "pending"] ELSE job[c]]

Due == {c \in Changes : Recovered[c].state = "pending" /\ ~Recovered[c].delayed}

\* A failed job that is retried starts its attempts over.
AttemptsKept(c) == job[c].attempts           \* mutant: not reset
AttemptsAtTake(c) == IF job[c].state = "failed" THEN 0 ELSE job[c].attempts

\* processNextJob, first queue-lock hold: the first due job, else a failed one
\* that this run may still retry.
Take(w, c) ==
  /\ worker[w].pc = "idle"
  /\ LockFree
  /\ config = "enabled"
  /\ \/ IsFirst(c, Due)
     \/ Due = {} /\ IsFirst(c, Failed \cap worker[w].retry)
  /\ wlock' = w
  /\ job' = [Recovered EXCEPT ![c] =
       [state |-> "measuring", delayed |-> FALSE, attempts |-> AttemptsAtTake(c)]]
  /\ worker' = [worker EXCEPT ![w] =
       [pc |-> "kept", change |-> c, result |-> NoResult,
        retry |-> IF job[c].state = "failed" THEN worker[w].retry \ {c} ELSE worker[w].retry]]
  /\ UNCHANGED <<config, order, measured, skipped, dropped, keptVars, hook, history>>

Continue(w, step) == worker' = [worker EXCEPT ![w].pc = step]

Report(w, state, taken) ==
  worker' = [worker EXCEPT ![w].pc = "apply",
                           ![w].result = [state |-> state, taken |-> taken]]

\* measureAndQueue: a measurement kept earlier is used, Core does not run.
ReceiptOrCore(c) ==                          \* mutant: bound.json not read
  IF c \in receipt THEN "queue" ELSE "core"
AfterKept(c) ==
  IF c \in receipt THEN "queue" ELSE IF c \in bound THEN "correlate" ELSE "core"

ReadKept(w) ==
  /\ worker[w].pc = "kept"
  /\ Continue(w, AfterKept(worker[w].change))
  /\ UNCHANGED <<config, queueVars, keptVars, wlock, hook, history>>

\* Core unavailable; no usable reference or envelope; a failed or late attempt.
CoreFails(w) ==
  /\ worker[w].pc = "core"
  /\ \E state \in {"core-unavailable", "failed", "retry"} : Report(w, state, FALSE)
  /\ UNCHANGED <<config, queueVars, keptVars, wlock, hook, history>>

\* Core measured the change and bound its envelope, which is kept.
CoreMeasures(w) ==
  LET c == worker[w].change IN
  /\ worker[w].pc = "core"
  /\ bound' = bound \cup {c}
  /\ runs' = [runs EXCEPT ![c] = @ + 1]
  /\ Continue(w, "correlate")
  /\ UNCHANGED <<config, queueVars, receipt, wlock, hook, presented>>

\* correlateAndQueue: the change is no longer in the session history, or its
\* receipt cannot be written.
CorrelateFails(w) ==
  /\ worker[w].pc = "correlate"
  /\ \E state \in {"failed", "retry"} : Report(w, state, TRUE)
  /\ UNCHANGED <<config, queueVars, keptVars, wlock, hook, history>>

Correlate(w) ==
  /\ worker[w].pc = "correlate"
  /\ receipt' = receipt \cup {worker[w].change}
  /\ Continue(w, "queue")
  /\ UNCHANGED <<config, queueVars, bound, wlock, hook, history>>

\* queueKeptMeasurement: accepted, refused for now, or no longer retained.
QueueReceipt(w) ==
  /\ worker[w].pc = "queue"
  /\ \E state \in {"done", "waiting", "failed"} : Report(w, state, TRUE)
  /\ Prune(Listed)
  /\ UNCHANGED <<config, queueVars, wlock, hook, history>>

\* The failed jobs already fill their list, besides c.
NeverFull(c) == FALSE                        \* mutant: list not bounded
FailedFull(c) == Cardinality(Failed \ {c}) >= MaxFailed

DropUncounted(c) == dropped                  \* mutant: dropped silently
RecordDropped(c) == dropped \cup {c}

\* boundFailed, with c failing now: the oldest failed job leaves the list once
\* there are more than MaxFailed.  Any job but the one that fails may be it.
Fail(c, attempts) ==
  LET failedJob == [state |-> "failed", attempts |-> attempts, delayed |-> FALSE] IN
  \/ /\ ~FailedFull(c)
     /\ job' = [job EXCEPT ![c] = failedJob]
     /\ UNCHANGED <<order, dropped>>
  \/ /\ FailedFull(c)
     /\ \E old \in Failed \ {c} :
          /\ job' = [job EXCEPT ![c] = failedJob, ![old] = NoJob]
          /\ order' = Without(order, old)
          /\ dropped' = RecordDropped(old)

\* The outcomes that processNextJob writes back for the job of c.
ApplyDone(c) ==
  /\ order' = Without(order, c)
  /\ job' = [job EXCEPT ![c] = NoJob]
  /\ UNCHANGED dropped

OneMoreAttempt(n) == n > MaxAttempts         \* mutant: off by one
Exhausted(n) == n >= MaxAttempts

ApplyRetry(c) ==
  LET attempts == job[c].attempts + 1 IN
  \/ Exhausted(attempts) /\ Fail(c, attempts)
  \/ /\ ~Exhausted(attempts)
     /\ job' = [job EXCEPT ![c] =
                  [state |-> "pending", attempts |-> attempts, delayed |-> TRUE]]
     /\ UNCHANGED <<order, dropped>>

\* Core or the destination is unavailable: no attempt is counted.
ApplyWait(c) ==
  /\ job' = [job EXCEPT ![c].state = "pending", ![c].delayed = FALSE]
  /\ UNCHANGED <<order, dropped>>

\* processNextJob, second queue-lock hold: the outcome is written, and the
\* worker lock released.  A job that is gone is left alone.
Apply(w) ==
  LET c == worker[w].change
      result == worker[w].result
  IN
  /\ worker[w].pc = "apply"
  /\ IF c \notin Listed THEN UNCHANGED queueVars ELSE
       /\ \/ result.state = "done" /\ ApplyDone(c)
          \/ result.state = "failed" /\ Fail(c, job[c].attempts + 1)
          \/ result.state = "retry" /\ ApplyRetry(c)
          \/ result.state \in {"waiting", "core-unavailable"} /\ ApplyWait(c)
       /\ measured' = IF result.taken \/ result.state = "done"
                      THEN measured \cup {c} ELSE measured
       /\ UNCHANGED skipped
  /\ wlock' = None
  /\ worker' = [worker EXCEPT ![w] = [Off EXCEPT !.pc = "idle", !.retry = worker[w].retry]]
  /\ UNCHANGED <<config, keptVars, hook, history>>

\* The run ends, or the process dies at any point: its lock is then taken over,
\* and its job stays `measuring`.
RunEnds(w) ==
  /\ worker[w].pc # "off"
  /\ worker' = [worker EXCEPT ![w] = Off]
  /\ wlock' = IF wlock = w THEN None ELSE wlock
  /\ UNCHANGED <<config, queueVars, keptVars, hook, history>>

\* The backoff of a retry passes.
BackoffExpires(c) ==
  /\ job[c].delayed
  /\ job' = [job EXCEPT ![c].delayed = FALSE]
  /\ UNCHANGED <<config, order, measured, skipped, dropped, keptVars, wlock,
                 worker, hook, history>>

-----------------------------------------------------------------------------

Init ==
  /\ config = "absent"
  /\ order = <<>>
  /\ job = [c \in Changes |-> NoJob]
  /\ measured = {} /\ skipped = {} /\ dropped = {}
  /\ bound = {} /\ receipt = {}
  /\ wlock = None
  /\ worker = [w \in Workers |-> Off]
  /\ hook = [h \in Hooks |-> Idle]
  /\ presented = {}
  /\ runs = [c \in Changes |-> 0]

HookStep(h) ==
  \/ \E c \in Changes, accepted, envelope \in BOOLEAN : Stop(h, c, accepted, envelope)
  \/ \E c \in Changes : ManualAssurance(h, c)
  \/ ReadConfig(h) \/ Enqueue(h)
  \/ NotKept(h) \/ KeepForJob(h) \/ KeepAndAdmit(h) \/ KeepInterrupted(h)
  \/ Settle(h) \/ NotSettled(h) \/ HookEnds(h)

WorkerStep(w) ==
  \/ \E retryFailed \in BOOLEAN : RunStart(w, retryFailed)
  \/ \E c \in Changes : Take(w, c)
  \/ ReadKept(w)
  \/ CoreFails(w) \/ CoreMeasures(w)
  \/ CorrelateFails(w) \/ Correlate(w)
  \/ QueueReceipt(w) \/ Apply(w) \/ RunEnds(w)

Next ==
  \/ Enable \/ Disable \/ Reset
  \/ \E h \in Hooks : HookStep(h)
  \/ \E w \in Workers : WorkerStep(w)
  \/ \E c \in Changes : BackoffExpires(c)

Spec == Init /\ [][Next]_vars

-----------------------------------------------------------------------------
(* Properties *)

\* The shape of every variable.
TypeOK ==
  /\ config \in {"absent", "enabled", "disabled"}
  /\ order \in Seq(Changes)
  /\ job \in [Changes -> Job]
  /\ measured \subseteq Changes /\ skipped \subseteq Changes /\ dropped \subseteq Changes
  /\ bound \subseteq Changes /\ receipt \subseteq Changes
  /\ wlock \in Workers \cup {None}
  /\ worker \in [Workers -> WorkerState]
  /\ hook \in [Hooks -> HookState]
  /\ presented \subseteq Changes
  /\ runs \in [Changes -> Nat]

\* The queue holds at most one job per change, however often and by however many
\* hooks the change is presented (admitJob, keepNativeMeasurement).
OneJobPerChange ==
  /\ \A i, k \in DOMAIN order : order[i] = order[k] => i = k
  /\ Range(order) = Listed

\* A change that was presented while automatic debt is enabled is never dropped
\* silently: it has a job, or it is recorded as measured, as not measured, or as
\* a failure no longer listed.
NothingLost == presented \subseteq Listed \cup measured \cup skipped \cup dropped

\* The status never reports a change as not measured (queue full) while it has a
\* job or a measurement, nor a listed job as no longer listed.
NoStaleRecord ==
  /\ skipped \cap (Listed \cup measured) = {}
  /\ dropped \cap Listed = {}

\* A worker on a change holds the worker lock and its job is still there, marked
\* `measuring`: no hook, command or other worker settled, requeued or dropped it
\* while Core was running outside the queue lock.
WorkerOwnsItsJob ==
  \A w \in Workers : worker[w].change # None =>
    wlock = w /\ job[worker[w].change].state = "measuring"

\* Core's measurement of a change is taken once, across retries, crashes of the
\* worker, failed deliveries and measurements made by other routes.
MeasuredOnce == \A c \in Changes : runs[c] <= 1

\* A job whose change is already recorded as measured still has its measurement
\* beside it, so that retrying it only sends it.
MeasuredJobKeepsIt == measured \cap Listed \subseteq Kept

\* A failed job has at most MaxAttempts attempts and an open one always has one
\* left: the worker never takes a job that already used them.
AttemptsLeft == \A c \in Open : job[c].attempts < MaxAttempts

\* The list of failed jobs stays within its bound, whatever path failed them.
FailedBounded == Cardinality(Failed) <= MaxFailed

\* Once recorded as measured, a change is never measured by Core again and never
\* gets a new job, whichever process presents it next.
NeverMeasuredAgain ==
  [][\A c \in measured : /\ runs'[c] <= runs[c]
                         /\ c \notin Listed => c \notin Listed']_vars

\* A job appears only while automatic debt is enabled: a hook that read the
\* configuration before `disable` or `reset` queues nothing after it.
QueuedOnlyWhileEnabled ==
  [][Listed' \subseteq Listed \/ config = "enabled"]_vars

\* A worker's job is in its hands until it writes the outcome or dies: its state
\* on file changes only in a step of that worker.
OnlyTheWorkerEndsIt ==
  [][\A w \in Workers :
       worker[w].change # None /\ worker'[w] = worker[w]
         => job'[worker[w].change] = job[worker[w].change]]_vars

\* A receipt accepted by Portal's queue settles the job of its change unless a
\* worker is measuring that change at that moment (docs/AUTO_DEBT.md).
AssuredIsSettled ==
  [][\A h \in Hooks : Settle(h) /\ ~BeingMeasured(hook[h].change)
                        => hook[h].change \in measured']_vars

\* The standing of each change, as ChangeLedger promises it.
Standing ==
  [c \in Changes |->
     IF c \in measured THEN "measured"
     ELSE IF c \in skipped THEN "skipped"
     ELSE IF c \in Listed THEN "queued"
     ELSE IF c \in dropped THEN "unlisted"
     ELSE "unseen"]

Ledger == INSTANCE ChangeLedger WITH status <- Standing

\* The queue implements the ledger: the standing of a change only moves forward.
ImplementsLedger == Ledger!Spec
=============================================================================
