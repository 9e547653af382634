--------------------------- MODULE AutoDebtWorker ---------------------------
(***************************************************************************)
(* The run loop of the automatic debt worker (runAutoDebtWorker of         *)
(* src/src/auto-debt.mjs) and the triggers that start it.  Nothing else    *)
(* wakes a worker: a job that no run takes waits for the next trigger.  So *)
(* the loop has to take the jobs of the workers it sends away.             *)
(*                                                                         *)
(* A run holds the worker lock once per job and once per delivery of the   *)
(* Portal queue.  A process that waited 3 s for the lock finds it busy.    *)
(* The queue of AutoDebtQueue is abstracted to whether each job is due.    *)
(***************************************************************************)
EXTENDS Naturals, FiniteSets

CONSTANTS
  Changes,     \* changes that may be queued
  Workers,     \* worker processes alive at the same time
  MaxTaken,    \* maxJobs: jobs, and passes, of one run
  MaxSpawned,  \* bound: processes spawned that have not begun yet
  None

ASSUME WorkerAssumption ==
  /\ None \notin Changes \cup Workers
  /\ MaxTaken \in Nat \ {0}
  /\ MaxSpawned \in Nat \ {0}

VARIABLES
  enabled,     \* automatic debt is enabled for the project
  job,         \* each change: "absent", "due", "delayed" (backoff) or "measuring"
  wlock,       \* the holder of the worker lock
  run,         \* what each worker process is doing
  spawned,     \* detached workers started that have not begun
  excused,     \* history: jobs left for the next trigger, as documented
  late         \* history: jobs left behind the delivery of a run sent away

vars == <<enabled, job, wlock, run, spawned, excused, late>>

\* stop: why the run takes no more jobs ("no": it still may).
RunState == [pc : {"off", "take", "measuring", "drain", "draining", "after", "flush",
                   "flushing", "decide"},
             taken : 0 .. MaxTaken, pass : 0 .. MaxTaken,
             done : BOOLEAN, drained : BOOLEAN,
             stop : {"no", "busy", "disabled", "unavailable"}]

Fresh == [pc |-> "off", taken |-> 0, pass |-> 0, done |-> FALSE, drained |-> FALSE,
          stop |-> "no"]

\* Jobs a worker would take; one still `measuring` was left by a dead worker, or
\* is being measured by another one.
Waiting == {c \in Changes : job[c] \in {"due", "measuring"}}

NeverWaiting == FALSE                        \* mutant: not looked at again
DueJobWaiting == Waiting # {}

Free == wlock = None
Busy(w) == wlock \notin {None, w}
Move(w, step) == run' = [run EXCEPT ![w].pc = step]
Stop(w, why) == run' = [run EXCEPT ![w].pc = "after", ![w].stop = why]

Spawn == spawned' = IF spawned < MaxSpawned THEN spawned + 1 ELSE spawned

-----------------------------------------------------------------------------
(* Triggers *)

\* scheduleAutoDebt: the hook queues its change, if it completed one, and starts
\* a worker when there is work.
Trigger(c) ==
  /\ enabled
  /\ spawned < MaxSpawned
  /\ job' = [job EXCEPT ![c] = IF @ = "absent" THEN "due" ELSE @]
  /\ Spawn
  /\ UNCHANGED <<enabled, wlock, run, excused, late>>

\* The backoff of a retry passes; no trigger comes with it.
BackoffExpires(c) ==
  /\ job[c] = "delayed"
  /\ job' = [job EXCEPT ![c] = "due"]
  /\ excused' = excused \cup {c}
  /\ UNCHANGED <<enabled, wlock, run, spawned, late>>

Disable ==
  /\ enabled
  /\ enabled' = FALSE
  /\ UNCHANGED <<job, wlock, run, spawned, excused, late>>

\* Enabling starts no worker: the jobs wait for the next trigger.
Enable ==
  /\ ~enabled
  /\ enabled' = TRUE
  /\ excused' = Waiting
  /\ UNCHANGED <<job, wlock, run, spawned, late>>

\* A spawned worker begins: everything due is its business, or of the run that
\* sends it away.
Begin(w) ==
  /\ run[w].pc = "off"
  /\ spawned > 0
  /\ spawned' = spawned - 1
  /\ IF enabled THEN /\ Move(w, "take")
                     /\ excused' = {} /\ late' = {}
                ELSE UNCHANGED <<run, excused, late>>
  /\ UNCHANGED <<enabled, job, wlock>>

-----------------------------------------------------------------------------
(* takeJobs *)

MayTakeUncapped(w) == run[w].pc = "take"     \* mutant: no cap
MayTake(w) == run[w].pc = "take" /\ run[w].taken < MaxTaken

\* processNextJob under the worker lock: a job left measuring is due again.
TakeJob(w, c) ==
  /\ MayTake(w) /\ enabled /\ Free
  /\ c \in Waiting
  /\ job' = [d \in Changes |-> IF d = c THEN "measuring"
                               ELSE IF job[d] = "measuring" THEN "due" ELSE job[d]]
  /\ wlock' = w
  /\ Move(w, "measuring")
  /\ UNCHANGED <<enabled, spawned, excused, late>>

\* No job is due, or this run took as many as it may.
TakeEnds(w) ==
  /\ run[w].pc = "take"
  /\ ~MayTake(w) \/ (enabled /\ Free /\ Waiting = {})
  /\ Move(w, "after")
  /\ UNCHANGED <<enabled, job, wlock, spawned, excused, late>>

\* Disabled, or reset: this run stops.
TakeDisabled(w) ==
  /\ MayTake(w) /\ ~enabled
  /\ Stop(w, "disabled")
  /\ UNCHANGED <<enabled, job, wlock, spawned, excused, late>>

\* Another worker kept the lock for 3 s: this one leaves its jobs to it.
TakeBusy(w) ==
  /\ MayTake(w) /\ enabled /\ Busy(w)
  /\ Stop(w, "busy")
  /\ UNCHANGED <<enabled, job, wlock, spawned, excused, late>>

CountNone(n) == n                            \* mutant: the job is not counted
Count(n) == n + 1

\* The job is over: delivered to the queue ("absent"), failed, or to be retried
\* after a backoff.
JobEnds(w, c, next, done) ==
  /\ run[w].pc = "measuring" /\ job[c] = "measuring"
  /\ done => next = "absent"
  /\ job' = [job EXCEPT ![c] = next]
  /\ wlock' = None
  /\ run' = [run EXCEPT ![w].pc = "take", ![w].taken = Count(@),
                        ![w].done = @ \/ done]
  /\ UNCHANGED <<enabled, spawned, excused, late>>

\* Core or the destination is unavailable, or the delivery queue is still full
\* after a delivery: the job waits, and the run takes no other.
JobWaits(w, c) ==
  /\ run[w].pc = "measuring" /\ job[c] = "measuring"
  /\ job' = [job EXCEPT ![c] = "due"]
  /\ wlock' = None
  /\ run' = [run EXCEPT ![w].pc = "after", ![w].taken = Count(@),
                        ![w].stop = "unavailable"]
  /\ UNCHANGED <<enabled, spawned, excused, late>>

\* The delivery queue is full for the first time in this run: it is sent once.
JobFindsQueueFull(w, c) ==
  /\ run[w].pc = "measuring" /\ job[c] = "measuring"
  /\ ~run[w].drained
  /\ job' = [job EXCEPT ![c] = "due"]
  /\ wlock' = None
  /\ run' = [run EXCEPT ![w].pc = "drain", ![w].drained = TRUE]
  /\ UNCHANGED <<enabled, spawned, excused, late>>

\* The delivery in the middle of the run: the job is tried again without being
\* charged to the run, or waits as above.
DrainBegins(w) ==
  /\ run[w].pc = "drain" /\ Free
  /\ wlock' = w
  /\ Move(w, "draining")
  /\ UNCHANGED <<enabled, job, spawned, excused, late>>

Undrained(w) == run' = [run EXCEPT ![w].pc = "after", ![w].taken = Count(@),
                                   ![w].stop = "unavailable"]

DrainBusy(w) ==
  /\ run[w].pc = "drain" /\ Busy(w)
  /\ Undrained(w)
  /\ UNCHANGED <<enabled, job, wlock, spawned, excused, late>>

DrainEnds(w) ==
  /\ run[w].pc = "draining"
  /\ wlock' = None
  /\ Move(w, "take") \/ Undrained(w)
  /\ UNCHANGED <<enabled, job, spawned, excused, late>>

-----------------------------------------------------------------------------
(* The passes of a run *)

\* The receipts of this pass are sent, and on the first pass those queued earlier.
FlushDue(w, waiting) == run[w].done \/ (run[w].pass = 0 /\ waiting)

After(w, waiting) ==
  /\ run[w].pc = "after"
  /\ Move(w, IF FlushDue(w, waiting) THEN "flush" ELSE "decide")
  /\ UNCHANGED <<enabled, job, wlock, spawned, excused, late>>

FlushBegins(w) ==
  /\ run[w].pc = "flush" /\ Free
  /\ wlock' = w
  /\ Move(w, "flushing")
  /\ UNCHANGED <<enabled, job, spawned, excused, late>>

FlushBusy(w) ==
  /\ run[w].pc = "flush" /\ Busy(w)
  /\ Move(w, "decide")
  /\ UNCHANGED <<enabled, job, wlock, spawned, excused, late>>

\* Whoever came during the delivery of a run that was itself sent away left too,
\* and this run takes nothing more.
FlushEnds(w) ==
  /\ run[w].pc = "flushing"
  /\ wlock' = None
  /\ Move(w, "decide")
  /\ late' = IF run[w].stop = "busy" THEN Waiting ELSE late
  /\ UNCHANGED <<enabled, job, spawned, excused>>

Continues(w) == run[w].stop = "no" /\ DueJobWaiting
Capped(w) == run[w].taken >= MaxTaken \/ run[w].pass >= MaxTaken

\* A change completed during the delivery found the lock held, and its worker
\* left: this run takes it.
NextPass(w) ==
  /\ run[w].pc = "decide"
  /\ Continues(w) /\ ~Capped(w)
  /\ run' = [run EXCEPT ![w].pc = "take", ![w].pass = @ + 1, ![w].done = FALSE]
  /\ UNCHANGED <<enabled, job, wlock, spawned, excused, late>>

NoHandOff == UNCHANGED spawned               \* mutant: no fresh worker at the cap
HandOff == Spawn

\* At its cap the run hands the jobs still due to a fresh worker.
RunCapped(w) ==
  /\ run[w].pc = "decide"
  /\ Continues(w) /\ Capped(w)
  /\ HandOff
  /\ run' = [run EXCEPT ![w] = Fresh]
  /\ UNCHANGED <<enabled, job, wlock, excused, late>>

\* A run stopped by an unavailable Core or destination, or disabled, leaves its
\* jobs to the next trigger.
RunEnds(w) ==
  /\ run[w].pc = "decide"
  /\ ~Continues(w)
  /\ run' = [run EXCEPT ![w] = Fresh]
  /\ excused' = IF run[w].stop \in {"unavailable", "disabled"} THEN Waiting ELSE excused
  /\ UNCHANGED <<enabled, job, wlock, spawned, late>>

\* The process dies: its lock is taken over, its job stays `measuring`.
Dies(w) ==
  /\ run[w].pc # "off"
  /\ run' = [run EXCEPT ![w] = Fresh]
  /\ wlock' = IF wlock = w THEN None ELSE wlock
  /\ excused' = Waiting
  /\ UNCHANGED <<enabled, job, spawned, late>>

-----------------------------------------------------------------------------

Init ==
  /\ enabled = TRUE
  /\ job = [c \in Changes |-> "absent"]
  /\ wlock = None
  /\ run = [w \in Workers |-> Fresh]
  /\ spawned = 0
  /\ excused = {} /\ late = {}

Outcome(w) ==
  \E c \in Changes :
    \/ \E next \in {"absent", "delayed"}, done \in BOOLEAN : JobEnds(w, c, next, done)
    \/ JobWaits(w, c)
    \/ JobFindsQueueFull(w, c)

\* Every step of a running worker but its death.
Step(w) ==
  \/ \E c \in Changes : TakeJob(w, c)
  \/ TakeEnds(w) \/ TakeDisabled(w) \/ TakeBusy(w)
  \/ Outcome(w)
  \/ DrainBegins(w) \/ DrainBusy(w) \/ DrainEnds(w)
  \/ \E waiting \in BOOLEAN : After(w, waiting)
  \/ FlushBegins(w) \/ FlushBusy(w) \/ FlushEnds(w)
  \/ NextPass(w) \/ RunCapped(w) \/ RunEnds(w)

Next ==
  \/ Disable \/ Enable
  \/ \E c \in Changes : Trigger(c) \/ BackoffExpires(c)
  \/ \E w \in Workers : Begin(w) \/ Step(w) \/ Dies(w)

\* A worker that does not die goes on: Core, Git and every request have a time
\* limit, and waiting for the lock ends after 3 s.  Triggers come or not.
Fairness ==
  /\ WF_vars(\E w \in Workers : Begin(w))
  /\ \A w \in Workers : WF_vars(Step(w))

Spec == Init /\ [][Next]_vars /\ Fairness

-----------------------------------------------------------------------------
(* Properties *)

\* Worker, lock and job table have their types.
TypeOK ==
  /\ enabled \in BOOLEAN
  /\ job \in [Changes -> {"absent", "due", "delayed", "measuring"}]
  /\ wlock \in Workers \cup {None}
  /\ run \in [Workers -> RunState]
  /\ spawned \in 0 .. MaxSpawned
  /\ excused \subseteq Changes /\ late \subseteq Changes

AllGone == spawned = 0 /\ \A w \in Workers : run[w].pc = "off"

\* When the last worker leaves, every job still due was left as documented
\* (unavailable Core or destination, backoff, death, disabled meanwhile), or
\* behind the delivery of a run that had itself been sent away.
JobsAttended == AllGone /\ enabled => Waiting \subseteq excused \cup late

\* What docs/AUTO_DEBT.md says: a worker that finds another one running leaves,
\* and the running one takes the jobs queued meanwhile.
RunningWorkerTakesQueued == AllGone /\ enabled => Waiting \subseteq excused

\* Every job becomes someone's business in the end: it is taken, or is left as above.
EventuallyTaken ==
  \A c \in Changes : (job[c] = "due" ~> (job[c] # "due" \/ c \in excused \cup late \/ ~enabled))

\* A run ends, however many changes keep being completed meanwhile.
RunsEnd == \A w \in Workers : run[w].pc # "off" ~> run[w].pc = "off"
=============================================================================
