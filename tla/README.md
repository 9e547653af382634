# A TLA+ verification project for IdleProof

IdleProof (`src/`) runs beside a coding assistant.  Short hook processes of the
IDE record what the assistant changed; a completed change gets an identity (a
`dwchg_…` of exact Git trees); its software debt can be measured by the external
Core command (`dw`) in detached worker processes, and its receipts, the project
memory and snapshots are sent to a remote Portal.  There is no database, and the
one long-lived process, the local server, owns no file: every part is a set of
Node processes that meet only in files under `.idleproof/`.  What is hard is
therefore what happens *between* those processes: who holds which lock, what was
read before a lock was released, what a process that died left behind, what is
retried and what is never done twice.  That is what these modules model.

## Contents

| Module | Models | Run |
|---|---|---|
| `AutoDebtQueue` | the automatic debt queue: hooks, commands, workers, crashes | `queue_…` |
| `ChangeLedger` | abstract: the standing of a change only moves forward | `queue_hooks` |
| `AutoDebtWorker` | the run loop of a worker, and who takes the jobs of a worker sent away | `worker_…` |
| `OwnedLock` | the owner-verified lock, one file system call per step | `lock` |
| `OwnerMutex` | abstract: a mutex nobody takes from a live process | `lock`, `project` |
| `PortalQueue` | the delivery queue and its flushes | `delivery`, `project`, `progress` |
| `AtLeastOnce` | abstract: what is accepted waits until it was received | `delivery` |
| `AssuranceReceipts` | one receipt per measurement, across rebuilds, deaths and enrollments | `receipts` |
| `MemorySync` | the export of the memory journal: cursor, pages, requests, resyncs | `sync`, `project`, `progress` |
| `AckedHistory` | abstract: only what the Portal holds is called acknowledged | `sync` |
| `MemoryPage` | how one page is composed within its bounds | `project` |
| `PortalSnapshot` | how a snapshot is cut to its limits and its budget | `project` |
| `PortalEnrollment` | configure, disconnect and reset | `project` |
| `AgeLock` | the locks that are taken over by age | `project`, `progress` |
| `LocalState` | state file, backup, load, save, repair | `project`, `progress` |
| `ProvenanceChain` | the flight recorder: append, cached verification, signature | `project` |
| `ToolGate` | a tool call at the policy gate, with approvals | `project` |
| `SessionTasks` | sessions, tasks, baselines and completed changes | `project` |
| `StopGate` | the native runners around a Stop, with DiffWitness | `project` |
| `CodexBridge` | `idleproof codex` against Codex and its native hooks | `project`, `progress` |
| `Installer` | integration install and uninstall, adapter by adapter | `project` |
| `FeatureMemory` | one feature: drift, observations, checks, reviews | `project`, `progress` |
| `Lessons` | selection, snooze, answers and Knowledge Debt | `project`, `progress` |
| `LocalServer` | start, stop and the record of the background server | `project` |
| `Attestation` | identity, acceptances, attestation and evidence bundle | `project` |
| `WorkPrune` | the pruning of kept measurements, step by step | `project` |
| `Subsequences` | the ends and the filtered parts of the lists in the files | |
| `AutoDebtQueue_proofs`, `AutoDebtWorker_proofs`, `OwnedLock_proofs`, `AssuranceReceipts_proofs` | the theorems about the module each is named after | |
| `Project_proofs` | the theorems about `MemorySync`, `LocalState`, `ProvenanceChain`, `StopGate`, `WorkPrune`, `CodexBridge` | |
| `Settings_proofs` | the theorems about `PortalQueue`, `ToolGate`, `SessionTasks`, `PortalEnrollment`, `Attestation`, `MemoryPage`, `PortalSnapshot`, which `MCProject` runs with more than one setting, or beside one that it does | |
| `MCProject_proofs` | from those, the properties of the run `project` | |
| `Subsequences_proofs` | lemmas about lists and places in them | |
| `MC…` and `*.cfg` | model values, symmetry and bounds of the runs | |

`PROJECT.json` maps every definition to the lines it stands for, and lists the
runs, the mutants that show each property can fail, the hazards, and the findings.

## Inventory

For each component: the state it keeps, its operations, how others reach it, what
is hard, and what makes it correct.

**Automatic debt queue** (`src/src/auto-debt.mjs`, `ide-assurance.mjs`,
`bin/idleproof-hook.mjs`; docs in `docs/AUTO_DEBT.md`).  State:
`auto-debt.json` (configuration), `auto-debt-jobs.json` (jobs with state,
attempts and backoff; identities measured, skipped and dropped), and per change
`auto-debt/<change>/bound.json` and `receipt.json` (a measurement already taken).
Operations: enable, disable, enqueue, keep a native measurement, settle, take a
job, measure it, write its outcome, prune.  Reached by hooks, by `portal
assurance`, by workers, by `reset`.  Hard: Core runs for minutes outside the
queue lock; every process may die at any point; the same change is presented by
several routes in any order; lists are bounded; pruning holds no lock.  Correct
when no admitted change is lost or misreported, one job exists per change, Core
measures a change once, and nothing is queued after a disable or reset.

**Automatic debt worker loop** (`runAutoDebtWorker`, same file).  State: the
worker lock, and each run's own counters.  Nothing polls: a job no run takes
waits for the next trigger.  Hard: a worker that finds another one running
leaves, so the other one has to take its jobs; deliveries use the same lock.
Correct when the last worker to leave leaves no due job without a reason, and
every run ends.

**Owner-verified lock** (`src/src/portal-memory-lock.mjs`).  State: a lock
directory with an owner file, claims of evictors, all of them on disk.
Operations: acquire (3 s), release, evict the lock of a dead process.  Used for
the worker lock, the queue lock, the receipt history and the memory cursor.
Hard: eviction is a check followed by a removal by several processes that may
die between any two calls.  Correct when it is a mutex that is never taken from
a live process, and a dead one never keeps others out.

**Portal enrollment** (`portal-client.mjs`, `portal-cli.mjs`, `cli.mjs`).
State: the enrollment file, and the project identity in the state.  Operations:
configure (three attempts and a rollback), disconnect, status, reset by moving
or by deleting the directory.  Hard: a reset moves the lock with the directory.
Correct when an enrollment is reported only with the identity it belongs to.

**Portal delivery queue** (`portal-client.mjs`, `portal-ingest-ack.mjs`).
State: a queue of at most 200 snapshots, the time each was first built with, the
identities the Portal holds with another body, a health record.  Operations:
queue (hooks, `portal sync`, receipts), flush.  Hard: a flush posts without the
lock; answers are lost or about something else; the enrollment changes; two
files change one after the other; the queue is full.  Correct when a snapshot
leaves the queue only if the Portal has it, and nothing lost is hidden.

**Portal snapshots** (`portal-snapshot.mjs`).  No state: a snapshot is cut to
limits per list, loses the relations of rows it lost, warns of what is missing,
and gives up memory until it fits 64 KiB.  Correct when what is missing is said.

**Assurance receipts** (`portal-assurance.mjs`).  State: the bounded history of
receipts sent.  Hard: it is one file and the queue another, under two locks, and
a receipt rebuilt has a new identity.  Correct when one measurement is one
receipt per enrollment.

**Portal memory sync** (`portal-memory-sync.mjs`).  State: a cursor into the
memory journal, tied to the enrollment, with the pending page.  Operations:
sync, resync, status.  Hard: requests outside the lock, journals rewritten,
acknowledgements lost or late, several syncs.  Correct when the cursor never
passes an event the server does not hold.

**Local project state** (`state.mjs`, `recovery.mjs`).  State: `state.json`, its
backup, a lock taken over after 30 s.  Operations: load, save, repair.  Correct
when no event is overwritten and a crash leaves a state that loads.

**Provenance chain** (`provenance.mjs`).  State: an append-only hash chain, its
checkpoint and its verdict cache, under a lock taken over after 60 s.  Correct
when a chain the code itself wrote verifies, and one that lost a line does not.

**Attestation and responsibility** (`attest.mjs`, `evidence.mjs`,
`ownership.mjs`).  State: the key pair, the acceptances, an attestation, a
bundle; no lock.  Correct when a signature verifies and speaks of one change.

**Policy approvals** (`policy.mjs`, `hook.mjs`).  State: the profile, approvals
with a number of uses.  Correct when a use is counted once and `strict` records.

**Hook lifecycle and change identity** (`hook.mjs`, `task.mjs`,
`change-identity.mjs`).  State: sessions, tasks, baselines, the records of
completed changes.  Correct when a change is recorded once, for its task.

**Native stop gate** (`bin/idleproof-hook.mjs`, `cursor-hook-cli.mjs`,
`diffwitness-bridge.mjs`).  Correct when what DiffWitness blocks is neither let
through nor queued.

**Codex bridge** (`codex-bridge.mjs`).  Hard: Codex does not wait for it, and
native hooks may speak for the same session.  Correct when the baseline is older
than the work and the work is completed.

**Feature memory and history** (`feature-*.mjs`).  State: rows of features, an
archive of observations.  Correct when a review that resolves a drift was asked
about the recorded model.

**Learning, delivery and snooze** (`learning.mjs`, `delivery.mjs`,
`snooze.mjs`).  State: a ledger of concepts.  Correct when a card moves on and
only answers move the debt.

**Installers and integrations** (`install*.mjs`,
`diffwitness-integration-*.mjs`).  State: the hook files of three agents, a
rule, two configurations, the Git exclude file.  Correct when a failed install
leaves nothing.

**Local server** (`server.mjs`, `cli.mjs`).  State: `server.json`.  Correct when
a stop ends the server and no other process.

**Not modelled**: analysis and explanation, continuity exports, the user
interface and scripts; see below for the reasons.

Interactions: a hook runs the lifecycle, which mutates the local state and the
provenance chain; a Stop then offers DiffWitness's measurement to the automatic
debt queue and to the delivery queue, settles, enqueues, and starts a worker; a
worker takes jobs, runs Core, and puts receipts in the delivery queue, which it
flushes under the worker lock; a flush that succeeds starts a memory sync; the
server answers checks and reviews by mutating the local state under its lock;
`reset` moves the whole directory while holding the worker lock and then the
queue lock.  Where a module meets another one it takes the other's promise: the
locks as `OwnerMutex` promises and `OwnedLock` shows, the delivery queue in
`AssuranceReceipts` as `PortalQueue` answers, the queue in `StopGate` as an
admission.

## AutoDebtQueue

**State.**  `config` is the configuration file; `order` and `job` the jobs of
the queue file (a change without a job has `NoJob`); `measured`, `skipped`,
`dropped` its identity lists; `bound` and `receipt` the files kept beside the
jobs; `wlock` the worker lock; `worker` and `hook` the program counters of the
processes.  `presented` (changes that reached admission) and `runs` (Core
measurements kept) are history: no action reads them.

**Atomicity.**  Every hold of the queue lock is one step, because `withJobs`
reads the file, changes it and renames the new one over the old one; the only
effect that is visible before the rename, the kept receipt, has its own crash
action (`KeepInterrupted`).  Everything between two holds is a step boundary: the
hook that read the configuration (`ReadConfig`) and admits later (`Enqueue`);
the worker that takes a job (`Take`), reads what is kept (`ReadKept`), runs
Core (`CoreMeasures`, `CoreFails`), correlates, queues the receipt, and writes
the outcome (`Apply`).  A worker dies at any of these points (`RunEnds`): its
lock is free again and its job stays `measuring`.  Both locks are held as
`OwnerMutex` promises and `OwnedLock` shows.

**What is left open.**  Core's answer, the session history and Portal's queue
are nondeterministic; so are the passing of a backoff, which kept files beyond
the latest 64 go, and which failed job is the oldest.  The details of `done` and
`skipped` records, times, error texts and the `dw` path are left out: no
property depends on them.  `KEPT_WORK_DIRS` is abstracted by letting any kept
file of a change without a job go.  `pruneWork` is one step with the lock hold or
delivery before it; `WorkPrune` takes it apart.

**Runs.**  Two changes, and limits of one open and one failed job, make a full
queue, a dropped failure and their return reachable in a few steps: a third
change would repeat the part of one of the two.

- `queue_hooks` (two hooks, one worker, one attempt): `OneJobPerChange`,
  `NothingLost`, `NoStaleRecord`, `QueuedOnlyWhileEnabled`, and the refinement
  of `ChangeLedger`.  Two hooks are needed for a stale configuration and for the
  same change arriving by two routes.
- `queue_workers` (two workers, one hook, two attempts): `WorkerOwnsItsJob`,
  `OnlyTheWorkerEndsIt`, `MeasuredOnce`, `MeasuredJobKeepsIt`,
  `NeverMeasuredAgain`, `AttemptsLeft`, `FailedBounded`.  Two workers are needed
  for one to die and the other to recover its job; two attempts for a retry that
  is not the last.
- `queue_settle` shows the first finding below.

All three use the specification without fairness: their properties are safety.

## AutoDebtWorker

The run loop with the queue reduced to whether each job is due: `TakeJob` to
`JobEnds`/`JobWaits` are one hold of the worker lock; `Drain…` and `Flush…` the
deliveries, which hold it too; `NextPass`, `RunCapped`, `RunEnds` the end of a
pass.  A `Trigger` queues a change and starts a worker (`spawned`), which
`Begin`s later.  A run that finds the lock held for 3 s is `TakeBusy`.  A run
that fails on the queue lock ends as a death does (`Dies`).  `Disable` stands for
`reset` too; retries of failed jobs (`--retry-failed`) add jobs to one run only
and are left to `AutoDebtQueue`.  `excused` and `late` are history: the jobs
left behind for a documented reason, and those left behind the delivery of a run
that had itself been sent away.

- `worker_attended` (two changes, two workers, at most two jobs a run, one
  process spawned and not begun): `JobsAttended`.  Two workers are the ones of
  the claim; two jobs a run separate "the run took another" from "the cap".
- `worker_live` (one change, cap one): `EventuallyTaken` and `RunsEnd` under
  weak fairness of the start of a spawned process and of each worker's own steps.
  The code justifies it: Core, Git and every request have a time limit, waiting
  for a lock ends after 3 s, and the loop is sequential.  Triggers, deaths,
  enabling and backoffs are not fair.
- `worker_lost` shows the second finding.

## OwnedLock

One action per file system call of `acquireOwnedLock`, `tryEvict` (nested to any
depth, as a stack of frames), `removeLock` and the release, with a process able
to die between any two.  A lock directory is `Absent`, `Empty` (its owner file
was unlinked) or holds the token of its owner; renaming a directory onto an empty
one succeeds or fails, as platforms differ.  The claim on an instance is named
after it.  A dead process is not always proved dead (`LeaveHeld`,
`LeaveClaim`), and a live one never is.

- `lock` (three processes, two deaths, where a death is proved at once): the lock
  implements `OwnerMutex`, `InsideOwnsLock`, `EvictsOnlyTheDead`, and
  `OrphanRecovered`.  Three contenders race for the lock of a dead one and may
  acquire, release and come back; two deaths are what a claim left by a dead
  evictor needs, and its recovery is a nested eviction (`JudgeClaimGone`).
  `OrphanRecovered` is under weak fairness of each live process; starting an
  acquisition is not fair.  With `AlwaysProved` the PID of a dead process is free:
  where its death is not proved, the code keeps the lock held on purpose, and
  there is nothing to recover.  The safety properties are proved for that case
  too, and for any number of processes, deaths and nested claims.

`MaxTokens` bounds the instances of one process in use at the same time.  Three
let a process hold the lock token, a claim and a nested claim.

## How the runs are built

Where a component is a protocol of several processes, it has runs of its own: the
automatic debt queue, its worker, the lock, the delivery queue, the receipts and
the memory export.  The others share two runs, `project` (`MCProject`) and
`progress` (`MCProgress`): each module is instantiated once or more with small
constants, a variable `part` is chosen in the initial state, and a behaviour runs
that part alone while every other part keeps its initial state.  Nothing is
composed by this: the parts share no file, except that two instances of one
module, which differ in constants, share its variables.  A property of such a run
is a conjunction of statements `part = "…" => …`, one for each component's own
properties, named and commented in the component's module; a liveness property
has the form `part = "…" /\ Fairness => …`, so that every part is checked under
its own fairness only.  `CHECK_DEADLOCK FALSE` because most parts may stop: their
counters are bounded and their processes end.  The same holds of the runs
`delivery`, `receipts` and `sync`.

Each property of each run has one mutant in `PROJECT.json`, an operator
`…  \* mutant: …` beside the definition it changes, which is used nowhere else.

| Run | Parts | Distinct states | Time (2 workers) |
|---|---|---|---|
| `queue_hooks` | | 0.71 million | 40 s |
| `queue_workers` | | 1.36 million | 45 s |
| `worker_attended` | | 2.95 million | 40 s |
| `worker_live` | | 0.15 million | 30 s |
| `lock` | | 0.22 million | 50 s |
| `delivery` | | 1.22 million | 30 s |
| `receipts` | | 0.27 million | 10 s |
| `sync` | | 1.01 million | 90 s |
| `project` | state, chain, gate, tasks, trimmed, stops, installs, feature, bridge, server, lesson, put off, calm, crash, at once, prunes, queue, pages, composer, snapshot, enrollment, forced | 3.07 million | 3 min |
| `progress` | queue, flushes, sync, state, lock, feature, lesson, bridge | 0.12 million | 1.5 min |

Symmetry is over processes only, and `progress`, whose properties are liveness,
uses none.

## The delivery queue and what is sent

**PortalQueue.**  `config`, `queue`, `times`, `held`, `health` are the files;
`proc` the callers (a hook, `portal sync`, a caller that retains its snapshot, a
flush) with the enrollment they read; `portal` what each destination has
received.  A hold of the queue lock is one step; what is read before it
(`Prepare`, the reads of a flush) and the posts are steps of their own.  Where
one hold writes two files and a process may stop in between, the step exists in
an interrupted form (`CommitInterrupted`, `ConflictInterrupted`).  A snapshot's
id covers its content and not `generatedAt`, so the same id may be built again
with another time, which the Portal refuses with a conflict; a clock of two or
three values is enough for that.  The server is external: it accepts, answers
duplicate, conflict or an error, and its answer may be lost or name another
snapshot.  `lost` is history.
Properties: `DeliveryIsTrue` (a success reported means that the destination has
the snapshot; `held` names only what it has; a healthy status only when nothing
refused is lost; one body per snapshot; no doubles in the queue) and
`ImplementsAtLeastOnce`, the refinement of `AtLeastOnce`.

- Run `delivery`: two callers that may stop anywhere, two snapshots, one of which
  an earlier client may have sent, a queue of one, and a project that is enrolled
  and disconnected while they run.
- Part `queue` of `project` keeps the enrollment, because what a reported success
  means is stated for one destination only (`~Reconfigure => SyncOkDelivered`): a
  snapshot queued for one destination and delivered to the next is a success
  that the first never saw.
- `OneBody` is stated where every snapshot's time is remembered
  (`Cardinality(Snaps) <= MaxTimes`): past that the code forgets the oldest time
  and may build the same snapshot anew.

**MemorySync.**  `journal` is a sequence of events, and a head hash stands for
the prefix it ends; `cursor` is the cursor file; `net` the requests that may
still reach the Portal, timed out ones included; `proc` the calls of
`syncPortalMemory` and `resyncPortalMemory`.  Each guarded update of the cursor is
one step under the memory lock; reading the journal, sending, and the answer are
others, and enrollment, journal and cursor may change in between.
`ImplementsAckedHistory` is the refinement of `AckedHistory`: on one stream (an
enrollment, a journal, an epoch) what is called acknowledged is held by the
Portal and only grows.  `SyncIsTrue`: `up to date` is so for the enrollment
asked about, and a terminal status is not overwritten by the answer of an
earlier request, except between two requests for one stored page of which one is
refused (see *Disagreements*).  `PendingContinues`: the stored page continues the
cursor it is stored with.

- Run `sync`: two syncs, one enrollment that may be left, a journal that is
  replaced, stops, losses, refusals and resyncs.  `FewRequests` bounds the
  requests under way at once: two, which is what a late answer needs, and one
  after the enrollment or the journal has changed.  `MaxChanges` is two, so that an
  enrollment can be left and taken up again.
- Part `pages` of `project`: a journal that outgrows a page, calls that stop, no
  resync.  It also has `OneBody`: a page id has one body.  That is not claimed
  elsewhere: a project that is disconnected and enrolled again starts the same
  stream anew, and builds its pages anew.

**MemoryPage** is the search by halves in `buildMemoryPage` and the trimming of
an event that exceeds a page by itself, for every list of up to five events of
six shapes: each event is represented or counted, nothing is dropped without
being counted, and the page is the longest prefix that fits.  What the code adds
up (items, dropped relations, bytes) is here the size of a set of places: the
`k`-th item of the `i`-th event, the `b`-th byte of an item.  A sum over a list
is a definition by recursion, about which nothing could be proved; the size of a
set is the same number, and the library has its theorems.

**PortalSnapshot** follows one snapshot through `safeContinuityMemory`, the
coverage warnings, the byte budget and the final check.  A row is a size, the
paths it names, the rows it relates and whether its identity may be told; four
of the nine lists are enough to have one before, one after and one with paths.
No list is ever reordered, so that what is left of one is a set of places in it,
its first rows are those of least rank, and the bytes held are a set as above.
The properties: whatever is missing, a row, a relation or a path, a warning says
so that neither the memory's own warnings nor later ones push out
(`NothingOmittedSilently`: the list of warnings is full in the instance); no
relation names a row that is gone, though rows go last for the budget
(`NoRemovedEndpoint`); memory never makes a snapshot refused, and tasks go last
(`MemoryYieldsInOrder`).  The texts, their redaction and the hash are left out.

**AssuranceReceipts.**  `sent` is the bounded history, `queue` and `got` the
delivery queue and the destination as `PortalQueue` has them.  Two senders build
the same measurement under new ids, look it up, record it, queue it and confirm
it, each a step; one may die anywhere.  `ReceiptsAreOnce`: one measurement is
one receipt per destination, what was sent is remembered, the only copy of a
body is kept, and an accepted receipt is queued or delivered.

**PortalEnrollment.**  `configure` in its three attempts, the rollback, the
status, `disconnect`, and a reset that moves the directory (part `enrollment`)
or deletes it file by file (part `forced`).  A configure, a rollback or a
disconnect whose memory lock stays busy for 3 s throws (`LockBusy`); it does in
part `forced`.  `EnrollmentIsOwn`: a configure that ends with
`IDLEPROOF_PORTAL_IDENTITY_UNSTABLE` leaves no enrollment of its own, one that
succeeds reports its own, and, in part `enrollment`, an enrolled project has its
identity.  A configure that throws at the busy lock itself may leave what an
earlier attempt saved (see *Disagreements*).

## What a project keeps

**AgeLock, LocalState, ProvenanceChain.**  A lock is the process that created
it; a waiter reads its age in one step and removes it in another; a release
removes whatever is there.  In `LocalState` a hook loads, copies the old file to
the backup, replaces the state and releases, each a step at which it may die;
files are damaged or written by a newer version; `repair` inspects and restores
in two steps without the lock.  In `ProvenanceChain` an append writes its line
and then the checkpoint, and may tear; a verifier reads both files through caches
keyed by their stamps; a signer signs its verdict; one edit by hand may happen.
`StateKept` and the chain's part of `EvidenceIsTrue` say what survives, and that
both locks implement `OwnerMutex` as long as no live holder outlasts the age and
no two waiters meet a dead holder.  With two waiters neither excludes (see
*Disagreements*).

**Attestation.**  The key pair, its record, the acceptances, the receipt, the
attestation and the bundle are files without a lock; each read and each write is
a step.  Part `calm` runs processes one after another: the attestation is current and
names exactly the people who accepted.  Part `crash` adds deaths: what was
signed verifies and is about one change.  Part `at once` runs a person and a
Stop together: nobody is reported to have accepted what they did not.

**ToolGate.**  `PreToolUse` from the read of the profile to the answer: rules as
a table of effects, approvals read, used and written back, the recorder, the
strict check, the state update that may throw.  The approvals file has no lock:
in the part two calls and the commands that approve run at once, and the
recorder and the state may fail.  A process that writes back what it read before
another used an approval gives that use back; `regained` counts these, and
`CallsArePaid` says that a call the policy stops is answered with a pass at most
as often as it was granted and as overlapping writes gave uses back, and that a
hook that answers under strict denies what it could not record.  A hook that
throws has no answer (`StateThrows`), and the property says nothing of its call.

**SessionTasks.**  One action per locked state update of the lifecycle:
`SessionStart`, prompt, `Stop`, and the trimming of histories (12 tasks, 20
completed changes, 30 sessions, here one or two).  A change id is the pair of
its trees.  `TurnsAttributed` also has the bridge's part.

**StopGate.**  The runners of Claude, Codex and Cursor: record, ask DiffWitness,
read the receipt, queue the change.  DiffWitness is external.  `StopsAreJudged`
also has `WorkPrune`, below.

**CodexBridge.**  Codex writes lines and runs native hooks (external), the bridge
reads late; a lifecycle event is one locked update.

**Installer, LocalServer.**  A command changes one file at a time and may throw,
restore or be killed; a server's record outlives it and its process id may belong
to anyone.  `CommandsAreWhole`.

**FeatureMemory, Lessons.**  The source takes versions; a hook records the model
of the current one in the row and the archive; a check or a review is shown,
judged, and written under the lock later.  Lessons are scored with the code's
arithmetic in hundredths; the times it compares with are the steps of a clock.
`AnswersCount`.

**WorkPrune** takes apart what `AutoDebtQueue` does in one step: it reads the
queue, lists directories, reads ages and removes, while changes are admitted,
measured, dropped as failed, and admitted again.  `lapsed` are the changes that
were dropped with their directory left.  A change queued for the first time loses
nothing to any prune; a lapsed one may, if it comes back while the prune is
between its reads, and is then measured again.

**Bounds.**  Two processes, two or three identities, and limits of one or two
everywhere: each hazard listed is between two actors and one resource that is
full, empty or lost.  A third appears where two of a kind have to differ from a
third: three trees for a history that is trimmed, three events of a journal for a
page that is followed by another, three measured versions for an observation that
leaves its window.  What was cut first to keep a run short is the number of
deaths and damages (one or two), never a step.

**Fairness** (`progress` only).  `PortalQueue`: a call that runs goes on, flushes
keep being started, and a post that is tried again and again is answered once
(strong fairness of `StartFlush` and `Answering`); the code starts a flush at each
hook and each has time limits.  `MemorySync`: the same for calls and reads.
`LocalState`, `AgeLock`: time passes, live processes go on, and a waiter that
looks at the lock again and again once finds it old.  `CodexBridge`: the bridge
goes on, and Codex does until it ends.  `FeatureMemory`, `Lessons`: a user who
keeps answering, and answers right; nothing is promised to others.  Deaths,
stops, damages, edits, enrollments and resyncs are never fair.

## Findings

1. **A job left by a dead worker is not settled.**  `settleJob` refuses every
   job in state `measuring` (`auto-debt.mjs:327`), also when its worker died.
   `docs/AUTO_DEBT.md:87-91` excepts only a job "a worker is measuring at that
   moment".  Run `queue_settle`: a worker takes the job and dies, a receipt is
   accepted, nothing is settled, and the next worker measures the change.
2. **Two workers can send each other away.**  A worker that finds the lock held
   takes no jobs but stays to deliver waiting receipts, under the same lock
   (`auto-debt.mjs:675`, `703`).  The running worker can find *that* lock held
   between two of its jobs, and leave as well.  A due job is then left until the
   next trigger, where `docs/AUTO_DEBT.md:28` says the running one takes it.  Run
   `worker_lost`; `JobsAttended` holds with this one case
   excepted: in the same instance there is no other.

### Disagreements the properties leave out

While modelling, more places turned up where the code departs from what a
document, a comment or a test says of it.  Most are reached by a constant of
their module that the instances above exclude, so that the properties state what
holds without it; setting the constant shows the case, as named.  Where the
instances have the case, the row says what the property excepts.

| Constant | What happens then |
|---|---|
| *(two syncs answered differently)*, `MemorySync` with `Happens` containing `"identity"` | A late 200 sets a page `active` again after another sync recorded its identity conflict (`portal-memory-sync.mjs:646`); `:502` says no later result overwrites a terminal status, which is so for one request only. `TerminalStays` |
| `Repair = "any"`, `LocalState` | `repair` puts the backup over a state a newer version saved in between (`recovery.mjs:92`; `:71` says it will not downgrade). `NeverDowngraded` |
| `EnrolledHasIdentity` asked of `ByFile = TRUE`, `PortalEnrollment` | A forced reset deletes file by file (`cli.mjs:203`): one between the steps of a configure leaves an enrollment whose identity is gone, where the moving reset leaves none. `EnrolledHasIdentity` (the run asks only `ThrowLeavesNothing` and `ReportsOwn` there) |
| `ThrowLeavesNothing` asked of `busy` as well, `EnrolledHasIdentity` of `Busy = TRUE`, `PortalEnrollment` | A later attempt, or the rollback, finds the lock held for 3 s and throws (`portal-client.mjs:206`, `:214`): what an earlier attempt saved and no read confirmed stays, where `:196` says it is removed again. Part `forced` has busy locks; the property speaks of configures that end with an unstable identity |
| three processes, of which one dies, `LocalState` | Two hooks read the age of a dead lock, the second removes the lock the first has just taken (`state.mjs:63`), and an event is overwritten; `:13` promises recovery "without dropping events". `NothingOverwritten`, `Mutex` |
| `ran[a] <= given[a]` asked of `Parallel = TRUE`, `ToolGate` | Two hooks use the same last approval (`policy.mjs:67`; `docs/THESIS.md:87` lists one-time approvals). The run has it, and `BlockedRunsArePaidFor` counts the uses given back; with `Parallel = FALSE` there are none |
| `StrictFailsClosed` asked of hooks that throw, `ToolGate` | The state update throws after the recorder did, and the runner prints a warning without a decision (`hook.mjs:171`; `SECURITY.md:18` says strict fails closed). The run has it; the property speaks of hooks that answer |
| *(edits between the turns)*, `SessionTasks` | The baseline is captured once per session, so a task's change holds edits from before it (`hook.mjs:183`, against `change-identity.mjs:96`); the properties speak of the task of the turn. |
| `Overlap = TRUE`, `StopGate` | Another session's envelope is read after DiffWitness answered, and the change is queued without its receipt (`ide-assurance.mjs:32`; `docs/AUTO_DEBT.md:18`). `QueuedWithItsReceipt` |
| `Standalone = TRUE`, or three commands with fewer agents in the second install, `Installer` | The configuration lists the adapters of the last install only: install for one agent, install for another, uninstall leaves the first one's hooks without a configuration (`diffwitness-integration-install.mjs:111`). The instance has `MaxCommands = 2`. `HooksAreGated` |
| `Edits = TRUE`, `Installer` | A failed install writes back old bytes over the user's edit (`diffwitness-integration-install.mjs:67`). `UserEntriesKept` |
| `Overlap = TRUE`, `FeatureMemory` | A check judged before the lock overwrites the newer model a hook recorded (`server.mjs:213`). `RefreshEarned` |
| `Vias` with `"cli"` and wrong picks, `FeatureMemory` | `idleproof review --answer` judges a position against a question nobody saw (`learning-cli.mjs:102`). `ScoredAsPicked` |
| a version that only removes, `FeatureMemory` | No drift target, so its review resolves nothing and stays due (`feature-review.mjs:84`). `Refreshed` |
| `Flaky = TRUE`, `CodexBridge` | A native Stop that fails leaves the work uncompleted (`codex-bridge.mjs:218`), and one between the bridge's two updates completes it from the late baseline (`:159`). `WorkCompleted`, `NoOwnWorkBefore` |
| `Slow = TRUE` or `Overlap = TRUE`, `LocalServer` | A server that misses the probe, or the first of two started at once, is left running by a stop (`cli.mjs:176`, `:153`). `StopStops` |
| four events of a concept against one, `Lessons` | Scores tie and the concept just answered is asked again (`learning.mjs:213`). `AsksAnother` |
| `Early = TRUE`, `Lessons` | Answers before the first exposure become debt at that exposure (`state.mjs:284`). `OnlyAnswersMoveDebt`.  A first right answer raises the debt as well (`:297`). |
| `Made = FALSE` and `Alone = FALSE`, `Attestation` | Two processes make the identity together and later signatures fail (`provenance.mjs:190`); a report is about another receipt than the subject (`attest.mjs:15`). `SignaturesVerify`, `OneChange` |
| `KeptForJob` asked of lapsed changes, `WorkPrune` | A change dropped, queued again and measured between a prune's reads loses its measurement (`auto-debt.mjs:446`; `docs/AUTO_DEBT.md:96`). The run has it, and the property excepts the lapsed |

## Proofs

Each theorem is about the `Spec` a run checks, for every value of the constants
that satisfies the module's assumption: any sets of processes, changes,
snapshots, destinations, measurements, enrollments, journals, memories and
histories (finite only where said), and any bounds.  The assumptions ask that
bounds are numbers, or positive where the code has at least one, and that `None`
is no value; they are named after their module (`ConstantsAssumption` in
`AutoDebtQueue`).  Changes are a finite set in `AutoDebtQueue`;
`DeliveryToldTruly` also asks that the snapshots are, because it counts them.
TLC checked each theorem's property, and each inductive invariant, on an instance
first.

The five last modules of `Project_proofs` and the six last of `Settings_proofs`
are instances with constants and variables of their own (`State`, `Chain`,
`Stops`, `Prunes`, `Bridge`; `Gate`, `Tasks`, `Enrollment`, `Attest`, `Composer`,
`Snapshot`); their theorems name the property as `State!DamageCostsOne`.

| About | Inductive invariant | What is proved | Hypotheses besides the assumption |
|---|---|---|---|
| `AutoDebtQueue` | `TypeInv`, and relative to it `RecordsInv`, `ListInv`, `OneMeasurement` | all properties of its two passing runs, `ImplementsLedger` among them | |
| `AutoDebtWorker` | `LoopInv` | `TypeOK`, `JobsAttended`, the lock is held while working | |
| `OwnedLock` | `LockInv` | `TypeOK`, `InsideOwnsLock`, `EvictsOnlyTheDead`, `ImplementsMutex` | |
| `AssuranceReceipts` | `RInv` | `TypeOK`, `ReceiptsAreOnce` | |
| `PortalQueue` | `PInv`, then `BodyInv` and `SyncInv` | `TypeOK`, `ImplementsAtLeastOnce`, `DeliveryIsTrue` | |
| `MemorySync` | `SyncInv`; `BodyInv` while nothing changed | `TypeOK`, `PendingContinues`, `SyncIsTrue`, `ImplementsAckedHistory`; `OneBody` | for `OneBody`: `changes = 0` |
| `LocalState` | `StateInv` | `TypeOK`, `NothingOverwritten`, `NeverDowngraded`, `DamageCostsOne` | `~Slow`, `Repair # "any"`, `[]StateOneWaiter` |
| `ProvenanceChain` | `ChainInv` | `TypeOK`, `ChainIntact`, `TornStaysVisible`, `FreshVerdictTrue`, `SignedWasTrue` | `~Slow`, `[]ChainOneWaiter` |
| `StopGate` | `GateInv`, then `CalmInv` | `TypeOK`, `StopsAreJudged`; `QueuedWasAccepted`, `QueuedWithItsReceipt` | for the last two: `~Overlap` |
| `WorkPrune` | `PruneInv` | `TypeOK`, `KeptForJob`, `LatestStay` | |
| `CodexBridge` | `BridgeTypeInv`, `Flow`, `WorkInv` | `TypeOK`; `NoOwnWorkBefore`, `WorkCompleted` | for the last two: `~Flaky` |
| `ToolGate` | `TypeInv`, then `PaidInv`, `OneAtWork` and `ClosedInv` | `TypeOK`; `BlockedRunsArePaidFor`, and that nothing is given back by one process at a time; `StrictFailsClosed` | |
| `SessionTasks` | `TaskInv` | `TypeOK`, `OneRecordEach`, `HistoryIsRecent`, `RecordedForItsMaker` | |
| `PortalEnrollment` | `EInv`, then `RInv` | `TypeOK`, `ReportsOwn`; `ThrowLeavesNothing`; `EnrolledHasIdentity` | for the third: with `ByFile` more than two attempts or fewer resets than attempts; for the last: `~Busy`, `~ByFile` |
| `Attestation` | `AttestTyped`, `Consents`, `Keeping`, `Keys`, `AttestChanges`, `UpToDate` | `TypeOK`, `OnlyConsented`; `AcceptancesKept`; `SignaturesVerify`, `OneChange`; `AttestationCurrent` | `[]OneStoring` for the third; `OneByOne` for the next two; also `Crashes = 0` and `[]Few` for the last |
| `MemoryPage` | `PageInv` | `TypeOK`, `EveryEventAccounted`, `NothingDroppedSilently`, `LongestPrefix` | |
| `PortalSnapshot` | `SnapInv` | `TypeOK`, `NothingOmittedSilently`, `NoRemovedEndpoint`, `MemoryYieldsInOrder` | |
| `MCProject` | those above | `StateKept`, `EvidenceIsTrue`, `CallsArePaid`, `TurnsAttributed`, `StopsAreJudged`, `EnrollmentIsOwn`, `SentIsTrue` | |

A hypothesis on a constant is a case the table of disagreements shows to fail, or
one that excludes it.  `StateOneWaiter` and `ChainOneWaiter` (no two processes
wait for the lock of a dead one) exclude the double eviction of the table; that two processes are never two waiters is proved
(`StateTwoProcessesSuffice`, `ChainTwoProcessesSuffice`).  That the two age locks
implement `OwnerMutex` is a lemma under these hypotheses, used for `MCProject` and
not listed as a result: their mutual exclusion fails in exactly the cases the
hypotheses leave out.  `OneStoring` (no two acceptances are stored at the
same moment) and `Few` (all that was accepted fits the file) are discharged in
the same way: `OneStoresAtATime` from `OneByOne` or a single person, `Few` from
the numbers of people and changes.

**AutoDebtQueue.**  `TypeInv` strengthens `TypeOK` with what the steps rely on: a
worker past `Take` has the worker lock and its job is `measuring`, a hook in
progress has a change, an open job has attempts left.  Ownership has to be in the
same induction as the types, because the outcome a worker writes is a job only if
the job it took is still there.  `RecordsInv` says that nothing presented is lost
and no record is stale; the refinement of `ChangeLedger` uses it to show that each
step advances the standing of every change or is a reset.  `ListInv` (one entry
per job, failed jobs within their bound) rests on what removing one entry of a
list without repetitions leaves.  `MeasuredOnce` alone is not inductive: that Core
does not run again rests on what is on disk when a worker reads it.
`OneMeasurement` says so: a change Core measured is recorded as measured, or its
job is still open with the measurement kept beside it; and what a worker knows at
each step agrees with the files.

**AutoDebtWorker.**  `JobsAttended` speaks of the moment no run is left.
`SomeoneAttends` says what holds at every moment: while a due job has no excuse, a
process is spawned or a run is under way that will look at the jobs again or
excuse them.  A run that was sent away does neither, unless it is delivering, and
the lock it was sent away by is held by a run that does.

**OwnedLock.**  `LockInv` says of each process what the directories say of it: who
is inside is named by the lock directory; an evictor between making its claim and
removing it is named by the claim; and past its check the directory still names
the dead instance it judged.  The last needs the second: two evictors of one
instance use one claim, so only one is past its check.  The lemma `OthersKeep`
shows once that a step of one process leaves this to all the others, whatever it
does, if it touches only its own instances and the one it has judged.

**PortalQueue.**  `PInv` relates the files to what the destinations hold: a mark
is true, a health record that says healthy hides no loss, and what a flush has
left is what it read.  The refinement maps a step that takes a snapshot out of the
queue to `AtLeastOnce`'s removal, which is allowed when some destination has it.
`BodyInv` adds, while every time is remembered, that each body in the queue, in a
flush's hands or at a destination is the recorded one; `SyncInv`, while the
enrollment does not change, that a caller's snapshot is queued, held, or on its way.

**AssuranceReceipts.**  `RInv` ties the process that holds the lock to the record:
nobody else is between looking a measurement up and confirming it, so the entry
it found is there when it writes.  Trimming is by lemmas about the last members of
a set of positions (`FewAreLast`): confirmed copies go first, pending ones never.

**MemorySync.**  Of each stream the Portal's pages end at heads that are prefixes of
the longest of them (`Chain`).  The cursor's head is a prefix of that one, and its
stored page starts at its head (`CursorSound`); each call holds places on the
same line (`CallSound`), although the cursor may since have moved to another
stream.  The longest head only grows, and a page whose place is taken is never
stored (`Never`); therefore what a call learned before others wrote the cursor is
still true when it acts on it.  While the Portal refuses nothing (`Calm`), a terminal
cursor's page is such a page, which is why no answer can revive it.  `OneBody` is
not true for ever: a resync, or an enrollment left and taken up again, builds the
pages of a stream anew.  `BodyInv` says that until then every page in a call's
hands or on its way is one the cursor knows: its stored page, body and all, or one
that does not continue the cursor any more.

**LocalState.**  `StateLockInv` says who works, and that nobody else does: with one
waiter at a time an evictor that found a dead lock still finds it when it removes
it.  `FilesInv` says what the two files hold for each step of an update: the
backup is inside the state until the state is replaced, and what a process is
about to write holds what both files do.  `CostInv` counts: of what was recorded
the state file lacks no more than there were damages, and the backup one more.

**ProvenanceChain.**  `ReadInv` ties what a verifier holds to the stamps it read
first: if the stamps are still those of the files, so is what it read.  `TornInv`
and `IntactInv` are about the checkpoint on disk and the one a process is about to
write: a torn line keeps it shorter than the log, and without one it is true.
`SignInv` says that what was read of a log nobody edits is a beginning of it, and
so a checkpoint that is true of it was true of the log once.

**StopGate, WorkPrune, CodexBridge.**  `GateInv` says of a hook what it has been
answered; `CalmInv`, of the one hook there is, that the change it completed is the
receipt's.  `PruneInv` says what a prune's three reads, taken at different times,
still say when it removes: a job it did not see listed has a directory too recent
to go, or was dropped before; and what it removes is of a measured change that is
past the latest.  The jobs a prune did not see are the new ones, whose directory is
younger than those it lists, and the lapsed, which is why the property names them.
`Flow` is the order in which the bridge reads what Codex writes; `WorkInv` says
that a baseline holds none of Codex's edits, or one that does will be replaced.

**ToolGate, SessionTasks.**  `PaidInv` counts: what ran of a blocked call and what
is left of its approvals never exceed what was granted or given back, one less
while an approved call is under way.  A process may write back a file that is older
than any number of uses; what it gives back is the difference, and no other step
has one.  `OneAtWork`, where processes touch the file one at a time, says that what a
process read is still there when it writes, so that the difference is zero.
`ClosedInv`: from the check on, what is not recorded is denied.
`TaskInv` says of each session that what it records of a completion is the newest
of its history, and of completions that an earlier release saved without a
record, that their task has ended.

**PortalEnrollment.**  `EInv` says of each process what the saved enrollment says of
it: one of its own writes has its credential, one it is about to roll back is the
one it read, and once its identity was read, it is there as long as that
enrollment is.  `Attended` covers the time between: an enrollment without an
identity is in the hands of the process that wrote it.  Resets that delete file by
file can take the identity from a configure again and again, and
`ensurePortalIdentity` throws without a rollback once it lost it three times.
`Rounds` counts these losses: the enrollment an earlier attempt wrote outlives two
of the resets that took the identity, the one under way when it was written and
the next, because that one deletes the enrollment before a third can begin.  With
the code's three attempts a configure that ends with an unstable identity
therefore leaves nothing, whatever others gave up at busy locks; with two it would
(TLC finds it with three resets).

**Attestation.**  `Consents` holds for any number of processes at once: whoever is
in the file, in what a process loaded, or in a report consented.  `Keeping`, while
no two store at once: the file and what was loaded hold one acceptance each of the
last that fit.  `Keys` and `AttestChanges` are about one process after another
(`OneBusy`), with deaths: the key on disk is the identity's until a process that
makes a new one is done with all three files, which it is or died before the
record; and what an attestation read as subject, report and receipt is one
receipt.  `UpToDate` follows the receipt to the attestation of the process that
reports it.

**MemoryPage.**  `PageInv` says that nothing past `high` fits, that the page found
is the prefix before `low`, and that a page being trimmed is the first event
without some of its last items, all of them counted.  A prefix of a prefix has
fewer items, fewer dropped relations and fewer bytes, because its sets are
subsets (`LongestPrefix` needs that what does not fit stays so when it grows);
`EveryEventAccounted` counts the events of a page by the sets of those shown and
those omitted.

**PortalSnapshot.**  `SnapInv` says, step by step, what is left of each list and
which warnings are there: a warning prepended is first, two more leave it within
the limit of eight, and the one about the budget replaces at most the last.  Rows
that the budget takes are the last of the first list that has any, and relations
go before everything, so that none names a row that left after it.

**MCProject.**  A behaviour of `MCProject` runs one part and keeps the variables of
the others.  For each part a lemma says that its initial states and steps are
those of the instance that `Project`, `Settings`, `Narrow` or `Dying` give its
theorems (one for each set of constants), another that the assumption and the
hypotheses hold of these constants, and a third takes the component's theorem
over to `part = "…" => …`.

**Lists.**  `SelectSeq` is recursive, and what it returns for every list cannot be
proved here.  Where the code filters a list that a theorem is about, the models use
`Sub` of `Subsequences`: the members at given positions, in order, by their rank;
its lemmas (`Subsequences_proofs`) say which elements remain, once, and how many.

## Only model-checked

- Liveness (`OrphanRecovered`, `EventuallyTaken`, `RunsEnd`, and the two
  properties of `progress`): fairness and `ENABLED` are out of the prover's reach.
- `CommandsAreWhole` and `AnswersCount` of `project`, and its `TypeOK`, a
  conjunction that includes the types of the same four modules: `Installer`,
  `LocalServer`, `FeatureMemory` and `Lessons`.
- `OneBody` after a resync, a replaced journal or a change of enrollment, where it
  does not hold; part `pages` has none of them.

## Not modelled, and what that leaves open

- **Analysis and explanation**: sequential text analysis and wording, without
  shared state.  `FeatureMemory` takes what a model of the source is as given.
- **Continuity exports**: formats of exported records, no protocol of their own.
- **User interface and scripts**: browser assets and smoke scripts.
- Damaged files, where no module says otherwise: readers refuse them with an
  error and write nothing.  `LocalState` and `Installer` do model them.
- `reset --force` is file by file for the enrollment and its identity
  (`PortalEnrollment`); for the debt queue `Reset` is one step.
- In modules that are partly modelled, `PROJECT.json` names what is missing: the
  patterns of policy rules and the risk score, the texts of cards and cockpits,
  redaction and hashes of snapshots, the fields of envelopes, detection of
  agents, argument parsing.
- The composition of several components in one behaviour, other than through the
  promises above.

## Plan

What is worth doing next, in this order:

1. Proofs of the modules that have none, `Installer`, `LocalServer`,
   `FeatureMemory` and `Lessons`, and from them `CommandsAreWhole`, `AnswersCount`
   and the composite `TypeOK`.  The first two need the hypotheses the table of
   disagreements names; `AsksAnother` of `Lessons` also a bound on wrong answers,
   because scores tie.
2. A composition of hook, debt queue and delivery queue, in which a completed
   change is delivered, waiting, or reported.

## Running

    tlc -workers 2 -config AutoDebtQueue_workers.cfg MCAutoDebtQueue.tla
    tlc -workers 2 -config Project.cfg MCProject.tla
    tlapm AutoDebtQueue_proofs.tla
    tlapm MCProject_proofs.tla

Each cfg names its run's module by its prefix (`MC` followed by the component).
The longest runs take about three minutes on two workers.  With two threads
`Project_proofs` and `Settings_proofs` take about twelve minutes each,
`MCProject_proofs`, which reads both under the constants of `MCProject`, about
twenty, and each other proof module one or two.
