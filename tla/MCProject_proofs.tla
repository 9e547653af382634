--------------------------- MODULE MCProject_proofs ---------------------------
(***************************************************************************)
(* What MCProject checks of its parts, from the theorems that hold of them *)
(* for every value of their constants.  Project, Settings, Narrow and      *)
(* Dying give those theorems the constants of MCProject; a behaviour of it *)
(* is one of the part that runs.  For each part: its initial states and    *)
(* steps are those of the theorems' component, what is proved of that      *)
(* component is what MCProject says, and so it holds while the part runs.  *)
(***************************************************************************)
EXTENDS MCProject, TLAPS

-----------------------------------------------------------------------------
(* The part that runs                                                      *)

LEMMA StateRuns ==
  /\ Init /\ part = "state" => State!Init
  /\ part = "state" /\ [Next]_vars => (part = "state")' /\ [State!Next]_(State!vars)
  /\ ~(part = "state") /\ [Next]_vars => ~(part = "state")'
<1>1. Init /\ part = "state" => State!Init
  BY Zenon DEF Init
<1>2. part = "state" /\ [Next]_vars => (part = "state")' /\ [State!Next]_(State!vars)
  BY Zenon DEF Next, vars, stateVars, State!vars, State!files
<1>3. ~(part = "state") /\ [Next]_vars => ~(part = "state")'
  BY Zenon DEF Next, vars
<1> QED BY Zenon, <1>1, <1>2, <1>3
LEMMA StateAlone ==
  [Next]_vars /\ (part = "state" => [State!NothingOverwritten /\ State!NeverDowngraded /\ State!Mutex!MutexStep]_(State!vars)) => [part = "state" => State!NothingOverwritten /\ State!NeverDowngraded /\ State!Mutex!MutexStep]_vars
<1>1. part = "state" /\ [Next]_vars /\ UNCHANGED State!vars => UNCHANGED vars
  BY Zenon DEF Next, vars, stateVars, chainVars, gateVars, taskVars, stopVars, installVars,
               featureVars, bridgeVars, serverVars, lessonVars, attestVars, pruneVars, queueVars,
               syncVars, composerVars, enrollmentVars, snapshotVars, State!vars, State!files
<1> QED BY Zenon, <1>1

LEMMA ChainRuns ==
  /\ Init /\ part = "chain" => Chain!Init
  /\ part = "chain" /\ [Next]_vars => (part = "chain")' /\ [Chain!Next]_(Chain!vars)
  /\ ~(part = "chain") /\ [Next]_vars => ~(part = "chain")'
<1>1. Init /\ part = "chain" => Chain!Init
  BY Zenon DEF Init
<1>2. part = "chain" /\ [Next]_vars => (part = "chain")' /\ [Chain!Next]_(Chain!vars)
  BY Zenon DEF Next, vars, chainVars, Chain!vars, Chain!lockVars, Chain!chainVars
<1>3. ~(part = "chain") /\ [Next]_vars => ~(part = "chain")'
  BY Zenon DEF Next, vars
<1> QED BY Zenon, <1>1, <1>2, <1>3
LEMMA ChainAlone ==
  [Next]_vars /\ (part = "chain" => [Chain!Mutex!MutexStep]_(Chain!vars)) => [part = "chain" => Chain!Mutex!MutexStep]_vars
<1>1. part = "chain" /\ [Next]_vars /\ UNCHANGED Chain!vars => UNCHANGED vars
  BY Zenon DEF Next, vars, stateVars, chainVars, gateVars, taskVars, stopVars, installVars,
               featureVars, bridgeVars, serverVars, lessonVars, attestVars, pruneVars, queueVars,
               syncVars, composerVars, enrollmentVars, snapshotVars, Chain!vars, Chain!lockVars,
               Chain!chainVars
<1> QED BY Zenon, <1>1

LEMMA StopsRuns ==
  /\ Init /\ part = "stops" => Stops!Init
  /\ part = "stops" /\ [Next]_vars => (part = "stops")' /\ [Stops!Next]_(Stops!vars)
  /\ ~(part = "stops") /\ [Next]_vars => ~(part = "stops")'
<1>1. Init /\ part = "stops" => Stops!Init
  BY Zenon DEF Init
<1>2. part = "stops" /\ [Next]_vars => (part = "stops")' /\ [Stops!Next]_(Stops!vars)
  BY Zenon DEF Next, vars, stopVars, Stops!vars
<1>3. ~(part = "stops") /\ [Next]_vars => ~(part = "stops")'
  BY Zenon DEF Next, vars
<1> QED BY Zenon, <1>1, <1>2, <1>3
LEMMA StopsAlone ==
  [Next]_vars /\ (part = "stops" => [Stops!StopsAreJudged /\ Stops!QueuedWithItsReceipt]_(Stops!vars)) => [part = "stops" => Stops!StopsAreJudged /\ Stops!QueuedWithItsReceipt]_vars
<1>1. part = "stops" /\ [Next]_vars /\ UNCHANGED Stops!vars => UNCHANGED vars
  BY Zenon DEF Next, vars, stateVars, chainVars, gateVars, taskVars, stopVars, installVars,
               featureVars, bridgeVars, serverVars, lessonVars, attestVars, pruneVars, queueVars,
               syncVars, composerVars, enrollmentVars, snapshotVars, Stops!vars
<1> QED BY Zenon, <1>1

LEMMA PrunesRuns ==
  /\ Init /\ part = "prunes" => Prunes!Init
  /\ part = "prunes" /\ [Next]_vars => (part = "prunes")' /\ [Prunes!Next]_(Prunes!vars)
  /\ ~(part = "prunes") /\ [Next]_vars => ~(part = "prunes")'
<1>1. Init /\ part = "prunes" => Prunes!Init
  BY Zenon DEF Init
<1>2. part = "prunes" /\ [Next]_vars => (part = "prunes")' /\ [Prunes!Next]_(Prunes!vars)
  BY Zenon DEF Next, vars, pruneVars, Prunes!vars
<1>3. ~(part = "prunes") /\ [Next]_vars => ~(part = "prunes")'
  BY Zenon DEF Next, vars
<1> QED BY Zenon, <1>1, <1>2, <1>3
LEMMA PrunesAlone ==
  [Next]_vars /\ (part = "prunes" => [Prunes!KeptForJob /\ Prunes!LatestStay]_(Prunes!vars)) => [part = "prunes" => Prunes!KeptForJob /\ Prunes!LatestStay]_vars
<1>1. part = "prunes" /\ [Next]_vars /\ UNCHANGED Prunes!vars => UNCHANGED vars
  BY Zenon DEF Next, vars, stateVars, chainVars, gateVars, taskVars, stopVars, installVars,
               featureVars, bridgeVars, serverVars, lessonVars, attestVars, pruneVars, queueVars,
               syncVars, composerVars, enrollmentVars, snapshotVars, Prunes!vars
<1> QED BY Zenon, <1>1

LEMMA BridgeRuns ==
  /\ Init /\ part = "bridge" => Bridge!Init
  /\ part = "bridge" /\ [Next]_vars => (part = "bridge")' /\ [Bridge!Next]_(Bridge!vars)
  /\ ~(part = "bridge") /\ [Next]_vars => ~(part = "bridge")'
<1>1. Init /\ part = "bridge" => Bridge!Init
  BY Zenon DEF Init
<1>2. part = "bridge" /\ [Next]_vars => (part = "bridge")' /\ [Bridge!Next]_(Bridge!vars)
  BY Zenon DEF Next, vars, bridgeVars, Bridge!vars
<1>3. ~(part = "bridge") /\ [Next]_vars => ~(part = "bridge")'
  BY Zenon DEF Next, vars
<1> QED BY Zenon, <1>1, <1>2, <1>3

LEMMA PagesRuns ==
  /\ Init /\ part = "pages" => Pages!Init
  /\ part = "pages" /\ [Next]_vars => (part = "pages")' /\ [Pages!Next]_(Pages!vars)
  /\ ~(part = "pages") /\ [Next]_vars => ~(part = "pages")'
<1>1. Init /\ part = "pages" => Pages!Init
  BY Zenon DEF Init
<1>2. part = "pages" /\ [Next]_vars => (part = "pages")' /\ [Pages!Next]_(Pages!vars)
  BY Zenon DEF Next, vars, syncVars, Pages!vars
<1>3. ~(part = "pages") /\ [Next]_vars => ~(part = "pages")'
  BY Zenon DEF Next, vars
<1> QED BY Zenon, <1>1, <1>2, <1>3

LEMMA GateRuns ==
  /\ Init /\ part = "gate" => Gate!Init
  /\ part = "gate" /\ [Next]_vars => (part = "gate")' /\ [Gate!Next]_(Gate!vars)
  /\ ~(part = "gate") /\ [Next]_vars => ~(part = "gate")'
<1>1. Init /\ part = "gate" => Gate!Init
  BY Zenon DEF Init
<1>2. part = "gate" /\ [Next]_vars => (part = "gate")' /\ [Gate!Next]_(Gate!vars)
  BY Zenon DEF Next, vars, gateVars, Gate!vars
<1>3. ~(part = "gate") /\ [Next]_vars => ~(part = "gate")'
  BY Zenon DEF Next, vars
<1> QED BY Zenon, <1>1, <1>2, <1>3

LEMMA TasksRuns ==
  /\ Init /\ part = "tasks" => Tasks!Init
  /\ part = "tasks" /\ [Next]_vars => (part = "tasks")' /\ [Tasks!Next]_(Tasks!vars)
  /\ ~(part = "tasks") /\ [Next]_vars => ~(part = "tasks")'
<1>1. Init /\ part = "tasks" => Tasks!Init
  BY Zenon DEF Init
<1>2. part = "tasks" /\ [Next]_vars => (part = "tasks")' /\ [Tasks!Next]_(Tasks!vars)
  BY Zenon DEF Next, vars, taskVars, Tasks!vars
<1>3. ~(part = "tasks") /\ [Next]_vars => ~(part = "tasks")'
  BY Zenon DEF Next, vars
<1> QED BY Zenon, <1>1, <1>2, <1>3
LEMMA TasksAlone ==
  [Next]_vars /\ (part = "tasks" => [Tasks!RecordedForItsMaker]_(Tasks!vars)) => [part = "tasks" => Tasks!RecordedForItsMaker]_vars
<1>1. part = "tasks" /\ [Next]_vars /\ UNCHANGED Tasks!vars => UNCHANGED vars
  BY Zenon DEF Next, vars, stateVars, chainVars, gateVars, taskVars, stopVars, installVars,
               featureVars, bridgeVars, serverVars, lessonVars, attestVars, pruneVars, queueVars,
               syncVars, composerVars, enrollmentVars, snapshotVars, Tasks!vars
<1> QED BY Zenon, <1>1

LEMMA QueueRuns ==
  /\ Init /\ part = "queue" => Queue!Init
  /\ part = "queue" /\ [Next]_vars => (part = "queue")' /\ [Queue!Next]_(Queue!vars)
  /\ ~(part = "queue") /\ [Next]_vars => ~(part = "queue")'
<1>1. Init /\ part = "queue" => Queue!Init
  BY Zenon DEF Init
<1>2. part = "queue" /\ [Next]_vars => (part = "queue")' /\ [Queue!Next]_(Queue!vars)
  BY Zenon DEF Next, vars, queueVars, Queue!vars, Queue!files
<1>3. ~(part = "queue") /\ [Next]_vars => ~(part = "queue")'
  BY Zenon DEF Next, vars
<1> QED BY Zenon, <1>1, <1>2, <1>3

LEMMA EnrollmentRuns ==
  /\ Init /\ part = "enrollment" => Enrollment!Init
  /\ part = "enrollment" /\ [Next]_vars => (part = "enrollment")' /\ [Enrollment!Next]_(Enrollment!vars)
  /\ ~(part = "enrollment") /\ [Next]_vars => ~(part = "enrollment")'
<1>1. Init /\ part = "enrollment" => Enrollment!Init
  BY Zenon DEF Init
<1>2. part = "enrollment" /\ [Next]_vars => (part = "enrollment")' /\ [Enrollment!Next]_(Enrollment!vars)
  BY Zenon DEF Next, vars, enrollmentVars, Enrollment!vars
<1>3. ~(part = "enrollment") /\ [Next]_vars => ~(part = "enrollment")'
  BY Zenon DEF Next, vars
<1> QED BY Zenon, <1>1, <1>2, <1>3

LEMMA CalmRuns ==
  /\ Init /\ part = "calm" => Calm!Init
  /\ part = "calm" /\ [Next]_vars => (part = "calm")' /\ [Calm!Next]_(Calm!vars)
  /\ ~(part = "calm") /\ [Next]_vars => ~(part = "calm")'
<1>1. Init /\ part = "calm" => Calm!Init
  BY Zenon DEF Init
<1>2. part = "calm" /\ [Next]_vars => (part = "calm")' /\ [Calm!Next]_(Calm!vars)
  BY Zenon DEF Next, vars, attestVars, Calm!vars, Calm!files
<1>3. ~(part = "calm") /\ [Next]_vars => ~(part = "calm")'
  BY Zenon DEF Next, vars
<1> QED BY Zenon, <1>1, <1>2, <1>3

LEMMA ComposerRuns ==
  /\ Init /\ part = "composer" => Composer!Init
  /\ part = "composer" /\ [Next]_vars => (part = "composer")' /\ [Composer!Next]_(Composer!vars)
  /\ ~(part = "composer") /\ [Next]_vars => ~(part = "composer")'
<1>1. Init /\ part = "composer" => Composer!Init
  BY Zenon DEF Init
<1>2. part = "composer" /\ [Next]_vars => (part = "composer")' /\ [Composer!Next]_(Composer!vars)
  BY Zenon DEF Next, vars, composerVars, Composer!vars
<1>3. ~(part = "composer") /\ [Next]_vars => ~(part = "composer")'
  BY Zenon DEF Next, vars
<1> QED BY Zenon, <1>1, <1>2, <1>3

LEMMA SnapshotRuns ==
  /\ Init /\ part = "snapshot" => Snapshot!Init
  /\ part = "snapshot" /\ [Next]_vars => (part = "snapshot")' /\ [Snapshot!Next]_(Snapshot!vars)
  /\ ~(part = "snapshot") /\ [Next]_vars => ~(part = "snapshot")'
<1>1. Init /\ part = "snapshot" => Snapshot!Init
  BY Zenon DEF Init
<1>2. part = "snapshot" /\ [Next]_vars => (part = "snapshot")' /\ [Snapshot!Next]_(Snapshot!vars)
  BY Zenon DEF Next, vars, snapshotVars, Snapshot!vars
<1>3. ~(part = "snapshot") /\ [Next]_vars => ~(part = "snapshot")'
  BY Zenon DEF Next, vars
<1> QED BY Zenon, <1>1, <1>2, <1>3

LEMMA TrimmedRuns ==
  /\ Init /\ part = "trimmed" => Trimmed!Init
  /\ part = "trimmed" /\ [Next]_vars => (part = "trimmed")' /\ [Trimmed!Next]_(Trimmed!vars)
  /\ ~(part = "trimmed") /\ [Next]_vars => ~(part = "trimmed")'
<1>1. Init /\ part = "trimmed" => Trimmed!Init
  BY Zenon DEF Init
<1>2. part = "trimmed" /\ [Next]_vars => (part = "trimmed")' /\ [Trimmed!Next]_(Trimmed!vars)
  BY Zenon DEF Next, vars, taskVars, Trimmed!vars
<1>3. ~(part = "trimmed") /\ [Next]_vars => ~(part = "trimmed")'
  BY Zenon DEF Next, vars
<1> QED BY Zenon, <1>1, <1>2, <1>3
LEMMA TrimmedAlone ==
  [Next]_vars /\ (part = "trimmed" => [Trimmed!RecordedForItsMaker]_(Trimmed!vars)) => [part = "trimmed" => Trimmed!RecordedForItsMaker]_vars
<1>1. part = "trimmed" /\ [Next]_vars /\ UNCHANGED Trimmed!vars => UNCHANGED vars
  BY Zenon DEF Next, vars, stateVars, chainVars, gateVars, taskVars, stopVars, installVars,
               featureVars, bridgeVars, serverVars, lessonVars, attestVars, pruneVars, queueVars,
               syncVars, composerVars, enrollmentVars, snapshotVars, Trimmed!vars
<1> QED BY Zenon, <1>1

LEMMA ForcedRuns ==
  /\ Init /\ part = "forced" => Forced!Init
  /\ part = "forced" /\ [Next]_vars => (part = "forced")' /\ [Forced!Next]_(Forced!vars)
  /\ ~(part = "forced") /\ [Next]_vars => ~(part = "forced")'
<1>1. Init /\ part = "forced" => Forced!Init
  BY Zenon DEF Init, Enrollment!Init, Enrollment!Idle, Forced!Init, Forced!Idle
<1>2. part = "forced" /\ [Next]_vars => (part = "forced")' /\ [Forced!Next]_(Forced!vars)
  BY Zenon DEF Next, vars, enrollmentVars, Forced!vars
<1>3. ~(part = "forced") /\ [Next]_vars => ~(part = "forced")'
  BY Zenon DEF Next, vars
<1> QED BY Zenon, <1>1, <1>2, <1>3

LEMMA AtOnceRuns ==
  /\ Init /\ part = "at once" => AtOnce!Init
  /\ part = "at once" /\ [Next]_vars => (part = "at once")' /\ [AtOnce!Next]_(AtOnce!vars)
  /\ ~(part = "at once") /\ [Next]_vars => ~(part = "at once")'
<1>1. Init /\ part = "at once" => AtOnce!Init
  BY Zenon DEF Init, AtOnce!Init
<1>2. part = "at once" /\ [Next]_vars => (part = "at once")' /\ [AtOnce!Next]_(AtOnce!vars)
  BY Zenon DEF Next, vars, attestVars, AtOnce!vars, AtOnce!files
<1>3. ~(part = "at once") /\ [Next]_vars => ~(part = "at once")'
  BY Zenon DEF Next, vars
<1> QED BY Zenon, <1>1, <1>2, <1>3

LEMMA CrashRuns ==
  /\ Init /\ part = "crash" => Crash!Init
  /\ part = "crash" /\ [Next]_vars => (part = "crash")' /\ [Crash!Next]_(Crash!vars)
  /\ ~(part = "crash") /\ [Next]_vars => ~(part = "crash")'
<1>1. Init /\ part = "crash" => Crash!Init
  BY Zenon DEF Init, Crash!Init
<1>2. part = "crash" /\ [Next]_vars => (part = "crash")' /\ [Crash!Next]_(Crash!vars)
  BY Zenon DEF Next, vars, attestVars, Crash!vars, Crash!files
<1>3. ~(part = "crash") /\ [Next]_vars => ~(part = "crash")'
  BY Zenon DEF Next, vars
<1> QED BY Zenon, <1>1, <1>2, <1>3

-----------------------------------------------------------------------------
Project == INSTANCE Project_proofs WITH
  StateEvents <- {e1, e2, e3}, Slow <- FALSE, MaxDeaths <- 1, MaxDamage <- 2, Repair <- "alone",
  MaxEvents <- 2, MaxFailures <- 1, MaxTampers <- 1,
  Sessions <- {x1, x2}, Cursors <- {x2}, Versions <- {"clean", "good", "bad"}, Bad <- {"bad"},
  First <- "clean", Overlap <- FALSE, MaxHooks <- 2, gateConfig <- config,
  Measurable <- {c1, c2}, Old <- <<o1, o2>>, Pruners <- Procs, Keep <- 1, Drops <- TRUE,
  Own <- {c1, c2}, Others <- {o1}, Flaky <- FALSE,
  Enrollments <- {n1, n2}, Journals <- {<<j1, j2, j3>>}, MaxPage <- 2, MaxEpoch <- 2, MaxChanges <- 0,
  Happens <- {"stop", "lose"}, config <- following, portal <- stored, proc <- syncs

(* The state file and its lock: state.mjs, recovery.mjs *)

LEMMA StateInit == State!Init => Project!State!Init
  BY Zenon DEF State!Init, State!Absent, State!Idle, Project!State!Init, Project!State!Absent,
               Project!State!Idle

LEMMA StateNext == [State!Next]_(State!vars) => [Project!State!Next]_(Project!State!vars)
  BY Zenon DEF State!Next, State!Want, State!At, State!NoRepair, State!Idle, State!files,
               State!Step, State!Acquire, State!Free, State!Goto, State!FindStale, State!Stale,
               State!Evict, State!Release, State!Load, State!Unreadable, State!Loaded,
               State!LoadFails, State!Ends, State!KeepBackup, State!BackupKept, State!Save,
               State!Return, State!Recheck, State!Restore, State!GivesUp, State!Dies,
               State!Cardinality, State!Plan, State!Restorable, State!Ages, State!Damaged,
               State!vars, Project!State!Next, Project!State!Want, Project!State!At,
               Project!State!NoRepair, Project!State!Idle, Project!State!files, Project!State!Step,
               Project!State!Acquire, Project!State!Free, Project!State!Goto,
               Project!State!FindStale, Project!State!Stale, Project!State!Evict,
               Project!State!Release, Project!State!Load, Project!State!Unreadable,
               Project!State!Loaded, Project!State!LoadFails, Project!State!Ends,
               Project!State!KeepBackup, Project!State!BackupKept, Project!State!Save,
               Project!State!Return, Project!State!Recheck, Project!State!Restore,
               Project!State!GivesUp, Project!State!Dies, Project!State!Cardinality,
               Project!State!Plan, Project!State!Restorable, Project!State!Ages,
               Project!State!Damaged, Project!State!vars

LEMMA StateInvariants == Project!State!TypeOK /\ Project!State!DamageCostsOne =>
  State!TypeOK /\ State!DamageCostsOne
  BY Zenon DEF State!TypeOK, State!File, State!DamageCostsOne, State!Unreadable, State!Cardinality,
               State!Loaded, Project!State!TypeOK, Project!State!File, Project!State!DamageCostsOne,
               Project!State!Unreadable, Project!State!Cardinality, Project!State!Loaded

LEMMA StateOneInside == Project!Cardinality(Project!State!Inside) <= 1 => Cardinality(State!Inside) <= 1
<1>1. Project!State!Inside = State!Inside
  BY Zenon DEF State!Inside, Project!State!Inside
<1>2. \A S : Project!Cardinality(S) = Cardinality(S)
  BY Zenon DEF Project!Cardinality, Cardinality
<1> QED BY <1>1, <1>2

LEMMA StateStarts == State!Init => State!Mutex!Init
<1>1. State!Init => State!Inside = {}
  BY DEF State!Init, State!Inside, State!Idle
<1> QED BY <1>1 DEF State!Init, State!Mutex!Init

LEMMA StateMutex == Project!State!Mutex!MutexStep => State!Mutex!MutexStep
  BY Zenon DEF State!Mutex!MutexStep, State!Mutex!Next, State!Mutex!Acquire, State!Mutex!Release,
               State!Mutex!Die, State!Mutex!vars, State!Inside, Project!State!Mutex!MutexStep,
               Project!State!Mutex!Next, Project!State!Mutex!Acquire, Project!State!Mutex!Release,
               Project!State!Mutex!Die, Project!State!Mutex!vars, Project!State!Inside

LEMMA StateUnchanged == Project!State!NothingOverwritten /\ Project!State!NeverDowngraded =>
  State!NothingOverwritten /\ State!NeverDowngraded
  BY Zenon DEF State!NothingOverwritten, State!Readable, State!Unreadable, State!Loaded,
               State!NeverDowngraded, Project!State!NothingOverwritten, Project!State!Readable,
               Project!State!Unreadable, Project!State!Loaded, Project!State!NeverDowngraded

LEMMA StateActions == [Project!State!NothingOverwritten /\ Project!State!NeverDowngraded /\ Project!State!Mutex!MutexStep]_(Project!State!vars) =>
  [State!NothingOverwritten /\ State!NeverDowngraded /\ State!Mutex!MutexStep]_(State!vars)
  BY StateUnchanged, StateMutex DEF State!vars, State!files, Project!State!vars, Project!State!files

LEMMA StatePart ==
  Spec => /\ [](part = "state" => State!TypeOK /\ State!DamageCostsOne /\ Cardinality(State!Inside) <= 1)
          /\ (part = "state" => State!Mutex!Init)
          /\ [][part = "state" => State!NothingOverwritten /\ State!NeverDowngraded /\ State!Mutex!MutexStep]_vars
<1>1. Project!State!StateAssumption
  BY ProjectAssumption DEF State!StateAssumption, Project!State!StateAssumption
<1>2. /\ Project!State!Spec => []Project!StateOneWaiter
      /\ Project!State!Spec /\ []Project!StateOneWaiter => []Project!State!TypeOK
      /\ Project!State!Spec /\ []Project!StateOneWaiter => []Project!State!DamageCostsOne
      /\ Project!State!Spec /\ []Project!StateOneWaiter => [][Project!State!Mutex!MutexStep]_(Project!State!vars)
           /\ [](Project!Cardinality(Project!State!Inside) <= 1)
      /\ Project!State!Spec /\ []Project!StateOneWaiter => [][Project!State!NothingOverwritten /\ Project!State!NeverDowngraded]_(Project!State!vars)
  BY <1>1, Project!StateTwoProcessesSuffice, Project!StateTypeCorrect, Project!DamageIsBounded,
     Project!StateLockExcludes, Project!StateNeverLost DEF Procs
<1> QED BY StateRuns, StateInit, StateNext, StateInvariants, StateOneInside, StateStarts,
           StateActions, StateAlone, <1>2, PTL DEF Spec, Project!State!Spec

(* The flight recorder and its lock: provenance.mjs *)

LEMMA ChainInit == Chain!Init => Project!Chain!Init
  BY Zenon DEF Chain!Init, Chain!LockInit, Chain!Empty, Chain!Zero, Chain!NoWork, Chain!NoVerdict,
               Project!Chain!Init, Project!Chain!LockInit, Project!Chain!Empty, Project!Chain!Zero,
               Project!Chain!NoWork, Project!Chain!NoVerdict

LEMMA ChainNext == [Chain!Next]_(Chain!vars) => [Project!Chain!Next]_(Project!Chain!vars)
  BY Zenon DEF Chain!Next, Chain!LockStep, Chain!Ages, Chain!Want, Chain!Alive, Chain!Move,
               Chain!GivesUp, Chain!FindStale, Chain!Stale, Chain!Evict, Chain!Removes,
               Chain!chainVars, Chain!Begin, Chain!Take, Chain!Takes, Chain!Read, Chain!AppendLine,
               Chain!Doing, Chain!NextRecord, Chain!TouchesLog, Chain!lockVars,
               Chain!WriteCheckpoint, Chain!TouchesChain, Chain!Valid, Chain!Linked, Chain!Last,
               Chain!Zero, Chain!Fails, Chain!Tears, Chain!End, Chain!Leave, Chain!NoWork,
               Chain!Empty, Chain!AppenderDies, Chain!Dies, Chain!Cardinality, Chain!Tamper,
               Chain!Verify, Chain!Reads, Chain!StampEvents, Chain!ReadEvents, Chain!ReadChain,
               Chain!Key, Chain!Sign, Chain!Signs, Chain!Answer, Chain!vars, Project!Chain!Next,
               Project!Chain!LockStep, Project!Chain!Ages, Project!Chain!Want, Project!Chain!Alive,
               Project!Chain!Move, Project!Chain!GivesUp, Project!Chain!FindStale,
               Project!Chain!Stale, Project!Chain!Evict, Project!Chain!Removes,
               Project!Chain!chainVars, Project!Chain!Begin, Project!Chain!Take,
               Project!Chain!Takes, Project!Chain!Read, Project!Chain!AppendLine,
               Project!Chain!Doing, Project!Chain!NextRecord, Project!Chain!TouchesLog,
               Project!Chain!lockVars, Project!Chain!WriteCheckpoint, Project!Chain!TouchesChain,
               Project!Chain!Valid, Project!Chain!Linked, Project!Chain!Last, Project!Chain!Zero,
               Project!Chain!Fails, Project!Chain!Tears, Project!Chain!End, Project!Chain!Leave,
               Project!Chain!NoWork, Project!Chain!Empty, Project!Chain!AppenderDies,
               Project!Chain!Dies, Project!Chain!Cardinality, Project!Chain!Tamper,
               Project!Chain!Verify, Project!Chain!Reads, Project!Chain!StampEvents,
               Project!Chain!ReadEvents, Project!Chain!ReadChain, Project!Chain!Key,
               Project!Chain!Sign, Project!Chain!Signs, Project!Chain!Answer, Project!Chain!vars

LEMMA ChainInvariants == Project!Chain!TypeOK /\ Project!Chain!ChainIntact /\ Project!Chain!TornStaysVisible /\ Project!Chain!FreshVerdictTrue /\ Project!Chain!SignedWasTrue =>
  Chain!TypeOK /\ Chain!ChainIntact /\ Chain!TornStaysVisible /\ Chain!FreshVerdictTrue /\ Chain!SignedWasTrue
  BY Zenon DEF Chain!TypeOK, Chain!LockTypeOK, Chain!Record, Chain!Checkpoint, Chain!ChainIntact,
               Chain!Untouched, Chain!Doing, Chain!Valid, Chain!Linked, Chain!Last, Chain!Zero,
               Chain!TornStaysVisible, Chain!FreshVerdictTrue, Chain!SignedWasTrue,
               Project!Chain!TypeOK, Project!Chain!LockTypeOK, Project!Chain!Record,
               Project!Chain!Checkpoint, Project!Chain!ChainIntact, Project!Chain!Untouched,
               Project!Chain!Doing, Project!Chain!Valid, Project!Chain!Linked, Project!Chain!Last,
               Project!Chain!Zero, Project!Chain!TornStaysVisible, Project!Chain!FreshVerdictTrue,
               Project!Chain!SignedWasTrue

LEMMA ChainOneInside == Project!Cardinality(Project!Chain!Inside) <= 1 => Cardinality(Chain!Inside) <= 1
<1>1. Project!Chain!Inside = Chain!Inside
  BY Zenon DEF Chain!Inside, Project!Chain!Inside
<1>2. \A S : Project!Cardinality(S) = Cardinality(S)
  BY Zenon DEF Project!Cardinality, Cardinality
<1> QED BY <1>1, <1>2

LEMMA ChainStarts == Chain!Init => Chain!Mutex!Init
<1>1. Chain!Init => Chain!Inside = {}
  BY DEF Chain!Init, Chain!LockInit, Chain!Inside
<1> QED BY <1>1 DEF Chain!Init, Chain!LockInit, Chain!Mutex!Init

LEMMA ChainMutex == Project!Chain!Mutex!MutexStep => Chain!Mutex!MutexStep
  BY Zenon DEF Chain!Mutex!MutexStep, Chain!Mutex!Next, Chain!Mutex!Acquire, Chain!Mutex!Release,
               Chain!Mutex!Die, Chain!Mutex!vars, Chain!Inside, Project!Chain!Mutex!MutexStep,
               Project!Chain!Mutex!Next, Project!Chain!Mutex!Acquire, Project!Chain!Mutex!Release,
               Project!Chain!Mutex!Die, Project!Chain!Mutex!vars, Project!Chain!Inside

LEMMA ChainActions == [Project!Chain!Mutex!MutexStep]_(Project!Chain!vars) =>
  [Chain!Mutex!MutexStep]_(Chain!vars)
  BY ChainMutex DEF Chain!vars, Chain!lockVars, Chain!chainVars, Project!Chain!vars,
                    Project!Chain!lockVars, Project!Chain!chainVars

LEMMA ChainPart ==
  Spec => /\ [](part = "chain" => Chain!TypeOK /\ Chain!ChainIntact /\ Chain!TornStaysVisible /\ Chain!FreshVerdictTrue /\ Chain!SignedWasTrue /\ Cardinality(Chain!Inside) <= 1)
          /\ (part = "chain" => Chain!Mutex!Init)
          /\ [][part = "chain" => Chain!Mutex!MutexStep]_vars
<1>1. Project!Chain!AgeLockAssumption /\ Project!Chain!ChainAssumption
  BY ProjectAssumption DEF Chain!AgeLockAssumption, Chain!ChainAssumption,
                           Project!Chain!AgeLockAssumption, Project!Chain!ChainAssumption
<1>2. /\ Project!Chain!Spec => []Project!ChainOneWaiter
      /\ Project!Chain!Spec /\ []Project!ChainOneWaiter => []Project!Chain!TypeOK
      /\ Project!Chain!Spec /\ []Project!ChainOneWaiter => []Project!Chain!ChainIntact
      /\ Project!Chain!Spec /\ []Project!ChainOneWaiter => []Project!Chain!TornStaysVisible
      /\ Project!Chain!Spec /\ []Project!ChainOneWaiter => []Project!Chain!FreshVerdictTrue
      /\ Project!Chain!Spec /\ []Project!ChainOneWaiter => []Project!Chain!SignedWasTrue
      /\ Project!Chain!Spec /\ []Project!ChainOneWaiter => [][Project!Chain!Mutex!MutexStep]_(Project!Chain!vars)
           /\ [](Project!Cardinality(Project!Chain!Inside) <= 1)
  BY <1>1, Project!ChainTwoProcessesSuffice, Project!ChainTypeCorrect, Project!ChainKept,
     Project!TornAppendsShow, Project!VerdictsAreFresh, Project!SignaturesAreTrue,
     Project!LedgerLockExcludes DEF Procs
<1> QED BY ChainRuns, ChainInit, ChainNext, ChainInvariants, ChainOneInside, ChainStarts,
           ChainActions, ChainAlone, <1>2, PTL DEF Spec, Project!Chain!Spec

(* The hook runners at the end of a turn *)

LEMMA StopsInit == Stops!Init => Project!Stops!Init
  BY Zenon DEF Stops!Init, Stops!Fresh, Stops!NoChange, Project!Stops!Init, Project!Stops!Fresh,
               Project!Stops!NoChange

LEMMA StopsNext == [Stops!Next]_(Stops!vars) => [Project!Stops!Next]_(Project!Stops!vars)
  BY Zenon DEF Stops!Next, Stops!Events, Stops!Begin, Stops!At, Stops!Calm, Stops!Fresh,
               Stops!NoChange, Stops!project, Stops!Sidecar, Stops!AfterSidecar,
               Stops!SidecarThrows, Stops!AfterThrow, Stops!NotAsked, Stops!Gated, Stops!Answer,
               Stops!Blocks, Stops!Required, Stops!NativeFails, Stops!Arms, Stops!Judges,
               Stops!Judged, Stops!Receipt, Stops!Exact, Stops!Keeps, Stops!Offered, Stops!Admits,
               Stops!Schedule, Stops!Work, Stops!Edit, Stops!vars, Project!Stops!Next,
               Project!Stops!Events, Project!Stops!Begin, Project!Stops!At, Project!Stops!Calm,
               Project!Stops!Fresh, Project!Stops!NoChange, Project!Stops!project,
               Project!Stops!Sidecar, Project!Stops!AfterSidecar, Project!Stops!SidecarThrows,
               Project!Stops!AfterThrow, Project!Stops!NotAsked, Project!Stops!Gated,
               Project!Stops!Answer, Project!Stops!Blocks, Project!Stops!Required,
               Project!Stops!NativeFails, Project!Stops!Arms, Project!Stops!Judges,
               Project!Stops!Judged, Project!Stops!Receipt, Project!Stops!Exact,
               Project!Stops!Keeps, Project!Stops!Offered, Project!Stops!Admits,
               Project!Stops!Schedule, Project!Stops!Work, Project!Stops!Edit, Project!Stops!vars

LEMMA StopsInvariants == Project!Stops!TypeOK /\ Project!Stops!QueuedWasAccepted =>
  Stops!TypeOK /\ Stops!QueuedWasAccepted
  BY Zenon DEF Stops!TypeOK, Stops!Events, Stops!Change, Stops!Answers, Stops!QueuedWasAccepted,
               Stops!Required, Project!Stops!TypeOK, Project!Stops!Events, Project!Stops!Change,
               Project!Stops!Answers, Project!Stops!QueuedWasAccepted, Project!Stops!Required

LEMMA StopsActions == [Project!Stops!StopsAreJudged /\ Project!Stops!QueuedWithItsReceipt]_(Project!Stops!vars) =>
  [Stops!StopsAreJudged /\ Stops!QueuedWithItsReceipt]_(Stops!vars)
  BY Zenon DEF Stops!StopsAreJudged, Stops!At, Stops!Required, Stops!QueuedWithItsReceipt,
               Stops!vars, Project!Stops!StopsAreJudged, Project!Stops!At, Project!Stops!Required,
               Project!Stops!QueuedWithItsReceipt, Project!Stops!vars

LEMMA StopsPart ==
  Spec => /\ [](part = "stops" => Stops!TypeOK /\ Stops!QueuedWasAccepted)
          /\ [][part = "stops" => Stops!StopsAreJudged /\ Stops!QueuedWithItsReceipt]_vars
<1>1. Project!Stops!StopGateAssumption
  BY ProjectAssumption DEF Stops!StopGateAssumption, Project!Stops!StopGateAssumption
<1>2. /\ Project!Stops!Spec => []Project!Stops!TypeOK
      /\ Project!Stops!Spec => [][Project!Stops!StopsAreJudged]_(Project!Stops!vars)
      /\ Project!Stops!Spec => []Project!Stops!QueuedWasAccepted /\ [][Project!Stops!QueuedWithItsReceipt]_(Project!Stops!vars)
  BY <1>1, Project!StopsTypeCorrect, Project!EveryStopIsJudged, Project!QueuedIsAccepted
<1> QED BY StopsRuns, StopsInit, StopsNext, StopsInvariants, StopsActions, StopsAlone, <1>2,
           PTL DEF Spec, Project!Stops!Spec

(* The pruning of kept measurements: auto-debt.mjs *)

LEMMA PrunesInit == Prunes!Init => Project!Prunes!Init
  BY Zenon DEF Prunes!Init, Prunes!ToSet, Prunes!Idle, Project!Prunes!Init, Project!Prunes!ToSet,
               Project!Prunes!Idle

LEMMA PrunesNext == [Prunes!Next]_(Prunes!vars) => [Project!Prunes!Next]_(Project!Prunes!vars)
  BY Zenon DEF Prunes!Next, Prunes!Admit, Prunes!KeepNative, Prunes!Touch, Prunes!Without,
               Prunes!Sub, Prunes!Cardinality, Prunes!Rank, Prunes!Quiet, Prunes!Prepare,
               Prunes!Measure, Prunes!ToSet, Prunes!Drop, Prunes!Done, Prunes!WorkerPrunes,
               Prunes!ReadQueue, Prunes!Listed, Prunes!ReadDir, Prunes!Stat, Prunes!Beyond,
               Prunes!Among, Prunes!End, Prunes!Idle, Prunes!RemoveNext, Prunes!Settle, Prunes!vars,
               Project!Prunes!Next, Project!Prunes!Admit, Project!Prunes!KeepNative,
               Project!Prunes!Touch, Project!Prunes!Without, Project!Prunes!Sub,
               Project!Prunes!Cardinality, Project!Prunes!Rank, Project!Prunes!Quiet,
               Project!Prunes!Prepare, Project!Prunes!Measure, Project!Prunes!ToSet,
               Project!Prunes!Drop, Project!Prunes!Done, Project!Prunes!WorkerPrunes,
               Project!Prunes!ReadQueue, Project!Prunes!Listed, Project!Prunes!ReadDir,
               Project!Prunes!Stat, Project!Prunes!Beyond, Project!Prunes!Among, Project!Prunes!End,
               Project!Prunes!Idle, Project!Prunes!RemoveNext, Project!Prunes!Settle,
               Project!Prunes!vars

LEMMA PrunesInvariants == Project!Prunes!TypeOK =>
  Prunes!TypeOK
  BY Zenon DEF Prunes!TypeOK, Prunes!ToSet, Prunes!Cardinality, Project!Prunes!TypeOK,
               Project!Prunes!ToSet, Project!Prunes!Cardinality

LEMMA PrunesActions == [Project!Prunes!KeptForJob /\ Project!Prunes!LatestStay]_(Project!Prunes!vars) =>
  [Prunes!KeptForJob /\ Prunes!LatestStay]_(Prunes!vars)
  BY Zenon DEF Prunes!KeptForJob, Prunes!LatestStay, Prunes!ToSet, Prunes!vars,
               Project!Prunes!KeptForJob, Project!Prunes!LatestStay, Project!Prunes!ToSet,
               Project!Prunes!vars

LEMMA PrunesPart ==
  Spec => /\ [](part = "prunes" => Prunes!TypeOK)
          /\ [][part = "prunes" => Prunes!KeptForJob /\ Prunes!LatestStay]_vars
<1>1. Project!Prunes!WorkPruneAssumption
  BY ProjectAssumption DEF Prunes!WorkPruneAssumption, Prunes!ToSet, Prunes!IsInjective,
                           Project!Prunes!WorkPruneAssumption, Project!Prunes!ToSet,
                           Project!Prunes!IsInjective
<1>2. /\ Project!Prunes!Spec => []Project!Prunes!TypeOK
      /\ Project!Prunes!Spec => [][Project!Prunes!KeptForJob /\ Project!Prunes!LatestStay]_(Project!Prunes!vars)
  BY <1>1, Project!PrunesTypeCorrect, Project!PrunesSpareJobs
<1> QED BY PrunesRuns, PrunesInit, PrunesNext, PrunesInvariants, PrunesActions, PrunesAlone, <1>2,
           PTL DEF Spec, Project!Prunes!Spec

(* The Codex bridge: codex-bridge.mjs *)

LEMMA BridgeInit == Bridge!Init => Project!Bridge!Init
  BY Zenon DEF Bridge!Init, Bridge!Ids, Project!Bridge!Init, Project!Bridge!Ids

LEMMA BridgeNext == [Bridge!Next]_(Bridge!vars) => [Project!Bridge!Next]_(Project!Bridge!vars)
  BY Zenon DEF Bridge!Next, Bridge!Bridge, Bridge!Capture, Bridge!At, Bridge!Go, Bridge!Spawn,
               Bridge!SpawnFails, Bridge!BridgeOnly, Bridge!Read, Bridge!Ensure, Bridge!ActiveId,
               Bridge!EndOfLines, Bridge!Known, Bridge!Unknown, Bridge!Begin, Bridge!Lifecycle,
               Bridge!Ensured, Bridge!Baselined, Bridge!Completed, Bridge!SessionOnly,
               Bridge!Replace, Bridge!Replaced, Bridge!Prompt, Bridge!NativeActive, Bridge!Started,
               Bridge!Submit, Bridge!Event, Bridge!Record, Bridge!Exit, Bridge!Final, Bridge!Stop,
               Bridge!Codex, Bridge!Announce, Bridge!CodexIs, Bridge!Native, Bridge!NativeEvents,
               Bridge!AfterNative, Bridge!Ends, Bridge!Listens, Bridge!NativeFails, Bridge!Finish,
               Bridge!Work, Bridge!Die, Bridge!Edit, Bridge!vars, Project!Bridge!Next,
               Project!Bridge!Bridge, Project!Bridge!Capture, Project!Bridge!At, Project!Bridge!Go,
               Project!Bridge!Spawn, Project!Bridge!SpawnFails, Project!Bridge!BridgeOnly,
               Project!Bridge!Read, Project!Bridge!Ensure, Project!Bridge!ActiveId,
               Project!Bridge!EndOfLines, Project!Bridge!Known, Project!Bridge!Unknown,
               Project!Bridge!Begin, Project!Bridge!Lifecycle, Project!Bridge!Ensured,
               Project!Bridge!Baselined, Project!Bridge!Completed, Project!Bridge!SessionOnly,
               Project!Bridge!Replace, Project!Bridge!Replaced, Project!Bridge!Prompt,
               Project!Bridge!NativeActive, Project!Bridge!Started, Project!Bridge!Submit,
               Project!Bridge!Event, Project!Bridge!Record, Project!Bridge!Exit,
               Project!Bridge!Final, Project!Bridge!Stop, Project!Bridge!Codex,
               Project!Bridge!Announce, Project!Bridge!CodexIs, Project!Bridge!Native,
               Project!Bridge!NativeEvents, Project!Bridge!AfterNative, Project!Bridge!Ends,
               Project!Bridge!Listens, Project!Bridge!NativeFails, Project!Bridge!Finish,
               Project!Bridge!Work, Project!Bridge!Die, Project!Bridge!Edit, Project!Bridge!vars

LEMMA BridgeInvariants == Project!Bridge!TypeOK /\ Project!Bridge!NoOwnWorkBefore /\ Project!Bridge!WorkCompleted =>
  Bridge!TypeOK /\ Bridge!NoOwnWorkBefore /\ Bridge!WorkCompleted
  BY Zenon DEF Bridge!TypeOK, Bridge!Edits, Bridge!CodexStates, Bridge!NativeEvents, Bridge!Lines,
               Bridge!Ids, Bridge!Session, Bridge!Change, Bridge!NoOwnWorkBefore,
               Bridge!WorkCompleted, Project!Bridge!TypeOK, Project!Bridge!Edits,
               Project!Bridge!CodexStates, Project!Bridge!NativeEvents, Project!Bridge!Lines,
               Project!Bridge!Ids, Project!Bridge!Session, Project!Bridge!Change,
               Project!Bridge!NoOwnWorkBefore, Project!Bridge!WorkCompleted

LEMMA BridgePart ==
  Spec => [](part = "bridge" => Bridge!TypeOK /\ Bridge!NoOwnWorkBefore /\ Bridge!WorkCompleted)
<1>1. Project!Bridge!CodexBridgeAssumption
  BY ProjectAssumption DEF Bridge!CodexBridgeAssumption, Bridge!Edits, Bridge!Change,
                           Bridge!Session, Project!Bridge!CodexBridgeAssumption,
                           Project!Bridge!Edits, Project!Bridge!Change, Project!Bridge!Session
<1>2. /\ Project!Bridge!Spec => []Project!Bridge!TypeOK
      /\ Project!Bridge!Spec => []Project!Bridge!NoOwnWorkBefore /\ []Project!Bridge!WorkCompleted
  BY <1>1, Project!BridgeTypeCorrect, Project!WorkAttributed
<1> QED BY BridgeRuns, BridgeInit, BridgeNext, BridgeInvariants, <1>2, PTL DEF Spec,
           Project!Bridge!Spec

(* The pages of the memory journal: portal-memory-sync.mjs *)

LEMMA PagesInit == Pages!Init => Project!Init
  BY Zenon DEF Pages!Init, Pages!Histories, Pages!Prefixes, Pages!Idle, Project!Init,
               Project!Histories, Project!Prefixes, Project!Idle

LEMMA PagesNext == [Pages!Next]_(Pages!vars) => [Project!Next]_(Project!vars)
  BY Zenon DEF Pages!Next, Pages!Begin, Pages!Free, Pages!At, Pages!Idle, Pages!world,
               Pages!BeginResync, Pages!Step, Pages!Bind, Pages!BoundCursor, Pages!Fresh, Pages!End,
               Pages!Terminal, Pages!Probe, Pages!Bound, Pages!SetStatus, Pages!Round, Pages!Read,
               Pages!IsPrefix, Pages!JournalChanged, Pages!Identity, Pages!Update,
               Pages!CursorBound, Pages!View, Pages!IdOf, Pages!UpToDate, Pages!SameJournal,
               Pages!StillCurrent, Pages!Claim, Pages!StorePage, Pages!BuildPage, Pages!LostRace,
               Pages!Again, Pages!Send, Pages!StreamBound, Pages!OnStream, Pages!HandleFailure,
               Pages!PageBound, Pages!StatusAfter, Pages!Locate, Pages!HasStream, Pages!Verified,
               Pages!Unverifiable, Pages!Adopt, Pages!Resync, Pages!EpochAfter,
               Pages!SourceUnavailable, Pages!Timeout, Pages!Stop, Pages!Takes, Pages!Verdict,
               Pages!HeadAt, Pages!Pages, Pages!Refuses, Pages!Enroll, Pages!Append1,
               Pages!Histories, Pages!Prefixes, Pages!Replace, Pages!vars, Project!Next,
               Project!Begin, Project!Free, Project!At, Project!Idle, Project!world,
               Project!BeginResync, Project!Step, Project!Bind, Project!BoundCursor, Project!Fresh,
               Project!End, Project!Terminal, Project!Probe, Project!Bound, Project!SetStatus,
               Project!Round, Project!Read, Project!IsPrefix, Project!JournalChanged,
               Project!Identity, Project!Update, Project!CursorBound, Project!View, Project!IdOf,
               Project!UpToDate, Project!SameJournal, Project!StillCurrent, Project!Claim,
               Project!StorePage, Project!BuildPage, Project!LostRace, Project!Again, Project!Send,
               Project!StreamBound, Project!OnStream, Project!HandleFailure, Project!PageBound,
               Project!StatusAfter, Project!Locate, Project!HasStream, Project!Verified,
               Project!Unverifiable, Project!Adopt, Project!Resync, Project!EpochAfter,
               Project!SourceUnavailable, Project!Timeout, Project!Stop, Project!Takes,
               Project!Verdict, Project!HeadAt, Project!Pages, Project!Refuses, Project!Enroll,
               Project!Append1, Project!Histories, Project!Prefixes, Project!Replace, Project!vars

LEMMA PagesInvariants == Project!TypeOK /\ Project!PendingContinues /\ Project!OneBody =>
  Pages!TypeOK /\ Pages!PendingContinues /\ Pages!OneBody
  BY Zenon DEF Pages!TypeOK, Pages!Histories, Pages!Prefixes, Pages!Cursor, Pages!Identities,
               Pages!Terminal, Pages!Page, Pages!PageId, Pages!IsPrefix, Pages!Answer,
               Pages!PendingContinues, Pages!OnStream, Pages!OneBody, Pages!At, Pages!IdOf,
               Project!TypeOK, Project!Histories, Project!Prefixes, Project!Cursor,
               Project!Identities, Project!Terminal, Project!Page, Project!PageId, Project!IsPrefix,
               Project!Answer, Project!PendingContinues, Project!OnStream, Project!OneBody,
               Project!At, Project!IdOf

LEMMA PagesPart ==
  Spec => [](part = "pages" => Pages!TypeOK /\ Pages!PendingContinues /\ Pages!OneBody)
<1>1. Project!SyncAssumption
  BY ProjectAssumption DEF Pages!SyncAssumption, Pages!Events, Pages!Range, Pages!Page,
                           Pages!PageId, Pages!Histories, Pages!Prefixes, Pages!IsPrefix,
                           Pages!Cursor, Pages!Identities, Pages!Terminal, Pages!Answer,
                           Pages!Streams, Project!SyncAssumption, Project!Events, Project!Range,
                           Project!Page, Project!PageId, Project!Histories, Project!Prefixes,
                           Project!IsPrefix, Project!Cursor, Project!Identities, Project!Terminal,
                           Project!Answer, Project!Streams
<1>2. /\ Project!Spec => []Project!TypeOK
      /\ Project!Spec => []Project!PendingContinues
      /\ Project!Spec => [](changes = 0 => Project!OneBody)
      /\ Project!Spec => [](changes = 0)
  BY <1>1, Project!TypeCorrect, Project!StoredPageContinues, Project!PagesHaveOneBody,
     Project!NothingChanges
<1> QED BY PagesRuns, PagesInit, PagesNext, PagesInvariants, <1>2, PTL DEF Spec, Project!Spec
-----------------------------------------------------------------------------
(* What MCProject says of them together                                      *)

\* Hooks and repairs lose nothing that the two state files still hold, and the
\* locks of the state file and of the recorder have one holder: state.mjs,
\* recovery.mjs, provenance.mjs.
THEOREM StateIsKept == Spec => StateKept
  BY StatePart, ChainPart, PTL DEF StateKept

\* Where DiffWitness is required its block holds; a change enters the queue with
\* the receipt it has, and no prune removes it: the hook runners, auto-debt.mjs.
THEOREM EveryStopIsJudged == Spec => StopsAreJudged
  BY StopsPart, PrunesPart, PTL DEF StopsAreJudged

-----------------------------------------------------------------------------
Settings == INSTANCE Settings_proofs WITH
  Hooks <- Procs, Acts <- {"wipe", "workflow"}, Profiles <- {"balanced", "strict"},
  Parallel <- TRUE, RecorderFails <- TRUE, StateFails <- TRUE, MaxUses <- 1, MaxGrants <- 2, MaxCalls <- 1,
  Sessions <- {x1, x2}, Trees <- {t1, t2}, MaxHistory <- 2, MaxCompleted <- 2, MaxSessions <- 1, MaxPrompts <- 2,
  Creds <- {k1, k2}, Attempts <- 2, MaxResets <- 2, MaxWrites <- 4, ByFile <- FALSE, Busy <- FALSE,
  Snaps <- {s1, s2}, Dests <- {d1}, Older <- {}, MaxQueue <- 1, MaxTimes <- 2, MaxHeld <- 1,
  MaxClock <- 2, Reconfigure <- FALSE, MayStop <- TRUE,
  Turns <- {h1}, People <- {u1, u2}, Tools <- {w1}, Digests <- {d1, d2}, NoDigest <- None, NoFile <- None,
  Limit <- 4, MaxRuns <- 3, Made <- FALSE, OneByOne <- TRUE, Crashes <- 0, phase <- pc,
  Shapes <- {[sizes |-> <<>>, drops |-> 0], [sizes |-> <<>>, drops |-> 1],
             [sizes |-> <<1>>, drops |-> 0], [sizes |-> <<1, 1>>, drops |-> 1],
             [sizes |-> <<4>>, drops |-> 0], [sizes |-> <<2, 1, 1>>, drops |-> 2]},
  MaxEvents <- 5, MaxItems <- 3, PageBytes <- 3,
  Lists <- <<"relations", "components", "changes", "tasks">>, Memories <- Memories,
  Touched <- {<<>>, <<j1>>, <<j3>>, <<j1, j2>>, <<j3, j1>>}, Portable <- {j1, j2},
  RowLimits <- [relations |-> 1, components |-> 1, changes |-> 1, tasks |-> 1],
  MaxFiles <- 1, RowPaths <- 1, RestSizes <- {2, 8}, Told <- 5, MaxWarnings <- 5, SnapshotBytes <- 9,
  config <- enrolled, held <- confirmed, proc <- clients

(* The policy gate, with calls and approvals at once: policy.mjs *)

LEMMA GateInit == Gate!Init => Settings!Gate!Init
  BY Zenon DEF Gate!Init, Gate!None0, Gate!AnyAct, Gate!NoHook, Settings!Gate!Init,
               Settings!Gate!None0, Settings!Gate!AnyAct, Settings!Gate!NoHook

LEMMA GateNext == [Gate!Next]_(Gate!vars) => [Settings!Gate!Next]_(Settings!Gate!vars)
  BY Zenon DEF Gate!Next, Gate!Call, Gate!At, Gate!MayStart, Gate!Quiet, Gate!Becomes, Gate!None0,
               Gate!Usable, Gate!Blocked, Gate!Strongest, Gate!ProfileEffect, Gate!Builtin, Gate!GivenBack,
               Gate!Rule, Gate!Matches, Gate!Weight, Gate!Consume, Gate!AfterUse, Gate!Record,
               Gate!Check, Gate!Denies, Gate!Mutating, Gate!UpdateState, Gate!LetsThrough,
               Gate!StateThrows, Gate!Return, Gate!NoHook, Gate!AnyAct, Gate!GrantReads,
               Gate!GrantWrites, Gate!Expire, Gate!InitPolicy, Gate!vars, Settings!Gate!Next,
               Settings!Gate!Call, Settings!Gate!At, Settings!Gate!MayStart, Settings!Gate!Quiet,
               Settings!Gate!Becomes, Settings!Gate!None0, Settings!Gate!Usable, Settings!Gate!GivenBack,
               Settings!Gate!Blocked, Settings!Gate!Strongest, Settings!Gate!ProfileEffect,
               Settings!Gate!Builtin, Settings!Gate!Rule, Settings!Gate!Matches,
               Settings!Gate!Weight, Settings!Gate!Consume, Settings!Gate!AfterUse,
               Settings!Gate!Record, Settings!Gate!Check, Settings!Gate!Denies,
               Settings!Gate!Mutating, Settings!Gate!UpdateState, Settings!Gate!LetsThrough,
               Settings!Gate!StateThrows, Settings!Gate!Return, Settings!Gate!NoHook,
               Settings!Gate!AnyAct, Settings!Gate!GrantReads, Settings!Gate!GrantWrites,
               Settings!Gate!Expire, Settings!Gate!InitPolicy, Settings!Gate!vars

LEMMA GateInvariants == Settings!Gate!TypeOK /\ Settings!Gate!BlockedRunsArePaidFor /\ Settings!Gate!StrictFailsClosed =>
  Gate!TypeOK /\ Gate!BlockedRunsArePaidFor /\ Gate!StrictFailsClosed
  BY Zenon DEF Gate!TypeOK, Gate!Weight, Gate!BlockedRunsArePaidFor, Gate!StrictFailsClosed,
               Gate!At, Gate!Mutating, Settings!Gate!TypeOK, Settings!Gate!Weight,
               Settings!Gate!BlockedRunsArePaidFor, Settings!Gate!StrictFailsClosed,
               Settings!Gate!At, Settings!Gate!Mutating

LEMMA GatePart ==
  Spec => [](part = "gate" => Gate!TypeOK /\ Gate!BlockedRunsArePaidFor /\ Gate!StrictFailsClosed)
<1>1. Settings!Gate!ToolGateAssumption
  BY ProjectAssumption DEF Gate!ToolGateAssumption, Gate!Matches, Settings!Gate!ToolGateAssumption,
                           Settings!Gate!Matches
<1>2. /\ Settings!Gate!Spec => []Settings!Gate!TypeOK
      /\ Settings!Gate!Spec => []Settings!Gate!BlockedRunsArePaidFor
      /\ Settings!Gate!Spec => []Settings!Gate!StrictFailsClosed
  BY <1>1, Settings!GateTypeCorrect, Settings!GrantsBoundBlockedRuns, Settings!StrictDeniesUnrecorded
<1> QED BY GateRuns, GateInit, GateNext, GateInvariants, <1>2, PTL DEF Spec, Settings!Gate!Spec

(* The sessions of the state file: hook.mjs, task.mjs *)

LEMMA TasksInit == Tasks!Init => Settings!Tasks!Init
  BY Zenon DEF Tasks!Init, Tasks!Legacy, Tasks!NewSession, Settings!Tasks!Init,
               Settings!Tasks!Legacy, Settings!Tasks!NewSession

LEMMA TasksSub == \A s, S : Tasks!Sub(s, S) = Settings!Tasks!Sub(s, S)
  BY Zenon DEF Tasks!Sub, Settings!Tasks!Sub, Tasks!Rank, Settings!Tasks!Rank, Tasks!Cardinality, Settings!Tasks!Cardinality

LEMMA TasksSessions ==
  /\ Tasks!NewSession = Settings!Tasks!NewSession
  /\ \A s : Tasks!Ensured(s) = Settings!Tasks!Ensured(s)
  /\ \A s : Tasks!Begun(s) = Settings!Tasks!Begun(s)
  /\ \A r : Tasks!Freeze(r) = Settings!Tasks!Freeze(r)
<1>1. Tasks!NewSession = Settings!Tasks!NewSession
  BY Zenon DEF Tasks!NewSession, Settings!Tasks!NewSession
<1>2. \A s : Tasks!Ensured(s) = Settings!Tasks!Ensured(s)
  BY Zenon, <1>1 DEF Tasks!Ensured, Settings!Tasks!Ensured
<1>3. \A r : Tasks!Freeze(r) = Settings!Tasks!Freeze(r)
  BY Zenon DEF Tasks!Freeze, Settings!Tasks!Freeze, Tasks!Records, Settings!Tasks!Records, Tasks!LastOf, Settings!Tasks!LastOf
<1>4. \A s : Tasks!Begun(s) = Settings!Tasks!Begun(s)
  BY Zenon, <1>2, <1>3 DEF Tasks!Begun, Settings!Tasks!Begun, Tasks!FreezeFirst, Settings!Tasks!FreezeFirst
<1> QED BY <1>1, <1>2, <1>3, <1>4

LEMMA TasksSaves == \A s, r : Tasks!Save(s, r) => Settings!Tasks!Save(s, r)
<1>1. \A q, n : Tasks!LastOf(q, n) = Settings!Tasks!LastOf(q, n)
  BY Zenon DEF Tasks!LastOf, Settings!Tasks!LastOf
<1> QED BY Zenon, <1>1, TasksSub, TasksSessions DEF Tasks!Save, Settings!Tasks!Save

LEMMA TasksPrompted == \A r, kind, n : Tasks!Prompted(r, kind, n) = Settings!Tasks!Prompted(r, kind, n)
  BY Zenon DEF Tasks!Prompted, Settings!Tasks!Prompted, Tasks!Started, Settings!Tasks!Started, Tasks!Archived, Settings!Tasks!Archived, Tasks!LastOf, Settings!Tasks!LastOf

LEMMA TasksSteps ==
  /\ \A s : Tasks!SessionStart(s) => Settings!Tasks!SessionStart(s)
  /\ \A s, kind : Tasks!UserPromptSubmit(s, kind) => Settings!Tasks!UserPromptSubmit(s, kind)
  /\ \A s : Tasks!ToolEvent(s) => Settings!Tasks!ToolEvent(s)
  /\ \A s : Tasks!Stop(s) => Settings!Tasks!Stop(s)
  /\ \A t : Tasks!Edit(t) => Settings!Tasks!Edit(t)
<1>1. Tasks!Snapshot = Settings!Tasks!Snapshot /\ \A r, b : Tasks!WithBaseline(r, b) = Settings!Tasks!WithBaseline(r, b)
  BY Zenon DEF Tasks!Snapshot, Settings!Tasks!Snapshot, Tasks!WithBaseline, Settings!Tasks!WithBaseline
<1>2. \A s : Tasks!SessionStart(s) => Settings!Tasks!SessionStart(s)
  BY Zenon, <1>1, TasksSessions, TasksSaves DEF Tasks!SessionStart, Settings!Tasks!SessionStart
<1>3. \A s, kind : Tasks!UserPromptSubmit(s, kind) => Settings!Tasks!UserPromptSubmit(s, kind)
  BY Zenon, <1>1, TasksSessions, TasksSaves, TasksPrompted DEF Tasks!UserPromptSubmit, Settings!Tasks!UserPromptSubmit
<1>4. \A s : Tasks!ToolEvent(s) => Settings!Tasks!ToolEvent(s)
  BY Zenon, TasksSessions, TasksSaves DEF Tasks!ToolEvent, Settings!Tasks!ToolEvent
<1>5. \A r, c : Tasks!ChangeOf(r, c) = Settings!Tasks!ChangeOf(r, c) /\ Tasks!Done(r) = Settings!Tasks!Done(r)
  BY Zenon DEF Tasks!ChangeOf, Settings!Tasks!ChangeOf, Tasks!Done, Settings!Tasks!Done
<1>6. \A s : Tasks!Stop(s) => Settings!Tasks!Stop(s)
  BY Zenon, <1>1, <1>5, TasksSessions, TasksSaves DEF Tasks!Stop, Settings!Tasks!Stop
<1> QED BY <1>2, <1>3, <1>4, <1>6 DEF Tasks!Edit, Settings!Tasks!Edit

LEMMA TasksNext == [Tasks!Next]_(Tasks!vars) => [Settings!Tasks!Next]_(Settings!Tasks!vars)
  BY TasksSteps DEF Tasks!Next, Settings!Tasks!Next, Tasks!vars, Settings!Tasks!vars

LEMMA TasksInvariants == Settings!Tasks!TypeOK /\ Settings!Tasks!OneRecordEach /\ Settings!Tasks!HistoryIsRecent =>
  Tasks!TypeOK /\ Tasks!OneRecordEach /\ Tasks!HistoryIsRecent
  BY Zenon DEF Tasks!TypeOK, Tasks!Task, Tasks!ChangeId, Tasks!Completed, Tasks!OneRecordEach,
               Tasks!Records, Tasks!HistoryIsRecent, Settings!Tasks!TypeOK, Settings!Tasks!Task,
               Settings!Tasks!ChangeId, Settings!Tasks!Completed, Settings!Tasks!OneRecordEach,
               Settings!Tasks!Records, Settings!Tasks!HistoryIsRecent

LEMMA TasksActions == [Settings!Tasks!RecordedForItsMaker]_(Settings!Tasks!vars) =>
  [Tasks!RecordedForItsMaker]_(Tasks!vars)
  BY Zenon DEF Tasks!RecordedForItsMaker, Tasks!Records, Tasks!vars,
               Settings!Tasks!RecordedForItsMaker, Settings!Tasks!Records, Settings!Tasks!vars

LEMMA TasksPart ==
  Spec => /\ [](part = "tasks" => Tasks!TypeOK /\ Tasks!OneRecordEach /\ Tasks!HistoryIsRecent)
          /\ [][part = "tasks" => Tasks!RecordedForItsMaker]_vars
<1>1. Settings!Tasks!SessionTasksAssumption
  BY ProjectAssumption DEF Tasks!SessionTasksAssumption, Tasks!Task,
                           Settings!Tasks!SessionTasksAssumption, Settings!Tasks!Task
<1>2. /\ Settings!Tasks!Spec => []Settings!Tasks!TypeOK
      /\ Settings!Tasks!Spec => [](Settings!Tasks!OneRecordEach /\ Settings!Tasks!HistoryIsRecent)
      /\ Settings!Tasks!Spec => [][Settings!Tasks!RecordedForItsMaker]_(Settings!Tasks!vars)
  BY <1>1, Settings!TasksTypeCorrect, Settings!OneRecordOfEach, Settings!RecordsNameTheirMaker
<1> QED BY TasksRuns, TasksInit, TasksNext, TasksInvariants, TasksActions, TasksAlone, <1>2,
           PTL DEF Spec, Settings!Tasks!Spec

(* The delivery queue of the Portal: portal-client.mjs *)

LEMMA QueueInit == Queue!Init => Settings!Init
  BY Zenon DEF Queue!Init, Queue!Fresh, Settings!Init, Settings!Fresh

LEMMA QueueNext == [Queue!Next]_(Queue!vars) => [Settings!Next]_(Settings!vars)
  BY Zenon DEF Queue!Next, Queue!Build, Queue!Fresh, Queue!Built, Queue!files, Queue!NotConfigured,
               Queue!Queues, Queue!RefuseHeld, Queue!HeldBy, Queue!Queued, Queue!RefuseDuplicate,
               Queue!Ids, Queue!Remember, Queue!Last, Queue!Of, Queue!RefuseFull, Queue!Accept,
               Queue!Accepts, Queue!FirstBody, Queue!CommitInterrupted, Queue!ConflictInterrupted,
               Queue!MarkHeld, Queue!Sub, Queue!Cardinality, Queue!Rank, Queue!Flushes,
               Queue!StartFlush, Queue!NotEnrolled, Queue!Ends, Queue!ReadQueue, Queue!Acknowledged,
               Queue!Acknowledges, Queue!Removing, Queue!Conflict, Queue!Forget, Queue!Fails,
               Queue!Remove, Queue!Succeed, Queue!Recovered, Queue!PostFails, Queue!Answered,
               Queue!PostAccepted, Queue!Holds, Queue!Stored, Queue!PostConflicts, Queue!Return,
               Queue!Stops, Queue!Enroll, Queue!vars, Settings!Next, Settings!Build, Settings!Fresh,
               Settings!Built, Settings!files, Settings!NotConfigured, Settings!Queues,
               Settings!RefuseHeld, Settings!HeldBy, Settings!Queued, Settings!RefuseDuplicate,
               Settings!Ids, Settings!Remember, Settings!Last, Settings!Of, Settings!RefuseFull,
               Settings!Accept, Settings!Accepts, Settings!FirstBody, Settings!CommitInterrupted,
               Settings!ConflictInterrupted, Settings!MarkHeld, Settings!Sub, Settings!Cardinality,
               Settings!Rank, Settings!Flushes, Settings!StartFlush, Settings!NotEnrolled,
               Settings!Ends, Settings!ReadQueue, Settings!Acknowledged, Settings!Acknowledges,
               Settings!Removing, Settings!Conflict, Settings!Forget, Settings!Fails,
               Settings!Remove, Settings!Succeed, Settings!Recovered, Settings!PostFails,
               Settings!Answered, Settings!PostAccepted, Settings!Holds, Settings!Stored,
               Settings!PostConflicts, Settings!Return, Settings!Stops, Settings!Enroll,
               Settings!vars

LEMMA QueueInvariants == Settings!TypeOK /\ Settings!DeliveryIsTrue =>
  Queue!TypeOK /\ Queue!DeliveryIsTrue
  BY Zenon DEF Queue!TypeOK, Queue!Item, Queue!Time, Queue!ProcState, Queue!Kinds, Queue!Reasons,
               Queue!Answers, Queue!DeliveryIsTrue, Queue!NoDoubles, Queue!Cardinality, Queue!Ids,
               Queue!HeldIsThere, Queue!HealthyMeansComplete, Queue!Healthy, Queue!OneBody,
               Queue!Bodies, Queue!SyncOkDelivered, Settings!TypeOK, Settings!Item, Settings!Time,
               Settings!ProcState, Settings!Kinds, Settings!Reasons, Settings!Answers,
               Settings!DeliveryIsTrue, Settings!NoDoubles, Settings!Cardinality, Settings!Ids,
               Settings!HeldIsThere, Settings!HealthyMeansComplete, Settings!Healthy,
               Settings!OneBody, Settings!Bodies, Settings!SyncOkDelivered

LEMMA QueueSnaps == Settings!IsFiniteSet({s1, s2})
<1>1. <<s1, s2>> \in Seq({s1, s2}) /\ Len(<<s1, s2>>) = 2 /\ <<s1, s2>>[1] = s1 /\ <<s1, s2>>[2] = s2
  OBVIOUS
<1>2. 1 \in 1 .. 2 /\ 2 \in 1 .. 2
  OBVIOUS
<1> QED BY Zenon, <1>1, <1>2 DEF Settings!IsFiniteSet

LEMMA QueuePart ==
  Spec => [](part = "queue" => Queue!TypeOK /\ Queue!DeliveryIsTrue)
<1>1. Settings!QueueAssumption
  BY ProjectAssumption DEF Queue!QueueAssumption, Settings!QueueAssumption
<1>2. /\ Settings!Spec => []Settings!TypeOK
      /\ Settings!Spec => []Settings!DeliveryIsTrue
  BY <1>1, Settings!TypeCorrect, QueueSnaps, Settings!DeliveryToldTruly
<1> QED BY QueueRuns, QueueInit, QueueNext, QueueInvariants, <1>2, PTL DEF Spec, Settings!Spec

(* Configure and disconnect, while resets move the directory: portal-client.mjs, cli.mjs *)

LEMMA EnrollmentInit == Enrollment!Init => Settings!Enrollment!Init
  BY Zenon DEF Enrollment!Init, Enrollment!Idle, Settings!Enrollment!Init, Settings!Enrollment!Idle

LEMMA EnrollmentNext == [Enrollment!Next]_(Enrollment!vars) => [Settings!Enrollment!Next]_(Settings!Enrollment!vars)
  BY Zenon DEF Enrollment!Next, Enrollment!Start, Enrollment!At, Enrollment!Becomes,
               Enrollment!Idle, Enrollment!Ensure, Enrollment!Ensured, Enrollment!Goto,
               Enrollment!Throws, Enrollment!Enter, Enrollment!LockBusy, Enrollment!Write,
               Enrollment!Leaves, Enrollment!Status, Enrollment!Confirm, Enrollment!Confirms,
               Enrollment!Mine, Enrollment!TriesAgain, Enrollment!Check, Enrollment!Rollback,
               Enrollment!RollsBack, Enrollment!Return, Enrollment!Disconnect, Enrollment!Remove,
               Enrollment!Hook, Enrollment!Archive, Enrollment!Resets, Enrollment!Delete,
               Enrollment!DeleteOne, Enrollment!vars, Settings!Enrollment!Next,
               Settings!Enrollment!Start, Settings!Enrollment!At, Settings!Enrollment!Becomes,
               Settings!Enrollment!Idle, Settings!Enrollment!Ensure, Settings!Enrollment!Ensured,
               Settings!Enrollment!Goto, Settings!Enrollment!Throws, Settings!Enrollment!Enter,
               Settings!Enrollment!LockBusy, Settings!Enrollment!Write, Settings!Enrollment!Leaves,
               Settings!Enrollment!Status, Settings!Enrollment!Confirm,
               Settings!Enrollment!Confirms, Settings!Enrollment!Mine,
               Settings!Enrollment!TriesAgain, Settings!Enrollment!Check,
               Settings!Enrollment!Rollback, Settings!Enrollment!RollsBack,
               Settings!Enrollment!Return, Settings!Enrollment!Disconnect,
               Settings!Enrollment!Remove, Settings!Enrollment!Hook, Settings!Enrollment!Archive,
               Settings!Enrollment!Resets, Settings!Enrollment!Delete,
               Settings!Enrollment!DeleteOne, Settings!Enrollment!vars

LEMMA EnrollmentInvariants == Settings!Enrollment!TypeOK /\ Settings!Enrollment!EnrolledHasIdentity /\ Settings!Enrollment!ThrowLeavesNothing /\ Settings!Enrollment!ReportsOwn =>
  Enrollment!TypeOK /\ Enrollment!EnrolledHasIdentity /\ Enrollment!ThrowLeavesNothing /\ Enrollment!ReportsOwn
  BY Zenon DEF Enrollment!TypeOK, Enrollment!Saved, Enrollment!EnrolledHasIdentity,
               Enrollment!Quiet, Enrollment!ThrowLeavesNothing, Enrollment!At, Enrollment!Mine,
               Enrollment!ReportsOwn, Settings!Enrollment!TypeOK, Settings!Enrollment!Saved,
               Settings!Enrollment!EnrolledHasIdentity, Settings!Enrollment!Quiet,
               Settings!Enrollment!ThrowLeavesNothing, Settings!Enrollment!At,
               Settings!Enrollment!Mine, Settings!Enrollment!ReportsOwn

LEMMA EnrollmentPart ==
  Spec => [](part = "enrollment" => Enrollment!TypeOK /\ Enrollment!EnrolledHasIdentity /\ Enrollment!ThrowLeavesNothing /\ Enrollment!ReportsOwn)
<1>1. Settings!Enrollment!EnrollmentAssumption
  BY ProjectAssumption DEF Enrollment!EnrollmentAssumption, Settings!Enrollment!EnrollmentAssumption
<1>2. /\ Settings!Enrollment!Spec => []Settings!Enrollment!TypeOK
      /\ Settings!Enrollment!Spec => []Settings!Enrollment!EnrolledHasIdentity
      /\ Settings!Enrollment!Spec => []Settings!Enrollment!ThrowLeavesNothing
      /\ Settings!Enrollment!Spec => []Settings!Enrollment!ReportsOwn
  BY <1>1, Settings!EnrollmentTypeCorrect, Settings!EnrollmentHasIdentity,
     Settings!ThrowsLeaveNothing, Settings!OwnIsReported
<1> QED BY EnrollmentRuns, EnrollmentInit, EnrollmentNext, EnrollmentInvariants, <1>2, PTL DEF Spec,
           Settings!Enrollment!Spec

(* Attestation, one process after another: attest.mjs, ownership.mjs *)

LEMMA CalmInit == Calm!Init => Settings!Attest!Init
  BY Zenon DEF Calm!Init, Calm!Procs, Calm!Fresh, Settings!Attest!Init, Settings!Attest!Procs,
               Settings!Attest!Fresh

LEMMA CalmNext == [Calm!Next]_(Calm!vars) => [Settings!Attest!Next]_(Settings!Attest!vars)
<1>1. \A p, d : /\ Calm!Accept(p) => Settings!Attest!Accept(p)
                /\ Calm!Attest(p) => Settings!Attest!Attest(p)
                /\ Calm!Evidence(p) => Settings!Attest!Evidence(p)
                /\ Calm!Stop(p, d) => Settings!Attest!Stop(p, d)
  BY Zenon DEF Calm!Accept, Calm!Starts, Calm!At, Calm!Procs, Calm!Go, Calm!Fresh, Calm!files,
               Calm!Attest, Calm!Evidence, Calm!Stop, Settings!Attest!Accept,
               Settings!Attest!Starts, Settings!Attest!At, Settings!Attest!Procs,
               Settings!Attest!Go, Settings!Attest!Fresh, Settings!Attest!files,
               Settings!Attest!Attest, Settings!Attest!Evidence, Settings!Attest!Stop
<1>2. \A p : /\ Calm!WriteReceipt(p) => Settings!Attest!WriteReceipt(p)
             /\ Calm!Subject(p) => Settings!Attest!Subject(p)
             /\ Calm!Report(p) => Settings!Attest!Report(p)
  BY Zenon DEF Calm!WriteReceipt, Calm!At, Calm!Go, Calm!Subject, Calm!Fresh, Calm!files,
               Calm!Report, Calm!ReportOn, Settings!Attest!WriteReceipt, Settings!Attest!At,
               Settings!Attest!Go, Settings!Attest!Subject, Settings!Attest!Fresh,
               Settings!Attest!files, Settings!Attest!Report, Settings!Attest!ReportOn
<1>3. \A p : /\ Calm!Found(p) => Settings!Attest!Found(p)
             /\ Calm!Generate(p) => Settings!Attest!Generate(p)
  BY Zenon DEF Calm!Found, Calm!At, Calm!Go, Calm!AfterEnsure, Calm!Generate, Settings!Attest!Found,
               Settings!Attest!At, Settings!Attest!Go, Settings!Attest!AfterEnsure,
               Settings!Attest!Generate
<1>4. \A p : /\ Calm!WriteKey(p) => Settings!Attest!WriteKey(p)
             /\ Calm!WritePublic(p) => Settings!Attest!WritePublic(p)
             /\ Calm!WriteIdentity(p) => Settings!Attest!WriteIdentity(p)
  BY Zenon DEF Calm!WriteKey, Calm!At, Calm!NewKey, Calm!Go, Calm!WritePublic, Calm!WriteIdentity,
               Calm!AfterEnsure, Settings!Attest!WriteKey, Settings!Attest!At,
               Settings!Attest!NewKey, Settings!Attest!Go, Settings!Attest!WritePublic,
               Settings!Attest!WriteIdentity, Settings!Attest!AfterEnsure
<1>5. \A p : /\ Calm!Sign(p) => Settings!Attest!Sign(p)
             /\ Calm!Load(p) => Settings!Attest!Load(p)
  BY Zenon DEF Calm!Sign, Calm!At, Calm!Go, Calm!files, Calm!Load, Calm!Fresh, Settings!Attest!Sign,
               Settings!Attest!At, Settings!Attest!Go, Settings!Attest!files, Settings!Attest!Load,
               Settings!Attest!Fresh
<1>6. \A p : /\ Calm!Truncate(p) => Settings!Attest!Truncate(p)
             /\ Calm!Accepted(p) => Settings!Attest!Accepted(p)
  BY Zenon DEF Calm!Truncate, Calm!At, Calm!Go, Calm!Accepted, Calm!Fresh, Calm!Counted, Calm!ToSet,
               Calm!files, Settings!Attest!Truncate, Settings!Attest!At, Settings!Attest!Go,
               Settings!Attest!Accepted, Settings!Attest!Fresh, Settings!Attest!Counted,
               Settings!Attest!ToSet, Settings!Attest!files
<1>r. \A items, a : Calm!Renewed(items, a) = Settings!Attest!Renewed(items, a)
  BY Zenon DEF Calm!Renewed, Calm!Sub, Calm!Cardinality, Calm!Rank, Calm!Renews,
               Settings!Attest!Renewed, Settings!Attest!Sub, Settings!Attest!Cardinality,
               Settings!Attest!Rank, Settings!Attest!Renews
<1>7. \A p : /\ Calm!Save(p) => Settings!Attest!Save(p)
  BY Zenon, <1>r DEF Calm!Save, Calm!At, Calm!Acceptance, Calm!Go, Calm!Fresh, Settings!Attest!Save,
                     Settings!Attest!At, Settings!Attest!Acceptance, Settings!Attest!Go,
                     Settings!Attest!Fresh
<1>8. \A p : /\ Calm!Seal(p) => Settings!Attest!Seal(p)
             /\ Calm!Bundle(p) => Settings!Attest!Bundle(p)
             /\ Calm!Crash(p) => Settings!Attest!Crash(p)
  BY Zenon DEF Calm!Seal, Calm!At, Calm!Go, Calm!Fresh, Calm!Bundle, Calm!Crash, Calm!files,
               Settings!Attest!Seal, Settings!Attest!At, Settings!Attest!Go, Settings!Attest!Fresh,
               Settings!Attest!Bundle, Settings!Attest!Crash, Settings!Attest!files
<1> QED BY Zenon, <1>1, <1>2, <1>3, <1>4, <1>5, <1>6, <1>7, <1>8 DEF Calm!Next, Calm!Step,
                                                                     Calm!Procs,
                                                                     Settings!Attest!Next,
                                                                     Settings!Attest!Step,
                                                                     Settings!Attest!Procs,
                                                                     Calm!vars, Calm!files,
                                                                     Settings!Attest!vars,
                                                                     Settings!Attest!files

LEMMA CalmInvariants == Settings!Attest!TypeOK /\ Settings!Attest!AttestationCurrent =>
  Calm!TypeOK /\ Calm!AttestationCurrent
  BY Zenon DEF Calm!TypeOK, Calm!AttestationCurrent, Calm!Quiet, Calm!Procs, Calm!At,
               Settings!Attest!TypeOK, Settings!Attest!AttestationCurrent, Settings!Attest!Quiet,
               Settings!Attest!Procs, Settings!Attest!At

LEMMA TwoAndTwo ==
  Settings!IsFiniteSet({u1, u2} \X {d1, d2}) /\ Settings!Cardinality({u1, u2} \X {d1, d2}) <= 4
<1>1. \A a, b : /\ Settings!IsFiniteSet({a, b}) /\ Settings!Cardinality({a, b}) \in {1, 2}
  <2> TAKE a, b
  <2>1. Settings!IsFiniteSet({}) /\ Settings!Cardinality({}) = 0
    BY Settings!FS_EmptySet
  <2>2. Settings!IsFiniteSet({} \cup {a}) /\ Settings!Cardinality({} \cup {a}) = 1
    BY <2>1, Settings!FS_AddElement
  <2>3. {} \cup {a} = {a} /\ {a, b} = {a} \cup {b}
    OBVIOUS
  <2> QED BY <2>2, <2>3, Settings!FS_AddElement
<1>2. /\ Settings!IsFiniteSet({u1, u2} \X {d1, d2})
      /\ Settings!Cardinality({u1, u2} \X {d1, d2}) = Settings!Cardinality({u1, u2}) * Settings!Cardinality({d1, d2})
  BY <1>1, Settings!FS_Product
<1>3. \A m, n \in {1, 2} : m * n <= 4
  OBVIOUS
<1> HIDE DEF Settings!Cardinality
<1> QED BY <1>1, <1>2, <1>3

LEMMA CalmPart ==
  Spec => [](part = "calm" => Calm!TypeOK /\ Calm!AttestationCurrent)
<1>1. Settings!Attest!AttestationAssumption
  BY ProjectAssumption DEF Calm!AttestationAssumption, Settings!Attest!AttestationAssumption
<1>2. /\ Settings!Attest!Spec => []Settings!Attest!TypeOK
      /\ Settings!Attest!Spec => []Settings!Few
      /\ Settings!Attest!Spec /\ []Settings!Few => []Settings!Attest!AttestationCurrent
  BY <1>1, Settings!AttestationTypeCorrect, TwoAndTwo, Settings!FewConsents,
     Settings!AttestationIsCurrent DEF Settings!Attest!Procs
<1> QED BY CalmRuns, CalmInit, CalmNext, CalmInvariants, <1>2, PTL DEF Spec, Settings!Attest!Spec

(* The building of a page: portal-memory-sync.mjs *)

LEMMA ComposerInit == Composer!Init => Settings!Composer!Init
  BY Zenon DEF Composer!Init, Composer!NoPage, Settings!Composer!Init, Settings!Composer!NoPage

LEMMA ComposerNext == [Composer!Next]_(Composer!vars) => [Settings!Composer!Next]_(Settings!Composer!vars)
  BY Zenon DEF Composer!Next, Composer!Search, Composer!Fits, Composer!Cardinality, Composer!Bytes,
               Composer!BytesOf, Composer!Composed, Composer!ItemsOf, Composer!PartsOf,
               Composer!PartialOf, Composer!Items, Composer!Represented, Composer!Narrowed,
               Composer!Searched, Composer!NoPage, Composer!Trim, Composer!Trimmed, Composer!vars,
               Settings!Composer!Next, Settings!Composer!Search, Settings!Composer!Fits,
               Settings!Composer!Cardinality, Settings!Composer!Bytes, Settings!Composer!BytesOf,
               Settings!Composer!Composed, Settings!Composer!ItemsOf, Settings!Composer!PartsOf,
               Settings!Composer!PartialOf, Settings!Composer!Items, Settings!Composer!Represented,
               Settings!Composer!Narrowed, Settings!Composer!Searched, Settings!Composer!NoPage,
               Settings!Composer!Trim, Settings!Composer!Trimmed, Settings!Composer!vars

LEMMA ComposerInvariants == Settings!Composer!TypeOK /\ Settings!Composer!EveryEventAccounted /\ Settings!Composer!NothingDroppedSilently /\ Settings!Composer!LongestPrefix =>
  Composer!TypeOK /\ Composer!EveryEventAccounted /\ Composer!NothingDroppedSilently /\ Composer!LongestPrefix
  BY Zenon DEF Composer!TypeOK, Composer!EveryEventAccounted, Composer!Fits, Composer!Cardinality,
               Composer!Bytes, Composer!BytesOf, Composer!Shown, Composer!NothingDroppedSilently,
               Composer!PartsOf, Composer!LongestPrefix, Composer!Composed, Composer!ItemsOf,
               Composer!PartialOf, Composer!Items, Composer!Represented, Settings!Composer!TypeOK,
               Settings!Composer!EveryEventAccounted, Settings!Composer!Fits,
               Settings!Composer!Cardinality, Settings!Composer!Bytes, Settings!Composer!BytesOf,
               Settings!Composer!Shown, Settings!Composer!NothingDroppedSilently,
               Settings!Composer!PartsOf, Settings!Composer!LongestPrefix,
               Settings!Composer!Composed, Settings!Composer!ItemsOf, Settings!Composer!PartialOf,
               Settings!Composer!Items, Settings!Composer!Represented

LEMMA ComposerPart ==
  Spec => [](part = "composer" => Composer!TypeOK /\ Composer!EveryEventAccounted /\ Composer!NothingDroppedSilently /\ Composer!LongestPrefix)
<1>1. Settings!Composer!PageAssumption
  BY ProjectAssumption DEF Composer!PageAssumption, Settings!Composer!PageAssumption
<1>2. Settings!Composer!Spec => [](Settings!Composer!TypeOK /\ Settings!Composer!EveryEventAccounted
        /\ Settings!Composer!NothingDroppedSilently /\ Settings!Composer!LongestPrefix)
  BY <1>1, Settings!PagesAccount
<1> QED BY ComposerRuns, ComposerInit, ComposerNext, ComposerInvariants, <1>2, PTL DEF Spec,
           Settings!Composer!Spec

(* The building of a snapshot: portal-snapshot.mjs *)

LEMMA SnapshotInit == Snapshot!Init => Settings!Snapshot!Init
<1>1. Snapshot!Names = Settings!Snapshot!Names
  BY Zenon DEF Snapshot!Names, Snapshot!Content, Settings!Snapshot!Names, Settings!Snapshot!Content
<1> QED BY Zenon, <1>1 DEF Snapshot!Init, Settings!Snapshot!Init

LEMMA SnapshotNext == [Snapshot!Next]_(Snapshot!vars) => [Settings!Snapshot!Next]_(Settings!Snapshot!vars)
<1>1. Snapshot!Fits = Settings!Snapshot!Fits
  BY Zenon DEF Snapshot!Fits, Snapshot!Cardinality, Snapshot!Held, Snapshot!Id, Snapshot!Names,
               Snapshot!Content, Snapshot!Fixed, Snapshot!Files, Snapshot!Kept, Snapshot!First,
               Snapshot!Rank, Snapshot!Row, Settings!Snapshot!Fits, Settings!Snapshot!Cardinality,
               Settings!Snapshot!Held, Settings!Snapshot!Id, Settings!Snapshot!Names,
               Settings!Snapshot!Content, Settings!Snapshot!Fixed, Settings!Snapshot!Files,
               Settings!Snapshot!Kept, Settings!Snapshot!First, Settings!Snapshot!Rank,
               Settings!Snapshot!Row
<1>2. Snapshot!Names = Settings!Snapshot!Names
  BY Zenon DEF Snapshot!Names, Snapshot!Content, Settings!Snapshot!Names, Settings!Snapshot!Content
<1>0. Snapshot!Uncovered = Settings!Snapshot!Uncovered /\ Snapshot!MemoryUncovered = Settings!Snapshot!MemoryUncovered
  BY Zenon DEF Snapshot!Uncovered, Snapshot!MemoryUncovered, Snapshot!Rejected,
               Snapshot!MemoryPaths, Snapshot!PathsOf, Snapshot!Content, Snapshot!Row,
               Snapshot!Source, Snapshot!Limited, Snapshot!Admitted, Snapshot!PathsKept,
               Snapshot!Kept, Snapshot!First, Snapshot!Rank, Snapshot!Cardinality, Snapshot!Files,
               Settings!Snapshot!Uncovered, Settings!Snapshot!MemoryUncovered,
               Settings!Snapshot!Rejected, Settings!Snapshot!MemoryPaths, Settings!Snapshot!PathsOf,
               Settings!Snapshot!Content, Settings!Snapshot!Row, Settings!Snapshot!Source,
               Settings!Snapshot!Limited, Settings!Snapshot!Admitted, Settings!Snapshot!PathsKept,
               Settings!Snapshot!Kept, Settings!Snapshot!First, Settings!Snapshot!Rank,
               Settings!Snapshot!Cardinality, Settings!Snapshot!Files
<1>p. \A c, w, s : Snapshot!PrependIf(c, w, s) = Settings!Snapshot!PrependIf(c, w, s)
  BY Zenon DEF Snapshot!PrependIf, Snapshot!Prepend, Snapshot!Upto, Snapshot!Sub,
               Snapshot!Cardinality, Snapshot!Rank, Settings!Snapshot!PrependIf,
               Settings!Snapshot!Prepend, Settings!Snapshot!Upto, Settings!Snapshot!Sub,
               Settings!Snapshot!Cardinality, Settings!Snapshot!Rank
<1>3. Snapshot!Project => Settings!Snapshot!Project
  BY Zenon DEF Snapshot!Project, Snapshot!Names, Snapshot!Content, Snapshot!Projected,
               Snapshot!First, Snapshot!Rank, Snapshot!Cardinality, Snapshot!Admitted,
               Snapshot!Source, Snapshot!Row, Snapshot!PrependIf, Snapshot!Prepend, Snapshot!Upto,
               Snapshot!Sub, Snapshot!Told1, Settings!Snapshot!Project, Settings!Snapshot!Names,
               Settings!Snapshot!Content, Settings!Snapshot!Projected, Settings!Snapshot!First,
               Settings!Snapshot!Rank, Settings!Snapshot!Cardinality, Settings!Snapshot!Admitted,
               Settings!Snapshot!Source, Settings!Snapshot!Row, Settings!Snapshot!PrependIf,
               Settings!Snapshot!Prepend, Settings!Snapshot!Upto, Settings!Snapshot!Sub,
               Settings!Snapshot!Told1
<1>4. Snapshot!Relate => Settings!Snapshot!Relate
  BY Zenon DEF Snapshot!Relate, Snapshot!Related, Snapshot!Row, Snapshot!Removed, Snapshot!Id,
               Snapshot!Source, Snapshot!Items, Snapshot!Names, Snapshot!Content,
               Snapshot!PrependIf, Snapshot!Prepend, Snapshot!Upto, Snapshot!Sub,
               Snapshot!Cardinality, Snapshot!Rank, Settings!Snapshot!Relate,
               Settings!Snapshot!Related, Settings!Snapshot!Row, Settings!Snapshot!Removed,
               Settings!Snapshot!Id, Settings!Snapshot!Source, Settings!Snapshot!Items,
               Settings!Snapshot!Names, Settings!Snapshot!Content, Settings!Snapshot!PrependIf,
               Settings!Snapshot!Prepend, Settings!Snapshot!Upto, Settings!Snapshot!Sub,
               Settings!Snapshot!Cardinality, Settings!Snapshot!Rank
<1>5. Snapshot!Cover => Settings!Snapshot!Cover
  BY Zenon, <1>0, <1>p DEF Snapshot!Cover, Settings!Snapshot!Cover
<1>6. Snapshot!Measure => Settings!Snapshot!Measure
  BY Zenon, <1>1 DEF Snapshot!Measure, Snapshot!Upto, Settings!Snapshot!Measure,
                     Settings!Snapshot!Upto
<1>7. Snapshot!Fit => Settings!Snapshot!Fit
  BY Zenon, <1>1, <1>2 DEF Snapshot!Fit, Snapshot!Last, Settings!Snapshot!Fit,
                           Settings!Snapshot!Last
<1>8. Snapshot!Check => Settings!Snapshot!Check
  BY Zenon, <1>1 DEF Snapshot!Check, Settings!Snapshot!Check
<1> QED BY <1>3, <1>4, <1>5, <1>6, <1>7, <1>8 DEF Snapshot!Next, Settings!Snapshot!Next, Snapshot!vars, Settings!Snapshot!vars

LEMMA SnapshotInvariants == Settings!Snapshot!TypeOK /\ Settings!Snapshot!NothingOmittedSilently /\ Settings!Snapshot!NoRemovedEndpoint /\ Settings!Snapshot!MemoryYieldsInOrder =>
  Snapshot!TypeOK /\ Snapshot!NothingOmittedSilently /\ Snapshot!NoRemovedEndpoint /\ Snapshot!MemoryYieldsInOrder
  BY Zenon DEF Snapshot!TypeOK, Snapshot!Names, Snapshot!Content, Snapshot!Source,
               Snapshot!Cardinality, Snapshot!MemoryPaths, Snapshot!PathsOf, Snapshot!Row,
               Snapshot!NothingOmittedSilently, Snapshot!RowsSaid, Snapshot!RowKinds,
               Snapshot!Files, Snapshot!Kept, Snapshot!First, Snapshot!Rank, Snapshot!PathsKept,
               Snapshot!NoRemovedEndpoint, Snapshot!Removed, Snapshot!Id, Snapshot!Items,
               Snapshot!MemoryYieldsInOrder, Snapshot!Held, Snapshot!Fixed, Snapshot!Projected,
               Snapshot!Admitted, Settings!Snapshot!TypeOK, Settings!Snapshot!Names,
               Settings!Snapshot!Content, Settings!Snapshot!Source, Settings!Snapshot!Cardinality,
               Settings!Snapshot!MemoryPaths, Settings!Snapshot!PathsOf, Settings!Snapshot!Row,
               Settings!Snapshot!NothingOmittedSilently, Settings!Snapshot!RowsSaid,
               Settings!Snapshot!RowKinds, Settings!Snapshot!Files, Settings!Snapshot!Kept,
               Settings!Snapshot!First, Settings!Snapshot!Rank, Settings!Snapshot!PathsKept,
               Settings!Snapshot!NoRemovedEndpoint, Settings!Snapshot!Removed, Settings!Snapshot!Id,
               Settings!Snapshot!Items, Settings!Snapshot!MemoryYieldsInOrder,
               Settings!Snapshot!Held, Settings!Snapshot!Fixed, Settings!Snapshot!Projected,
               Settings!Snapshot!Admitted

LEMMA SnapshotPart ==
  Spec => [](part = "snapshot" => Snapshot!TypeOK /\ Snapshot!NothingOmittedSilently /\ Snapshot!NoRemovedEndpoint /\ Snapshot!MemoryYieldsInOrder)
<1>1. Settings!Snapshot!SnapshotAssumption
  BY ProjectAssumption DEF Snapshot!SnapshotAssumption, Snapshot!Names, Snapshot!Content,
                           Settings!Snapshot!SnapshotAssumption, Settings!Snapshot!Names,
                           Settings!Snapshot!Content
<1>2. Settings!Snapshot!Spec => [](Settings!Snapshot!TypeOK /\ Settings!Snapshot!NothingOmittedSilently
        /\ Settings!Snapshot!NoRemovedEndpoint /\ Settings!Snapshot!MemoryYieldsInOrder)
  BY <1>1, Settings!SnapshotsTell
<1> QED BY SnapshotRuns, SnapshotInit, SnapshotNext, SnapshotInvariants, <1>2, PTL DEF Spec,
           Settings!Snapshot!Spec
-----------------------------------------------------------------------------
(* What MCProject says of them together                                      *)

\* What leaves for the Portal is what it says: a delivery that is reported is one,
\* a stored page continues its cursor and has one body, a page and a snapshot say
\* what they leave out: portal-client.mjs, portal-memory-sync.mjs, portal-snapshot.mjs.
THEOREM SentHolds == Spec => []SentIsTrue
<1>1. /\ part = "queue" => Queue!TypeOK /\ Queue!DeliveryIsTrue
      /\ part = "pages" => Pages!TypeOK /\ Pages!PendingContinues /\ Pages!OneBody
      /\ part = "composer" => /\ Composer!TypeOK /\ Composer!EveryEventAccounted
                              /\ Composer!NothingDroppedSilently /\ Composer!LongestPrefix
      /\ part = "snapshot" => /\ Snapshot!TypeOK /\ Snapshot!NothingOmittedSilently
                              /\ Snapshot!NoRemovedEndpoint /\ Snapshot!MemoryYieldsInOrder
      => SentIsTrue
  BY Zenon DEF SentIsTrue
<1> QED BY <1>1, QueuePart, PagesPart, ComposerPart, SnapshotPart, PTL

-----------------------------------------------------------------------------
Narrow == INSTANCE Settings_proofs WITH
  Hooks <- Procs, Acts <- {"wipe", "workflow"}, Profiles <- {"balanced", "strict"},
  Parallel <- TRUE, RecorderFails <- TRUE, StateFails <- TRUE, MaxUses <- 1, MaxGrants <- 2, MaxCalls <- 1,
  Sessions <- {x1}, Trees <- {t1, t2, t3}, MaxHistory <- 1, MaxCompleted <- 1, MaxSessions <- 1, MaxPrompts <- 3,
  Creds <- {k1, k2}, Attempts <- 2, MaxResets <- 1, MaxWrites <- 3, ByFile <- TRUE, Busy <- TRUE,
  Snaps <- {s1, s2}, Dests <- {d1}, Older <- {}, MaxQueue <- 1, MaxTimes <- 2, MaxHeld <- 1,
  MaxClock <- 2, Reconfigure <- FALSE, MayStop <- TRUE,
  Turns <- {h1}, People <- {u1}, Tools <- {}, Digests <- {d1, d2, d3}, NoDigest <- None, NoFile <- None,
  Limit <- 2, MaxRuns <- 3, Made <- TRUE, OneByOne <- FALSE, Crashes <- 0, phase <- pc,
  Shapes <- {}, MaxEvents <- 1, MaxItems <- 1, PageBytes <- 1,
  Lists <- <<"relations", "components", "changes">>, Memories <- {}, Touched <- {}, Portable <- {},
  RowLimits <- [relations |-> 1, components |-> 1, changes |-> 1],
  MaxFiles <- 1, RowPaths <- 1, RestSizes <- {}, Told <- 5, MaxWarnings <- 5, SnapshotBytes <- 9,
  config <- enrolled, held <- confirmed, proc <- clients

(* One session, with fewer tasks and changes kept: task.mjs *)

LEMMA TrimmedInit == Trimmed!Init => Narrow!Tasks!Init
  BY Zenon DEF Trimmed!Init, Trimmed!Legacy, Trimmed!NewSession, Narrow!Tasks!Init,
               Narrow!Tasks!Legacy, Narrow!Tasks!NewSession

LEMMA TrimmedSub == \A s, S : Trimmed!Sub(s, S) = Narrow!Tasks!Sub(s, S)
  BY Zenon DEF Trimmed!Sub, Narrow!Tasks!Sub, Trimmed!Rank, Narrow!Tasks!Rank, Trimmed!Cardinality, Narrow!Tasks!Cardinality

LEMMA TrimmedSessions ==
  /\ Trimmed!NewSession = Narrow!Tasks!NewSession
  /\ \A s : Trimmed!Ensured(s) = Narrow!Tasks!Ensured(s)
  /\ \A s : Trimmed!Begun(s) = Narrow!Tasks!Begun(s)
  /\ \A r : Trimmed!Freeze(r) = Narrow!Tasks!Freeze(r)
<1>1. Trimmed!NewSession = Narrow!Tasks!NewSession
  BY Zenon DEF Trimmed!NewSession, Narrow!Tasks!NewSession
<1>2. \A s : Trimmed!Ensured(s) = Narrow!Tasks!Ensured(s)
  BY Zenon, <1>1 DEF Trimmed!Ensured, Narrow!Tasks!Ensured
<1>3. \A r : Trimmed!Freeze(r) = Narrow!Tasks!Freeze(r)
  BY Zenon DEF Trimmed!Freeze, Narrow!Tasks!Freeze, Trimmed!Records, Narrow!Tasks!Records, Trimmed!LastOf, Narrow!Tasks!LastOf
<1>4. \A s : Trimmed!Begun(s) = Narrow!Tasks!Begun(s)
  BY Zenon, <1>2, <1>3 DEF Trimmed!Begun, Narrow!Tasks!Begun, Trimmed!FreezeFirst, Narrow!Tasks!FreezeFirst
<1> QED BY <1>1, <1>2, <1>3, <1>4

LEMMA TrimmedSaves == \A s, r : Trimmed!Save(s, r) => Narrow!Tasks!Save(s, r)
<1>1. \A q, n : Trimmed!LastOf(q, n) = Narrow!Tasks!LastOf(q, n)
  BY Zenon DEF Trimmed!LastOf, Narrow!Tasks!LastOf
<1> QED BY Zenon, <1>1, TrimmedSub, TrimmedSessions DEF Trimmed!Save, Narrow!Tasks!Save

LEMMA TrimmedPrompted == \A r, kind, n : Trimmed!Prompted(r, kind, n) = Narrow!Tasks!Prompted(r, kind, n)
  BY Zenon DEF Trimmed!Prompted, Narrow!Tasks!Prompted, Trimmed!Started, Narrow!Tasks!Started, Trimmed!Archived, Narrow!Tasks!Archived, Trimmed!LastOf, Narrow!Tasks!LastOf

LEMMA TrimmedSteps ==
  /\ \A s : Trimmed!SessionStart(s) => Narrow!Tasks!SessionStart(s)
  /\ \A s, kind : Trimmed!UserPromptSubmit(s, kind) => Narrow!Tasks!UserPromptSubmit(s, kind)
  /\ \A s : Trimmed!ToolEvent(s) => Narrow!Tasks!ToolEvent(s)
  /\ \A s : Trimmed!Stop(s) => Narrow!Tasks!Stop(s)
  /\ \A t : Trimmed!Edit(t) => Narrow!Tasks!Edit(t)
<1>1. Trimmed!Snapshot = Narrow!Tasks!Snapshot /\ \A r, b : Trimmed!WithBaseline(r, b) = Narrow!Tasks!WithBaseline(r, b)
  BY Zenon DEF Trimmed!Snapshot, Narrow!Tasks!Snapshot, Trimmed!WithBaseline, Narrow!Tasks!WithBaseline
<1>2. \A s : Trimmed!SessionStart(s) => Narrow!Tasks!SessionStart(s)
  BY Zenon, <1>1, TrimmedSessions, TrimmedSaves DEF Trimmed!SessionStart, Narrow!Tasks!SessionStart
<1>3. \A s, kind : Trimmed!UserPromptSubmit(s, kind) => Narrow!Tasks!UserPromptSubmit(s, kind)
  BY Zenon, <1>1, TrimmedSessions, TrimmedSaves, TrimmedPrompted DEF Trimmed!UserPromptSubmit, Narrow!Tasks!UserPromptSubmit
<1>4. \A s : Trimmed!ToolEvent(s) => Narrow!Tasks!ToolEvent(s)
  BY Zenon, TrimmedSessions, TrimmedSaves DEF Trimmed!ToolEvent, Narrow!Tasks!ToolEvent
<1>5. \A r, c : Trimmed!ChangeOf(r, c) = Narrow!Tasks!ChangeOf(r, c) /\ Trimmed!Done(r) = Narrow!Tasks!Done(r)
  BY Zenon DEF Trimmed!ChangeOf, Narrow!Tasks!ChangeOf, Trimmed!Done, Narrow!Tasks!Done
<1>6. \A s : Trimmed!Stop(s) => Narrow!Tasks!Stop(s)
  BY Zenon, <1>1, <1>5, TrimmedSessions, TrimmedSaves DEF Trimmed!Stop, Narrow!Tasks!Stop
<1> QED BY <1>2, <1>3, <1>4, <1>6 DEF Trimmed!Edit, Narrow!Tasks!Edit

LEMMA TrimmedNext == [Trimmed!Next]_(Trimmed!vars) => [Narrow!Tasks!Next]_(Narrow!Tasks!vars)
  BY TrimmedSteps DEF Trimmed!Next, Narrow!Tasks!Next, Trimmed!vars, Narrow!Tasks!vars

LEMMA TrimmedInvariants == Narrow!Tasks!TypeOK /\ Narrow!Tasks!OneRecordEach /\ Narrow!Tasks!HistoryIsRecent =>
  Trimmed!TypeOK /\ Trimmed!OneRecordEach /\ Trimmed!HistoryIsRecent
  BY Zenon DEF Trimmed!TypeOK, Trimmed!Task, Trimmed!ChangeId, Trimmed!Completed,
               Trimmed!OneRecordEach, Trimmed!Records, Trimmed!HistoryIsRecent, Narrow!Tasks!TypeOK,
               Narrow!Tasks!Task, Narrow!Tasks!ChangeId, Narrow!Tasks!Completed,
               Narrow!Tasks!OneRecordEach, Narrow!Tasks!Records, Narrow!Tasks!HistoryIsRecent

LEMMA TrimmedActions == [Narrow!Tasks!RecordedForItsMaker]_(Narrow!Tasks!vars) =>
  [Trimmed!RecordedForItsMaker]_(Trimmed!vars)
  BY Zenon DEF Trimmed!RecordedForItsMaker, Trimmed!Records, Trimmed!vars,
               Narrow!Tasks!RecordedForItsMaker, Narrow!Tasks!Records, Narrow!Tasks!vars

LEMMA TrimmedPart ==
  Spec => /\ [](part = "trimmed" => Trimmed!TypeOK /\ Trimmed!OneRecordEach /\ Trimmed!HistoryIsRecent)
          /\ [][part = "trimmed" => Trimmed!RecordedForItsMaker]_vars
<1>1. Narrow!Tasks!SessionTasksAssumption
  BY ProjectAssumption DEF Trimmed!SessionTasksAssumption, Trimmed!Task,
                           Narrow!Tasks!SessionTasksAssumption, Narrow!Tasks!Task
<1>2. /\ Narrow!Tasks!Spec => []Narrow!Tasks!TypeOK
      /\ Narrow!Tasks!Spec => [](Narrow!Tasks!OneRecordEach /\ Narrow!Tasks!HistoryIsRecent)
      /\ Narrow!Tasks!Spec => [][Narrow!Tasks!RecordedForItsMaker]_(Narrow!Tasks!vars)
  BY <1>1, Narrow!TasksTypeCorrect, Narrow!OneRecordOfEach, Narrow!RecordsNameTheirMaker
<1> QED BY TrimmedRuns, TrimmedInit, TrimmedNext, TrimmedInvariants, TrimmedActions, TrimmedAlone,
           <1>2, PTL DEF Spec, Narrow!Tasks!Spec

(* Resets that delete file by file: cli.mjs *)

LEMMA ForcedInit == Forced!Init => Narrow!Enrollment!Init
  BY Zenon DEF Forced!Init, Forced!Idle, Narrow!Enrollment!Init, Narrow!Enrollment!Idle

LEMMA ForcedNext == [Forced!Next]_(Forced!vars) => [Narrow!Enrollment!Next]_(Narrow!Enrollment!vars)
  BY Zenon DEF Forced!Next, Forced!Start, Forced!At, Forced!Becomes, Forced!Idle, Forced!Ensure,
               Forced!Ensured, Forced!Goto, Forced!Throws, Forced!Enter, Forced!LockBusy,
               Forced!Write, Forced!Leaves, Forced!Status, Forced!Confirm, Forced!Confirms,
               Forced!Mine, Forced!TriesAgain, Forced!Check, Forced!Rollback, Forced!RollsBack,
               Forced!Return, Forced!Disconnect, Forced!Remove, Forced!Hook, Forced!Archive,
               Forced!Resets, Forced!Delete, Forced!DeleteOne, Forced!vars, Narrow!Enrollment!Next,
               Narrow!Enrollment!Start, Narrow!Enrollment!At, Narrow!Enrollment!Becomes,
               Narrow!Enrollment!Idle, Narrow!Enrollment!Ensure, Narrow!Enrollment!Ensured,
               Narrow!Enrollment!Goto, Narrow!Enrollment!Throws, Narrow!Enrollment!Enter,
               Narrow!Enrollment!LockBusy, Narrow!Enrollment!Write, Narrow!Enrollment!Leaves,
               Narrow!Enrollment!Status, Narrow!Enrollment!Confirm, Narrow!Enrollment!Confirms,
               Narrow!Enrollment!Mine, Narrow!Enrollment!TriesAgain, Narrow!Enrollment!Check,
               Narrow!Enrollment!Rollback, Narrow!Enrollment!RollsBack, Narrow!Enrollment!Return,
               Narrow!Enrollment!Disconnect, Narrow!Enrollment!Remove, Narrow!Enrollment!Hook,
               Narrow!Enrollment!Archive, Narrow!Enrollment!Resets, Narrow!Enrollment!Delete,
               Narrow!Enrollment!DeleteOne, Narrow!Enrollment!vars

LEMMA ForcedInvariants == Narrow!Enrollment!TypeOK /\ Narrow!Enrollment!ThrowLeavesNothing /\ Narrow!Enrollment!ReportsOwn =>
  Forced!TypeOK /\ Forced!ThrowLeavesNothing /\ Forced!ReportsOwn
  BY Zenon DEF Forced!TypeOK, Forced!Saved, Forced!ThrowLeavesNothing, Forced!At, Forced!Mine,
               Forced!ReportsOwn, Narrow!Enrollment!TypeOK, Narrow!Enrollment!Saved,
               Narrow!Enrollment!ThrowLeavesNothing, Narrow!Enrollment!At, Narrow!Enrollment!Mine,
               Narrow!Enrollment!ReportsOwn

LEMMA ForcedPart ==
  Spec => [](part = "forced" => Forced!TypeOK /\ Forced!ThrowLeavesNothing /\ Forced!ReportsOwn)
<1>1. Narrow!Enrollment!EnrollmentAssumption
  BY ProjectAssumption DEF Forced!EnrollmentAssumption, Narrow!Enrollment!EnrollmentAssumption
<1>2. /\ Narrow!Enrollment!Spec => []Narrow!Enrollment!TypeOK
      /\ Narrow!Enrollment!Spec => []Narrow!Enrollment!ThrowLeavesNothing
      /\ Narrow!Enrollment!Spec => []Narrow!Enrollment!ReportsOwn
  BY <1>1, Narrow!EnrollmentTypeCorrect, Narrow!ThrowsLeaveNothing, Narrow!OwnIsReported
<1> QED BY ForcedRuns, ForcedInit, ForcedNext, ForcedInvariants, <1>2, PTL DEF Spec,
           Narrow!Enrollment!Spec

(* Attestation, while another process runs *)

LEMMA AtOnceInit == AtOnce!Init => Narrow!Attest!Init
  BY Zenon DEF AtOnce!Init, AtOnce!Procs, AtOnce!Fresh, Narrow!Attest!Init, Narrow!Attest!Procs,
               Narrow!Attest!Fresh

LEMMA AtOnceNext == [AtOnce!Next]_(AtOnce!vars) => [Narrow!Attest!Next]_(Narrow!Attest!vars)
<1>1. \A p, d : /\ AtOnce!Accept(p) => Narrow!Attest!Accept(p)
                /\ AtOnce!Attest(p) => Narrow!Attest!Attest(p)
                /\ AtOnce!Evidence(p) => Narrow!Attest!Evidence(p)
                /\ AtOnce!Stop(p, d) => Narrow!Attest!Stop(p, d)
  BY Zenon DEF AtOnce!Accept, AtOnce!Starts, AtOnce!At, AtOnce!Procs, AtOnce!Go, AtOnce!Fresh,
               AtOnce!files, AtOnce!Attest, AtOnce!Evidence, AtOnce!Stop, Narrow!Attest!Accept,
               Narrow!Attest!Starts, Narrow!Attest!At, Narrow!Attest!Procs, Narrow!Attest!Go,
               Narrow!Attest!Fresh, Narrow!Attest!files, Narrow!Attest!Attest,
               Narrow!Attest!Evidence, Narrow!Attest!Stop
<1>2. \A p : /\ AtOnce!WriteReceipt(p) => Narrow!Attest!WriteReceipt(p)
             /\ AtOnce!Subject(p) => Narrow!Attest!Subject(p)
             /\ AtOnce!Report(p) => Narrow!Attest!Report(p)
  BY Zenon DEF AtOnce!WriteReceipt, AtOnce!At, AtOnce!Go, AtOnce!Subject, AtOnce!Fresh,
               AtOnce!files, AtOnce!Report, AtOnce!ReportOn, Narrow!Attest!WriteReceipt,
               Narrow!Attest!At, Narrow!Attest!Go, Narrow!Attest!Subject, Narrow!Attest!Fresh,
               Narrow!Attest!files, Narrow!Attest!Report, Narrow!Attest!ReportOn
<1>3. \A p : /\ AtOnce!Found(p) => Narrow!Attest!Found(p)
             /\ AtOnce!Generate(p) => Narrow!Attest!Generate(p)
  BY Zenon DEF AtOnce!Found, AtOnce!At, AtOnce!Go, AtOnce!AfterEnsure, AtOnce!Generate,
               Narrow!Attest!Found, Narrow!Attest!At, Narrow!Attest!Go, Narrow!Attest!AfterEnsure,
               Narrow!Attest!Generate
<1>4. \A p : /\ AtOnce!WriteKey(p) => Narrow!Attest!WriteKey(p)
             /\ AtOnce!WritePublic(p) => Narrow!Attest!WritePublic(p)
             /\ AtOnce!WriteIdentity(p) => Narrow!Attest!WriteIdentity(p)
  BY Zenon DEF AtOnce!WriteKey, AtOnce!At, AtOnce!NewKey, AtOnce!Go, AtOnce!WritePublic,
               AtOnce!WriteIdentity, AtOnce!AfterEnsure, Narrow!Attest!WriteKey, Narrow!Attest!At,
               Narrow!Attest!NewKey, Narrow!Attest!Go, Narrow!Attest!WritePublic,
               Narrow!Attest!WriteIdentity, Narrow!Attest!AfterEnsure
<1>5. \A p : /\ AtOnce!Sign(p) => Narrow!Attest!Sign(p)
             /\ AtOnce!Load(p) => Narrow!Attest!Load(p)
  BY Zenon DEF AtOnce!Sign, AtOnce!At, AtOnce!Go, AtOnce!files, AtOnce!Load, AtOnce!Fresh,
               Narrow!Attest!Sign, Narrow!Attest!At, Narrow!Attest!Go, Narrow!Attest!files,
               Narrow!Attest!Load, Narrow!Attest!Fresh
<1>6. \A p : /\ AtOnce!Truncate(p) => Narrow!Attest!Truncate(p)
             /\ AtOnce!Accepted(p) => Narrow!Attest!Accepted(p)
  BY Zenon DEF AtOnce!Truncate, AtOnce!At, AtOnce!Go, AtOnce!Accepted, AtOnce!Fresh, AtOnce!Counted,
               AtOnce!ToSet, AtOnce!files, Narrow!Attest!Truncate, Narrow!Attest!At,
               Narrow!Attest!Go, Narrow!Attest!Accepted, Narrow!Attest!Fresh, Narrow!Attest!Counted,
               Narrow!Attest!ToSet, Narrow!Attest!files
<1>r. \A items, a : AtOnce!Renewed(items, a) = Narrow!Attest!Renewed(items, a)
  BY Zenon DEF AtOnce!Renewed, AtOnce!Sub, AtOnce!Cardinality, AtOnce!Rank, AtOnce!Renews,
               Narrow!Attest!Renewed, Narrow!Attest!Sub, Narrow!Attest!Cardinality,
               Narrow!Attest!Rank, Narrow!Attest!Renews
<1>7. \A p : /\ AtOnce!Save(p) => Narrow!Attest!Save(p)
  BY Zenon, <1>r DEF AtOnce!Save, AtOnce!At, AtOnce!Acceptance, AtOnce!Go, AtOnce!Fresh,
                     Narrow!Attest!Save, Narrow!Attest!At, Narrow!Attest!Acceptance,
                     Narrow!Attest!Go, Narrow!Attest!Fresh
<1>8. \A p : /\ AtOnce!Seal(p) => Narrow!Attest!Seal(p)
             /\ AtOnce!Bundle(p) => Narrow!Attest!Bundle(p)
             /\ AtOnce!Crash(p) => Narrow!Attest!Crash(p)
  BY Zenon DEF AtOnce!Seal, AtOnce!At, AtOnce!Go, AtOnce!Fresh, AtOnce!Bundle, AtOnce!Crash,
               AtOnce!files, Narrow!Attest!Seal, Narrow!Attest!At, Narrow!Attest!Go,
               Narrow!Attest!Fresh, Narrow!Attest!Bundle, Narrow!Attest!Crash, Narrow!Attest!files
<1> QED BY Zenon, <1>1, <1>2, <1>3, <1>4, <1>5, <1>6, <1>7, <1>8 DEF AtOnce!Next, AtOnce!Step,
                                                                     AtOnce!Procs,
                                                                     Narrow!Attest!Next,
                                                                     Narrow!Attest!Step,
                                                                     Narrow!Attest!Procs,
                                                                     AtOnce!vars, AtOnce!files,
                                                                     Narrow!Attest!vars,
                                                                     Narrow!Attest!files

LEMMA AtOnceInvariants == Narrow!Attest!TypeOK /\ Narrow!Attest!OnlyConsented /\ Narrow!Attest!AcceptancesKept =>
  AtOnce!TypeOK /\ AtOnce!OnlyConsented /\ AtOnce!AcceptancesKept
  BY Zenon DEF AtOnce!TypeOK, AtOnce!OnlyConsented, AtOnce!AcceptancesKept, AtOnce!ToSet,
               AtOnce!Cardinality, AtOnce!Min, Narrow!Attest!TypeOK, Narrow!Attest!OnlyConsented,
               Narrow!Attest!AcceptancesKept, Narrow!Attest!ToSet, Narrow!Attest!Cardinality,
               Narrow!Attest!Min

LEMMA AtOncePart ==
  Spec => [](part = "at once" => AtOnce!TypeOK /\ AtOnce!OnlyConsented /\ AtOnce!AcceptancesKept)
<1>1. Narrow!Attest!AttestationAssumption
  BY ProjectAssumption DEF AtOnce!AttestationAssumption, Narrow!Attest!AttestationAssumption
<1>2. /\ Narrow!Attest!Spec => []Narrow!Attest!TypeOK
      /\ Narrow!Attest!Spec => []Narrow!Attest!OnlyConsented
      /\ Narrow!Attest!Spec => []Narrow!OneStoring
      /\ Narrow!Attest!Spec /\ []Narrow!OneStoring => []Narrow!Attest!AcceptancesKept
  BY <1>1, Narrow!AttestationTypeCorrect, Narrow!NamesConsented, Narrow!OneStoresAtATime,
     Narrow!AcceptancesStay
<1> QED BY AtOnceRuns, AtOnceInit, AtOnceNext, AtOnceInvariants, <1>2, PTL DEF Spec,
           Narrow!Attest!Spec
-----------------------------------------------------------------------------
(* What MCProject says of them together                                      *)

\* With calls and approvals at once, a state and a recorder that fail, expiries and
\* switches of the profile: a call that the policy stops is answered with a pass at
\* most as often as a person granted and as writes of an older approvals file gave
\* uses back; and under the strict profile a hook that answers lets none through
\* unrecorded.  A hook that throws has no answer: policy.mjs, hook.mjs.
THEOREM BlockedCallsArePaid == Spec => []CallsArePaid
<1>1. (part = "gate" => Gate!TypeOK /\ Gate!BlockedRunsArePaidFor /\ Gate!StrictFailsClosed) => CallsArePaid
  BY Zenon DEF CallsArePaid
<1> QED BY <1>1, GatePart, PTL

\* A completed change is recorded once, with the task whose turn made it, and
\* starts before the work of the agent: hook.mjs, task.mjs, codex-bridge.mjs.
THEOREM TurnsAreAttributed == Spec => TurnsAttributed
  BY TasksPart, TrimmedPart, BridgePart, PTL DEF TurnsAttributed

\* A configure that gives up leaves no enrollment of its own, one that succeeds
\* reports its own, and an enrolled project has its identity: portal-client.mjs, cli.mjs.
THEOREM EnrollmentsAreOwn == Spec => []EnrollmentIsOwn
<1>1. /\ part = "enrollment" => /\ Enrollment!TypeOK /\ Enrollment!EnrolledHasIdentity
                                /\ Enrollment!ThrowLeavesNothing /\ Enrollment!ReportsOwn
      /\ part = "forced" => Forced!TypeOK /\ Forced!ThrowLeavesNothing /\ Forced!ReportsOwn
      => EnrollmentIsOwn
  BY Zenon DEF EnrollmentIsOwn
<1> QED BY <1>1, EnrollmentPart, ForcedPart, PTL

-----------------------------------------------------------------------------
Dying == INSTANCE Settings_proofs WITH
  Hooks <- Procs, Acts <- {"wipe", "workflow"}, Profiles <- {"balanced", "strict"},
  Parallel <- TRUE, RecorderFails <- TRUE, StateFails <- TRUE, MaxUses <- 1, MaxGrants <- 2, MaxCalls <- 1,
  Sessions <- {x1}, Trees <- {t1, t2, t3}, MaxHistory <- 1, MaxCompleted <- 1, MaxSessions <- 1, MaxPrompts <- 3,
  Creds <- {k1, k2}, Attempts <- 2, MaxResets <- 1, MaxWrites <- 3, ByFile <- TRUE, Busy <- TRUE,
  Snaps <- {s1, s2}, Dests <- {d1}, Older <- {}, MaxQueue <- 1, MaxTimes <- 2, MaxHeld <- 1,
  MaxClock <- 2, Reconfigure <- FALSE, MayStop <- TRUE,
  Turns <- {h1, h2}, People <- {u1}, Tools <- {w1}, Digests <- {d1, d2}, NoDigest <- None, NoFile <- None,
  Limit <- 3, MaxRuns <- 2, Made <- FALSE, OneByOne <- TRUE, Crashes <- 2, phase <- pc,
  Shapes <- {}, MaxEvents <- 1, MaxItems <- 1, PageBytes <- 1,
  Lists <- <<"relations", "components", "changes">>, Memories <- {}, Touched <- {}, Portable <- {},
  RowLimits <- [relations |-> 1, components |-> 1, changes |-> 1],
  MaxFiles <- 1, RowPaths <- 1, RestSizes <- {}, Told <- 5, MaxWarnings <- 5, SnapshotBytes <- 9,
  config <- enrolled, held <- confirmed, proc <- clients

(* Attestation, one process after another, that may die *)

LEMMA CrashInit == Crash!Init => Dying!Attest!Init
  BY Zenon DEF Crash!Init, Crash!Procs, Crash!Fresh, Dying!Attest!Init, Dying!Attest!Procs,
               Dying!Attest!Fresh

LEMMA CrashNext == [Crash!Next]_(Crash!vars) => [Dying!Attest!Next]_(Dying!Attest!vars)
<1>1. \A p, d : /\ Crash!Accept(p) => Dying!Attest!Accept(p)
                /\ Crash!Attest(p) => Dying!Attest!Attest(p)
                /\ Crash!Evidence(p) => Dying!Attest!Evidence(p)
                /\ Crash!Stop(p, d) => Dying!Attest!Stop(p, d)
  BY Zenon DEF Crash!Accept, Crash!Starts, Crash!At, Crash!Procs, Crash!Go, Crash!Fresh,
               Crash!files, Crash!Attest, Crash!Evidence, Crash!Stop, Dying!Attest!Accept,
               Dying!Attest!Starts, Dying!Attest!At, Dying!Attest!Procs, Dying!Attest!Go,
               Dying!Attest!Fresh, Dying!Attest!files, Dying!Attest!Attest, Dying!Attest!Evidence,
               Dying!Attest!Stop
<1>2. \A p : /\ Crash!WriteReceipt(p) => Dying!Attest!WriteReceipt(p)
             /\ Crash!Subject(p) => Dying!Attest!Subject(p)
             /\ Crash!Report(p) => Dying!Attest!Report(p)
  BY Zenon DEF Crash!WriteReceipt, Crash!At, Crash!Go, Crash!Subject, Crash!Fresh, Crash!files,
               Crash!Report, Crash!ReportOn, Dying!Attest!WriteReceipt, Dying!Attest!At,
               Dying!Attest!Go, Dying!Attest!Subject, Dying!Attest!Fresh, Dying!Attest!files,
               Dying!Attest!Report, Dying!Attest!ReportOn
<1>3. \A p : /\ Crash!Found(p) => Dying!Attest!Found(p)
             /\ Crash!Generate(p) => Dying!Attest!Generate(p)
  BY Zenon DEF Crash!Found, Crash!At, Crash!Go, Crash!AfterEnsure, Crash!Generate,
               Dying!Attest!Found, Dying!Attest!At, Dying!Attest!Go, Dying!Attest!AfterEnsure,
               Dying!Attest!Generate
<1>4. \A p : /\ Crash!WriteKey(p) => Dying!Attest!WriteKey(p)
             /\ Crash!WritePublic(p) => Dying!Attest!WritePublic(p)
             /\ Crash!WriteIdentity(p) => Dying!Attest!WriteIdentity(p)
  BY Zenon DEF Crash!WriteKey, Crash!At, Crash!NewKey, Crash!Go, Crash!WritePublic,
               Crash!WriteIdentity, Crash!AfterEnsure, Dying!Attest!WriteKey, Dying!Attest!At,
               Dying!Attest!NewKey, Dying!Attest!Go, Dying!Attest!WritePublic,
               Dying!Attest!WriteIdentity, Dying!Attest!AfterEnsure
<1>5. \A p : /\ Crash!Sign(p) => Dying!Attest!Sign(p)
             /\ Crash!Load(p) => Dying!Attest!Load(p)
  BY Zenon DEF Crash!Sign, Crash!At, Crash!Go, Crash!files, Crash!Load, Crash!Fresh,
               Dying!Attest!Sign, Dying!Attest!At, Dying!Attest!Go, Dying!Attest!files,
               Dying!Attest!Load, Dying!Attest!Fresh
<1>6. \A p : /\ Crash!Truncate(p) => Dying!Attest!Truncate(p)
             /\ Crash!Accepted(p) => Dying!Attest!Accepted(p)
  BY Zenon DEF Crash!Truncate, Crash!At, Crash!Go, Crash!Accepted, Crash!Fresh, Crash!Counted,
               Crash!ToSet, Crash!files, Dying!Attest!Truncate, Dying!Attest!At, Dying!Attest!Go,
               Dying!Attest!Accepted, Dying!Attest!Fresh, Dying!Attest!Counted, Dying!Attest!ToSet,
               Dying!Attest!files
<1>r. \A items, a : Crash!Renewed(items, a) = Dying!Attest!Renewed(items, a)
  BY Zenon DEF Crash!Renewed, Crash!Sub, Crash!Cardinality, Crash!Rank, Crash!Renews,
               Dying!Attest!Renewed, Dying!Attest!Sub, Dying!Attest!Cardinality, Dying!Attest!Rank,
               Dying!Attest!Renews
<1>7. \A p : /\ Crash!Save(p) => Dying!Attest!Save(p)
  BY Zenon, <1>r DEF Crash!Save, Crash!At, Crash!Acceptance, Crash!Go, Crash!Fresh,
                     Dying!Attest!Save, Dying!Attest!At, Dying!Attest!Acceptance, Dying!Attest!Go,
                     Dying!Attest!Fresh
<1>8. \A p : /\ Crash!Seal(p) => Dying!Attest!Seal(p)
             /\ Crash!Bundle(p) => Dying!Attest!Bundle(p)
             /\ Crash!Crash(p) => Dying!Attest!Crash(p)
  BY Zenon DEF Crash!Seal, Crash!At, Crash!Go, Crash!Fresh, Crash!Bundle, Crash!Crash, Crash!files,
               Dying!Attest!Seal, Dying!Attest!At, Dying!Attest!Go, Dying!Attest!Fresh,
               Dying!Attest!Bundle, Dying!Attest!Crash, Dying!Attest!files
<1> QED BY Zenon, <1>1, <1>2, <1>3, <1>4, <1>5, <1>6, <1>7, <1>8 DEF Crash!Next, Crash!Step,
                                                                     Crash!Procs, Dying!Attest!Next,
                                                                     Dying!Attest!Step,
                                                                     Dying!Attest!Procs, Crash!vars,
                                                                     Crash!files, Dying!Attest!vars,
                                                                     Dying!Attest!files

LEMMA CrashInvariants == Dying!Attest!TypeOK /\ Dying!Attest!SignaturesVerify /\ Dying!Attest!OneChange =>
  Crash!TypeOK /\ Crash!SignaturesVerify /\ Crash!OneChange
  BY Zenon DEF Crash!TypeOK, Crash!SignaturesVerify, Crash!ToSet, Crash!Quiet, Crash!Procs,
               Crash!At, Crash!OneChange, Dying!Attest!TypeOK, Dying!Attest!SignaturesVerify,
               Dying!Attest!ToSet, Dying!Attest!Quiet, Dying!Attest!Procs, Dying!Attest!At,
               Dying!Attest!OneChange

LEMMA CrashPart ==
  Spec => [](part = "crash" => Crash!TypeOK /\ Crash!SignaturesVerify /\ Crash!OneChange)
<1>1. Dying!Attest!AttestationAssumption
  BY ProjectAssumption DEF Crash!AttestationAssumption, Dying!Attest!AttestationAssumption
<1>2. /\ Dying!Attest!Spec => []Dying!Attest!TypeOK
      /\ Dying!Attest!Spec => []Dying!Attest!SignaturesVerify
      /\ Dying!Attest!Spec => []Dying!Attest!OneChange
  BY <1>1, Dying!AttestationTypeCorrect, Dying!SignaturesHold, Dying!OneChangeEach
<1> QED BY CrashRuns, CrashInit, CrashNext, CrashInvariants, <1>2, PTL DEF Spec, Dying!Attest!Spec
-----------------------------------------------------------------------------
(* What MCProject says of them together                                      *)

\* The chain verifies while nobody tampers, an attestation that is signed and in
\* place is that of the last change and names only who accepted it, and
\* acceptances stay: provenance.mjs, attest.mjs, ownership.mjs.
THEOREM EvidenceHolds == Spec => []EvidenceIsTrue
<1>1. /\ part = "chain" => /\ Chain!TypeOK /\ Chain!ChainIntact /\ Chain!TornStaysVisible
                           /\ Chain!FreshVerdictTrue /\ Chain!SignedWasTrue
      /\ part = "calm" => Calm!TypeOK /\ Calm!AttestationCurrent
      /\ part = "crash" => Crash!TypeOK /\ Crash!SignaturesVerify /\ Crash!OneChange
      /\ part = "at once" => AtOnce!TypeOK /\ AtOnce!OnlyConsented /\ AtOnce!AcceptancesKept
      => EvidenceIsTrue
  BY Zenon DEF EvidenceIsTrue
<1> QED BY <1>1, ChainPart, CalmPart, CrashPart, AtOncePart, PTL
=============================================================================
