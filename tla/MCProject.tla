------------------------------ MODULE MCProject ------------------------------
(***************************************************************************)
(* Small instances of what IdleProof keeps in one project: its state file, *)
(* the flight recorder, the policy gate, sessions and completions, the     *)
(* installed adapters, feature memory, lessons, the Codex bridge, the      *)
(* local server, attestations and kept measurements; and of what it sends  *)
(* to the Portal: snapshots, pages of the memory journal and enrollments.  *)
(* Each is checked by itself: a behaviour runs one `part`, chosen at the   *)
(* start, and the others stay where they start.  Two parts of one module   *)
(* differ in their constants and share its variables.                      *)
(***************************************************************************)
EXTENDS Naturals, Sequences, FiniteSets, TLC

CONSTANTS None, Missing, Unavailable, Torn, Old, Other,
          p1, p2, e1, e2, e3, x1, x2, t1, t2, t3, i1, c1, c2, o1, o2,
          v1, v2, q1, q2, r1, r2, auth, testing, h1, h2, u1, u2, w1, d1, d2, d3,
          s1, s2, n1, n2, j1, j2, j3, k1, k2

VARIABLES
  part,
  stateLock, stateOld, primary, backup, writers, dead, done, damage,
  ledgerLock, ledgerOld, at, gone,
  log, chain, stamp, work, reader, signed, returned, wasValid, failures, tampers, torn,
  profile, approvals, live, granter, hook, calls, grants, given, ran, regained,
  tree, session, recent, owner,
  config, worktree, baseline, armed, stopping, stops, envelope, completed, queued, keptFor,
  measuredOf, receipts,
  files, command, commands, edits,
  code, memory, archive, held, seen, question, answering,
  edited, records, hooked, codex, pipe, exit, before, bridge,
  record, server, ownerOf, taken, cmd, stopped,
  entry, events, order, sessions, shown,
  latest, receipt, key, public, identity, pairs, store, attestation, bundle, pc, local,
  invoked, crashes, consent,
  jobs, measured, dirs, kept, pruner, burst, lapsed,
  enrolled, queue, times, confirmed, health, clock, clients, portal, lost,
  following, journal, cursor, stored, net, syncs, changes,
  entries, low, high, page, building,
  named, saved, memoryLock, deleting, configures, resets, writes,
  input, rows, warnings, summary, step

stateVars == <<stateLock, stateOld, primary, backup, writers, dead, done, damage>>
chainVars == <<ledgerLock, ledgerOld, at, gone, log, chain, stamp, work, reader, signed, returned,
               wasValid, failures, tampers, torn>>
gateVars == <<profile, approvals, live, granter, hook, calls, grants, given, ran, regained>>
taskVars == <<tree, session, recent, owner>>
stopVars == <<config, worktree, baseline, armed, stopping, stops, envelope, completed, queued,
              keptFor, measuredOf, receipts>>
installVars == <<files, command, commands, edits>>
featureVars == <<code, memory, archive, held, seen, question, answering>>
bridgeVars == <<edited, records, hooked, codex, pipe, exit, before, bridge>>
serverVars == <<record, server, ownerOf, taken, cmd, stopped>>
lessonVars == <<entry, events, order, sessions, shown>>
attestVars == <<latest, receipt, key, public, identity, pairs, store, attestation, bundle, pc,
                local, invoked, crashes, consent>>
pruneVars == <<jobs, measured, dirs, kept, pruner, burst, lapsed>>
queueVars == <<enrolled, queue, times, confirmed, health, clock, clients, portal, lost>>
syncVars == <<following, journal, cursor, stored, net, syncs, changes>>
composerVars == <<entries, low, high, page, building>>
enrollmentVars == <<named, saved, memoryLock, deleting, configures, resets, writes>>
snapshotVars == <<input, rows, warnings, summary, step>>
vars == <<part, stateVars, chainVars, gateVars, taskVars, stopVars, installVars, featureVars,
          bridgeVars, serverVars, lessonVars, attestVars, pruneVars, queueVars, syncVars,
          composerVars, enrollmentVars, snapshotVars>>

Procs == {p1, p2}

-----------------------------------------------------------------------------
\* state.mjs, recovery.mjs: one process may die, two files are damaged or newer.
State == INSTANCE LocalState WITH
  Events <- {e1, e2, e3}, Slow <- FALSE, MaxDeaths <- 1, MaxDamage <- 2, Repair <- "alone",
  lock <- stateLock, old <- stateOld, proc <- writers, gone <- dead

\* provenance.mjs: a death, a write that fails, an edit by hand.
Chain == INSTANCE ProvenanceChain WITH
  Slow <- FALSE, MaxDeaths <- 1, MaxEvents <- 2, MaxFailures <- 1, MaxTampers <- 1,
  lock <- ledgerLock, old <- ledgerOld

\* policy.mjs: two calls and an approval at once, while the profile changes, grants
\* expire and everything that can fail does.
Gate == INSTANCE ToolGate WITH
  Hooks <- Procs, Acts <- {"wipe", "workflow"}, Profiles <- {"balanced", "strict"},
  Parallel <- TRUE, RecorderFails <- TRUE, StateFails <- TRUE, MaxUses <- 1, MaxGrants <- 2, MaxCalls <- 1

\* hook.mjs, task.mjs: two sessions of which one is kept; then one session, with
\* more tasks and more changes than are kept.
Tasks == INSTANCE SessionTasks WITH
  Sessions <- {x1, x2}, Trees <- {t1, t2}, MaxHistory <- 2, MaxCompleted <- 2, MaxSessions <- 1,
  MaxPrompts <- 2
Trimmed == INSTANCE SessionTasks WITH
  Sessions <- {x1}, Trees <- {t1, t2, t3}, MaxHistory <- 1, MaxCompleted <- 1, MaxSessions <- 1,
  MaxPrompts <- 3

\* The hook runners: a session of Claude or Codex and one of Cursor.
Stops == INSTANCE StopGate WITH
  Sessions <- {x1, x2}, Cursors <- {x2}, Trees <- {"clean", "good", "bad"}, Bad <- {"bad"},
  First <- "clean", Overlap <- FALSE, MaxHooks <- 2,
  tree <- worktree, hook <- stopping, hooks <- stops, jobs <- queued, kept <- keptFor,
  measured <- measuredOf

\* Installs of all agents or of some, killed anywhere.
Installs == INSTANCE Installer WITH
  Commands <- {i1}, Requests <- {{"claude", "codex", "cursor"}, {"claude"}, {"cursor"}},
  Standalone <- FALSE, Edits <- FALSE, Kills <- TRUE, MaxCommands <- 2, MaxEdits <- 1

\* A feature that gains a technology, in a version that does not parse, then a table.
Cart == [story |-> {"cart.js"}, routes |-> {"/cart"}, tables |-> {}, technologies |-> {"stripe"}, tests |-> {}]
Cache == [Cart EXCEPT !.technologies = @ \cup {"redis"}]
Orders == [Cache EXCEPT !.tables = {"orders"}]
Feature == INSTANCE FeatureMemory WITH
  Contents <- <<Cart, Cache, Orders>>, Unparsed <- {2}, Window <- 1, Picks <- {"right", "wrong"},
  Vias <- {"api"}, Overlap <- FALSE, shown <- question

\* Two edits of Codex, one of somebody else; native hooks do not fail.
Bridge == INSTANCE CodexBridge WITH
  Own <- {c1, c2}, Others <- {o1}, Flaky <- FALSE, tree <- edited, session <- records

\* Two commands one after another, two process ids, two ports.
Server == INSTANCE LocalServer WITH
  Commands <- {v1, v2}, Pids <- {q1, q2}, Ports <- {r1, r2}, Overlap <- FALSE, Slow <- FALSE,
  owner <- ownerOf

\* Two concepts in two sessions, answered right; one concept put off or answered wrong.
Risks == [c \in {auth, testing} |-> IF c = auth THEN 5 ELSE 3]
Lesson == INSTANCE Lessons WITH
  Catalog <- <<auth, testing>>, Risk <- Risks, Fallback <- testing, Snoozes <- FALSE, Early <- FALSE,
  MaxEvidence <- 4, MaxWrong <- 0, MaxSessions <- 1
PutOff == INSTANCE Lessons WITH
  Catalog <- <<testing>>, Risk <- [c \in {testing} |-> 3], Fallback <- testing, Snoozes <- TRUE,
  Early <- FALSE, MaxEvidence <- 4, MaxWrong <- 2, MaxSessions <- 2

\* Two people, processes one after another; processes that die; a person and the
\* Stop hook of another change at once.
Calm == INSTANCE Attestation WITH
  Hooks <- {h1}, People <- {u1, u2}, Tools <- {w1}, Digests <- {d1, d2}, NoDigest <- None, NoFile <- None,
  Limit <- 4, Times <- 3, Made <- FALSE, Alone <- TRUE, Crashes <- 0, calls <- invoked
Crash == INSTANCE Attestation WITH
  Hooks <- {h1, h2}, People <- {u1}, Tools <- {w1}, Digests <- {d1, d2}, NoDigest <- None, NoFile <- None,
  Limit <- 3, Times <- 2, Made <- FALSE, Alone <- TRUE, Crashes <- 2, calls <- invoked
AtOnce == INSTANCE Attestation WITH
  Hooks <- {h1}, People <- {u1}, Tools <- {}, Digests <- {d1, d2, d3}, NoDigest <- None, NoFile <- None,
  Limit <- 2, Times <- 3, Made <- TRUE, Alone <- FALSE, Crashes <- 0, calls <- invoked

\* auto-debt.mjs pruneWork: two processes prune while two changes fail, leave the
\* list, come back and are measured.
Prunes == INSTANCE WorkPrune WITH
  Changes <- {c1, c2}, Old <- <<o1, o2>>, Pruners <- Procs, Keep <- 1, Drops <- TRUE

\* portal-client.mjs: one destination that stays enrolled.
Queue == INSTANCE PortalQueue WITH
  Snaps <- {s1, s2}, Dests <- {d1}, Older <- {}, MaxQueue <- 1, MaxTimes <- 2, MaxHeld <- 1,
  MaxClock <- 2, Reconfigure <- FALSE, MayStop <- TRUE,
  config <- enrolled, held <- confirmed, proc <- clients

\* portal-memory-sync.mjs: a journal that grows by more than one page, and syncs that stop.
Pages == INSTANCE MemorySync WITH
  Enrollments <- {n1, n2}, Journals <- {<<j1, j2, j3>>}, MaxPage <- 2, MaxEpoch <- 2, MaxChanges <- 0,
  Happens <- {"stop", "lose"},
  config <- following, portal <- stored, proc <- syncs

\* Events: unrepresentable, small, with relations, over a bound.
Composer == INSTANCE MemoryPage WITH
  Shapes <- {[sizes |-> <<>>, drops |-> 0], [sizes |-> <<>>, drops |-> 1],
             [sizes |-> <<1>>, drops |-> 0], [sizes |-> <<1, 1>>, drops |-> 1],
             [sizes |-> <<4>>, drops |-> 0], [sizes |-> <<2, 1, 1>>, drops |-> 2]},
  MaxEvents <- 5, MaxItems <- 3, MaxBytes <- 3, events <- entries, pc <- building

\* portal-config.mjs, portal-client.mjs, cli.mjs: resets at any time, by moving the directory or, forced,
\* by deleting its files, where the lock may also stay busy for 3 s.
Enrollment == INSTANCE PortalEnrollment WITH
  Creds <- {k1, k2}, Attempts <- 2, MaxResets <- 2, MaxWrites <- 4, ByFile <- FALSE,
  Busy <- FALSE, identity <- named, config <- saved, lock <- memoryLock, proc <- configures
Forced == INSTANCE PortalEnrollment WITH
  Creds <- {k1, k2}, Attempts <- 2, MaxResets <- 1, MaxWrites <- 3, ByFile <- TRUE,
  Busy <- TRUE, identity <- named, config <- saved, lock <- memoryLock, proc <- configures

\* portal-snapshot.mjs: relations, components, changes and tasks, kept or not for
\* their identity, their paths, the limits of their list, and the bytes.
UpTo(S, n) == UNION {[1..k -> S] : k \in 0..n}
Row(sound, paths, ends) == [size |-> 1, sound |-> sound, paths |-> paths, ends |-> ends]
Memories ==
  [relations : UpTo({Row(TRUE, <<>>, {<<"components", 1>>}),
                     Row(TRUE, <<>>, {<<"components", 2>>, <<"tasks", 1>>})}, 2),
   components : UpTo({Row(TRUE, <<j1>>, {}), Row(TRUE, <<j3>>, {}), Row(FALSE, <<j2>>, {})}, 2),
   changes : UpTo({Row(TRUE, <<j1, j2>>, {}), Row(TRUE, <<j3>>, {})}, 1),
   tasks : UpTo({Row(TRUE, <<>>, {}), Row(FALSE, <<>>, {})}, 2)]
NoMemory == [rows |-> [relations |-> <<>>, components |-> <<>>, changes |-> <<>>, tasks |-> <<>>],
             touched |-> <<>>, rest |-> 2]
Snapshot == INSTANCE PortalSnapshot WITH
  Lists <- <<"relations", "components", "changes", "tasks">>, Memories <- Memories,
  Touched <- {<<>>, <<j1>>, <<j3>>, <<j1, j2>>, <<j3, j1>>}, Portable <- {j1, j2},
  Limit <- [relations |-> 1, components |-> 1, changes |-> 1, tasks |-> 1],
  MaxFiles <- 1, RowPaths <- 1, Rests <- {2, 8}, Told <- 5, MaxWarnings <- 5, MaxBytes <- 9

ASSUME ProjectAssumption ==
       /\ State!StateAssumption /\ Chain!AgeLockAssumption /\ Chain!ChainAssumption
       /\ Gate!ToolGateAssumption
       /\ Tasks!SessionTasksAssumption /\ Trimmed!SessionTasksAssumption
       /\ Stops!StopGateAssumption /\ Installs!InstallerAssumption
       /\ Feature!FeatureMemoryAssumption /\ Bridge!CodexBridgeAssumption
       /\ Server!LocalServerAssumption /\ Lesson!LessonsAssumption /\ PutOff!LessonsAssumption
       /\ Calm!AttestationAssumption /\ Crash!AttestationAssumption /\ AtOnce!AttestationAssumption
       /\ Prunes!WorkPruneAssumption
       /\ Queue!QueueAssumption /\ Pages!SyncAssumption /\ Composer!PageAssumption
       /\ Snapshot!SnapshotAssumption
       /\ Enrollment!EnrollmentAssumption /\ Forced!EnrollmentAssumption

-----------------------------------------------------------------------------
Attesting == part \in {"calm", "crash", "at once"}

\* A part that does not run has one initial state.
Init ==
  /\ part \in {"state", "chain", "gate", "tasks", "trimmed", "stops", "installs", "feature", "bridge",
               "server", "lesson", "put off", "calm", "crash", "at once", "prunes",
               "queue", "pages", "composer", "enrollment", "forced", "snapshot"}
  /\ State!Init /\ Chain!Init /\ Gate!Init /\ Prunes!Init
  /\ IF part = "trimmed" THEN Trimmed!Init ELSE Tasks!Init /\ (part = "tasks" \/ (tree = t1 /\ recent = <<>>))
  /\ Stops!Init /\ (part = "stops" \/ config = "none")
  /\ Installs!Init /\ (part = "installs" \/ files = [f \in Installs!Files |-> IF f = "exclude" THEN {"file", "user"} ELSE {}])
  /\ Feature!Init /\ (part = "feature" \/ memory = <<>>)
  /\ Bridge!Init /\ (part = "bridge" \/ hooked)
  /\ Server!Init /\ (part = "server" \/ (record = Missing /\ taken = {} /\ \A q \in {q1, q2} : ownerOf[q] = Missing))
  /\ IF part = "put off" THEN PutOff!Init ELSE Lesson!Init
  /\ CASE part = "crash" -> Crash!Init [] part = "at once" -> AtOnce!Init [] OTHER -> Calm!Init
  /\ Queue!Init /\ (part = "queue" \/ enrolled = d1)
  /\ Pages!Init /\ (part = "pages" \/ (following = n1 /\ journal = <<>>))
  /\ Composer!Init /\ (part = "composer" \/ entries = <<[sizes |-> <<1>>, drops |-> 0]>>)
  /\ Enrollment!Init /\ (part \in {"enrollment", "forced"} \/ named)
  /\ part = "snapshot" \/ input = NoMemory
  /\ Snapshot!Init

\* The part that runs takes a step.
Next ==
  /\ IF part = "state" THEN State!Next ELSE UNCHANGED stateVars
  /\ IF part = "chain" THEN Chain!Next ELSE UNCHANGED chainVars
  /\ IF part = "gate" THEN Gate!Next ELSE UNCHANGED gateVars
  /\ CASE part = "tasks" -> Tasks!Next [] part = "trimmed" -> Trimmed!Next [] OTHER -> UNCHANGED taskVars
  /\ IF part = "stops" THEN Stops!Next ELSE UNCHANGED stopVars
  /\ IF part = "installs" THEN Installs!Next ELSE UNCHANGED installVars
  /\ IF part = "feature" THEN Feature!Next ELSE UNCHANGED featureVars
  /\ IF part = "bridge" THEN Bridge!Next ELSE UNCHANGED bridgeVars
  /\ IF part = "server" THEN Server!Next ELSE UNCHANGED serverVars
  /\ CASE part = "lesson" -> Lesson!Next [] part = "put off" -> PutOff!Next [] OTHER -> UNCHANGED lessonVars
  /\ CASE part = "calm" -> Calm!Next [] part = "crash" -> Crash!Next [] part = "at once" -> AtOnce!Next
       [] OTHER -> UNCHANGED attestVars
  /\ IF part = "prunes" THEN Prunes!Next ELSE UNCHANGED pruneVars
  /\ IF part = "queue" THEN Queue!Next ELSE UNCHANGED queueVars
  /\ IF part = "pages" THEN Pages!Next ELSE UNCHANGED syncVars
  /\ IF part = "composer" THEN Composer!Next ELSE UNCHANGED composerVars
  /\ CASE part = "enrollment" -> Enrollment!Next [] part = "forced" -> Forced!Next
       [] OTHER -> UNCHANGED enrollmentVars
  /\ IF part = "snapshot" THEN Snapshot!Next ELSE UNCHANGED snapshotVars
  /\ UNCHANGED part

Spec == Init /\ [][Next]_vars

\* No part tells the processes apart.
Symmetry == Permutations(Procs)

-----------------------------------------------------------------------------
\* Every file and every process of the part that runs is what the code writes.
TypeOK ==
  /\ part = "state" => State!TypeOK
  /\ part = "chain" => Chain!TypeOK
  /\ part = "gate" => Gate!TypeOK
  /\ part = "tasks" => Tasks!TypeOK
  /\ part = "trimmed" => Trimmed!TypeOK
  /\ part = "stops" => Stops!TypeOK
  /\ part = "installs" => Installs!TypeOK
  /\ part = "feature" => Feature!TypeOK
  /\ part = "bridge" => Bridge!TypeOK
  /\ part = "server" => Server!TypeOK
  /\ part = "lesson" => Lesson!TypeOK
  /\ part = "put off" => PutOff!TypeOK
  /\ part = "at once" => AtOnce!TypeOK
  /\ part = "prunes" => Prunes!TypeOK
  /\ part = "queue" => Queue!TypeOK
  /\ part = "pages" => Pages!TypeOK
  /\ part = "composer" => Composer!TypeOK
  /\ part \in {"enrollment", "forced"} => Enrollment!TypeOK
  /\ part = "snapshot" => Snapshot!TypeOK

\* Hooks and repairs lose nothing that the two state files still hold, whatever
\* step one dies at: a damaged file costs at most the last event, a newer state
\* is not replaced; and the lock they use, like the recorder's, implements the
\* owner mutex (module OwnerMutex).
StateKept ==
  /\ [](part = "state" => State!DamageCostsOne /\ Cardinality(State!Inside) <= 1)
  /\ [](part = "chain" => Cardinality(Chain!Inside) <= 1)
  /\ (part = "state" => State!Mutex!Init) /\ (part = "chain" => Chain!Mutex!Init)
  /\ [][/\ part = "state" => State!NothingOverwritten /\ State!NeverDowngraded /\ State!Mutex!MutexStep
        /\ part = "chain" => Chain!Mutex!MutexStep]_vars

\* What the recorder and the attestations say is so: every append that returned
\* is in a valid chain, a torn one stays visible, a signed checkpoint was true;
\* an attestation names exactly those who accepted its change, under a key that
\* verifies it.
EvidenceIsTrue ==
  /\ part = "chain" => /\ Chain!ChainIntact /\ Chain!TornStaysVisible
                       /\ Chain!FreshVerdictTrue /\ Chain!SignedWasTrue
  /\ part = "calm" => Calm!AttestationCurrent
  /\ part = "crash" => Crash!SignaturesVerify /\ Crash!OneChange
  /\ part = "at once" => AtOnce!OnlyConsented /\ AtOnce!AcceptancesKept

\* A call that the policy stops is answered with a pass at most as often as a
\* person granted and as writes of an older approvals file gave uses back; and
\* under the strict profile a hook that answers lets none through unrecorded.
CallsArePaid ==
  part = "gate" => Gate!BlockedRunsArePaidFor /\ Gate!StrictFailsClosed

\* A completed change is recorded once, with the task whose turn made it, and
\* starts before the work of the agent, also when the bridge reads late.
TurnsAttributed ==
  /\ [](part = "tasks" => Tasks!OneRecordEach /\ Tasks!HistoryIsRecent)
  /\ [](part = "trimmed" => Trimmed!OneRecordEach /\ Trimmed!HistoryIsRecent)
  /\ [](part = "bridge" => Bridge!NoOwnWorkBefore /\ Bridge!WorkCompleted)
  /\ [][/\ part = "tasks" => Tasks!RecordedForItsMaker
        /\ part = "trimmed" => Trimmed!RecordedForItsMaker]_vars

\* Where DiffWitness is required its block holds, for the Stop and for the queue;
\* a change enters the queue with the receipt it has, and a prune removes what was
\* kept for it only if it had failed and left the queue before.
StopsAreJudged ==
  /\ [](part = "stops" => Stops!QueuedWasAccepted)
  /\ [][/\ part = "stops" => Stops!StopsAreJudged /\ Stops!QueuedWithItsReceipt
        /\ part = "prunes" => Prunes!KeptForJob /\ Prunes!LatestStay]_vars

\* A command of idleproof leaves nothing half done and takes nothing that is not
\* its own: a failed install restores every file, hooks never lack their gate, a
\* stop leaves no server and signals no other process, a reported server answers.
CommandsAreWhole ==
  /\ [](part = "installs" => Installs!HooksAreGated)
  /\ [](part = "server" => Server!StopStops)
  /\ [][/\ part = "installs" => Installs!FailedInstallLeavesNothing /\ Installs!UserEntriesKept
        /\ part = "server" => Server!SparesOthers /\ Server!ReportedServes]_vars

\* Answers are scored as they were picked and about what was asked: a feature is
\* refreshed by an answer about its recorded model, a concept just answered is
\* not asked again, only answers move the Knowledge Debt, and a wrong one costs.
AnswersCount ==
  /\ [](part = "feature" => Feature!ObservationsKept)
  /\ [](part = "lesson" => Lesson!AsksAnother)
  /\ [][/\ part = "feature" => Feature!RefreshEarned /\ Feature!ScoredAsPicked
        /\ part = "put off" => PutOff!OnlyAnswersMoveDebt /\ PutOff!WrongCosts]_vars

\* What leaves for the Portal is what it says: a delivery that is reported is
\* one; a stored page continues the cursor it is stored with and a retransmission
\* has its bytes; a page that is built accounts for every event it covers and
\* for all it leaves out.  A snapshot says so when it is incomplete, relates no
\* row it has left out, and gives up its memory, task last, before it is refused.
SentIsTrue ==
  /\ part = "queue" => Queue!DeliveryIsTrue
  /\ part = "pages" => Pages!PendingContinues /\ Pages!OneBody
  /\ part = "composer" => /\ Composer!EveryEventAccounted /\ Composer!NothingDroppedSilently
                          /\ Composer!LongestPrefix
  /\ part = "snapshot" => /\ Snapshot!NothingOmittedSilently /\ Snapshot!NoRemovedEndpoint
                          /\ Snapshot!MemoryYieldsInOrder

\* A configure that gives up leaves no enrollment of its own, also where locks are
\* busy, one that succeeds reports its own, and an enrolled project has the identity
\* it enrolled with.
EnrollmentIsOwn ==
  /\ part = "enrollment" => /\ Enrollment!EnrolledHasIdentity /\ Enrollment!ThrowLeavesNothing
                            /\ Enrollment!ReportsOwn
  /\ part = "forced" => Forced!ThrowLeavesNothing /\ Forced!ReportsOwn
=============================================================================
