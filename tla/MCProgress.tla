------------------------------ MODULE MCProgress ------------------------------
(***************************************************************************)
(* What must happen in the end: deliveries, the recovery of the locks of   *)
(* the dead, the end of the Codex bridge, reviews and lessons.  As in      *)
(* MCProject a behaviour runs one `part`; each promise is                  *)
(* made under the fairness of its own part alone.                          *)
(***************************************************************************)
EXTENDS Naturals, Sequences, TLC

CONSTANTS None, Missing, p1, p2, p3, s1, s2, d1, e1, a, b, n1, n2, c1, c2, o1, auth, testing

VARIABLES part,
          config, queue, times, held, health, clock, proc, portal, lost,
          flushers, received,
          enrolled, journal, cursor, server, net, syncs, changes,
          stateLock, stateOld, primary, backup, writers, dead, done, damage,
          lock, old, at, gone,
          code, memory, archive, unsaved, seen, question, answering,
          entry, events, order, sessions, shown,
          tree, session, hooked, codex, pipe, exit, before, bridge

queueVars == <<config, queue, times, held, health, clock, lost>>
syncVars == <<enrolled, journal, cursor, server, net, syncs, changes>>
stateVars == <<stateLock, stateOld, primary, backup, writers, dead, done, damage>>
lockVars == <<lock, old, at, gone>>
featureVars == <<code, memory, archive, unsaved, seen, question, answering>>
lessonVars == <<entry, events, order, sessions, shown>>
bridgeVars == <<tree, session, hooked, codex, pipe, exit, before, bridge>>
vars == <<part, queueVars, proc, portal, flushers, received, syncVars, stateVars, lockVars, featureVars, lessonVars, bridgeVars>>

-----------------------------------------------------------------------------
\* portal-client.mjs: a snapshot of an older client the Portal refuses, before
\* another of this one; then two processes with the refused one.
Queue == INSTANCE PortalQueue WITH
  Procs <- {p1}, Snaps <- {s1, s2}, Dests <- {d1}, Older <- {s2}, MaxQueue <- 2, MaxTimes <- 1,
  MaxHeld <- 1, MaxClock <- 2, Reconfigure <- FALSE, MayStop <- FALSE
Flushes == INSTANCE PortalQueue WITH
  Procs <- {p1, p2}, Snaps <- {s2}, Dests <- {d1}, Older <- {s2}, MaxQueue <- 1, MaxTimes <- 1,
  MaxHeld <- 1, MaxClock <- 2, Reconfigure <- FALSE, MayStop <- FALSE,
  proc <- flushers, portal <- received

\* portal-memory-sync.mjs: pages whose requests and answers are lost.
Sync == INSTANCE MemorySync WITH
  Procs <- {p1, p2}, Enrollments <- {e1}, Journals <- {<<a, b>>}, MaxPage <- 1, MaxEpoch <- 1,
  MaxChanges <- 0, Happens <- {"lose"}, config <- enrolled, portal <- server, proc <- syncs

\* state.mjs, and the age locks of the Portal queue and the provenance ledger: a holder dies.
State == INSTANCE LocalState WITH
  Procs <- {p1, p2}, Events <- {n1, n2}, Slow <- FALSE, MaxDeaths <- 1, MaxDamage <- 0, Repair <- "never",
  lock <- stateLock, old <- stateOld, proc <- writers, gone <- dead
Lock == INSTANCE AgeLock WITH Procs <- {p1, p2, p3}, Slow <- FALSE, MaxDeaths <- 1

\* A feature that gains a technology, then a table; a user who answers right.
Cart == [story |-> {"cart.js"}, routes |-> {"/cart"}, tables |-> {}, technologies |-> {"stripe"}, tests |-> {}]
Cache == [Cart EXCEPT !.technologies = @ \cup {"redis"}]
Orders == [Cache EXCEPT !.tables = {"orders"}]
Feature == INSTANCE FeatureMemory WITH
  Contents <- <<Cart, Cache, Orders>>, Unparsed <- {3}, Window <- 2, Picks <- {"right"},
  Vias <- {"api", "cli"}, Overlap <- FALSE, held <- unsaved, shown <- question

\* Two concepts, the second of which has the lower risk.
Risks == [c \in {auth, testing} |-> IF c = auth THEN 5 ELSE 3]
Lesson == INSTANCE Lessons WITH
  Catalog <- <<auth, testing>>, Risk <- Risks, Fallback <- testing, Snoozes <- FALSE, Early <- FALSE,
  MaxEvidence <- 4, MaxWrong <- 0, MaxSessions <- 1

\* codex-bridge.mjs: native hooks may fail, and Codex may die.
Bridge == INSTANCE CodexBridge WITH Own <- {c1, c2}, Others <- {o1}, Flaky <- TRUE

ASSUME /\ Queue!QueueAssumption /\ Flushes!QueueAssumption /\ Sync!SyncAssumption
       /\ State!StateAssumption /\ Lock!AgeLockAssumption /\ Feature!FeatureMemoryAssumption
       /\ Lesson!LessonsAssumption /\ Bridge!CodexBridgeAssumption

-----------------------------------------------------------------------------
\* A part that does not run has one initial state.
Init ==
  /\ part \in {"queue", "flushes", "sync", "state", "lock", "feature", "lesson", "bridge"}
  /\ Queue!Init /\ Flushes!Init
  /\ (part = "queue" \/ portal[d1][s2] = 0) /\ (part = "flushes" \/ received[d1][s2] = 0)
  /\ Sync!Init /\ (part = "sync" \/ journal = <<>>)
  /\ State!Init /\ Lock!LockInit /\ Lesson!Init
  /\ Feature!Init /\ (part = "feature" \/ memory = <<>>)
  /\ Bridge!Init /\ (part = "bridge" \/ hooked)

\* The part that runs takes a step.
Next ==
  /\ CASE part = "queue" -> Queue!Next /\ UNCHANGED <<flushers, received>>
       [] part = "flushes" -> Flushes!Next /\ UNCHANGED <<proc, portal>>
       [] OTHER -> UNCHANGED <<queueVars, proc, portal, flushers, received>>
  /\ IF part = "sync" THEN Sync!Next ELSE UNCHANGED syncVars
  /\ IF part = "state" THEN State!Next ELSE UNCHANGED stateVars
  /\ IF part = "lock" THEN Lock!LockNext ELSE UNCHANGED lockVars
  /\ IF part = "feature" THEN Feature!Next ELSE UNCHANGED featureVars
  /\ IF part = "lesson" THEN Lesson!Next ELSE UNCHANGED lessonVars
  /\ IF part = "bridge" THEN Bridge!Next ELSE UNCHANGED bridgeVars
  /\ UNCHANGED part

Spec == Init /\ [][Next]_vars

-----------------------------------------------------------------------------
\* Every queued snapshot reaches the Portal, also behind one it refuses, and the
\* whole memory journal is acknowledged, although requests and answers are lost.
EventuallyDelivered ==
  /\ part = "queue" /\ Queue!Fairness => Queue!Delivered
  /\ part = "flushes" /\ Flushes!Fairness => Flushes!Delivered
  /\ part = "sync" /\ Sync!Fairness => Sync!Exported

\* Nothing is stuck: the lock of a dead process is taken over, the Codex bridge
\* ends, and a user who answers right is done with every review and lesson.
NothingStuck ==
  /\ part = "state" /\ State!Fairness => State!DeadLockRecovered
  /\ part = "lock" /\ Lock!LockFairness => Lock!DeadLockRemoved
  /\ part = "bridge" /\ Bridge!Fairness => Bridge!BridgeEnds
  /\ part = "feature" /\ Feature!Fairness => Feature!Refreshed
  /\ part = "lesson" /\ Lesson!Fairness => Lesson!EachChecked
=============================================================================
