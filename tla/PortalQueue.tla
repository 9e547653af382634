----------------------------- MODULE PortalQueue -----------------------------
(***************************************************************************)
(* The Portal delivery queue, src/src/portal-client.mjs: hooks, `portal    *)
(* sync` and the debt worker put snapshots into a bounded file, and flushes *)
(* post its content and remove what the Portal acknowledged.               *)
(*                                                                         *)
(* A flush reads the enrollment and the queue without the queue lock, posts *)
(* without it, and takes it again for each change of a file; a caller reads *)
(* the enrollment before it takes the lock.  Each of these is a step here.  *)
(* One section under the lock is one step, except where a process may stop  *)
(* between two of the files it writes (CommitInterrupted,                   *)
(* ConflictInterrupted).  How the lock is recovered is module AgeLock.      *)
(*                                                                         *)
(* A snapshot id stands for the content; `time` is its generatedAt, which   *)
(* the id does not cover and which the Portal compares (409                 *)
(* SNAPSHOT_CONFLICT).  `portal` is the server's state, an external part    *)
(* modelled from the answers the client handles.                            *)
(***************************************************************************)
EXTENDS Naturals, Sequences, FiniteSets, Subsequences

CONSTANTS Procs,      \* processes: hooks, `portal sync`, `portal flush`
          Snaps,      \* snapshot ids
          Dests,      \* destinations: an endpoint with its credential
          Older,      \* ids an older client may already have sent
          None,
          MaxQueue,   \* 200 in the code
          MaxTimes,   \* 1024 in the code
          MaxHeld,    \* 1024 in the code
          MaxClock,   \* bound of the clock
          Reconfigure, \* whether the enrollment changes
          MayStop     \* whether a process may stop, or find the lock busy

QueueAssumption ==
  /\ Older \subseteq Snaps
  /\ None \notin Procs \cup Snaps \cup Dests
  /\ MaxQueue \in Nat \ {0} /\ MaxTimes \in Nat \ {0} /\ MaxHeld \in Nat \ {0}
  /\ MaxClock \in Nat /\ MaxClock >= 2
  /\ Reconfigure \in BOOLEAN /\ MayStop \in BOOLEAN

VARIABLES config,     \* the enrolled destination, or None
          queue,      \* the retry queue file
          times,      \* first generatedAt of each snapshot queued or delivered
          held,       \* snapshots a destination holds under another time
          health,     \* the delivery health file
          clock,
          proc,
          portal,     \* what each destination holds: a time, 0 when nothing
          lost        \* history: ids refused, kept by nobody

files == <<queue, times, held, health>>
vars == <<config, files, clock, proc, portal, lost>>

Time == 1..MaxClock
Item == [id : Snaps, time : Time]
Kinds == {"hook", "sync", "retained", "flush"}
Reasons == {"queued", "held-by-portal", "duplicate", "queue-full", "not-configured"}
Answers == {"ack", "other", "conflict", "error"}
ProcState == [pc : {"idle", "queueing", "starting", "reading", "posting", "answered",
                    "removing", "succeeding", "returned"},
              kind : Kinds \cup {None}, cfg : Dests \cup {None}, item : Item \cup {None},
              reason : Reasons \cup {None}, left : Seq(Item),
              answer : Answers \cup {None}, ok : BOOLEAN]

Fresh == [pc |-> "idle", kind |-> None, cfg |-> None, item |-> None,
          reason |-> None, left |-> <<>>, answer |-> None, ok |-> FALSE]

-----------------------------------------------------------------------------
(* The files                                                               *)

Ids(s) == {s[i].id : i \in DOMAIN s}
Last(s, n) == IF Len(s) > n THEN SubSeq(s, Len(s) - n + 1, Len(s)) ELSE s
Of(s, id) == s[CHOOSE i \in DOMAIN s : s[i].id = id]

HeldBy(d, id) == \E i \in DOMAIN held : held[i] = [dest |-> d, id |-> id]

\* rememberSnapshotTime: a known time is never overridden.
Remember(item) == IF item.id \in Ids(times) THEN times
                  ELSE Last(Append(times, item), MaxTimes)

\* withFirstGeneratedAt: the snapshot takes the time it was first built with.
FirstBody(item) == IF item.id \in Ids(times) THEN Of(times, item.id) ELSE item

\* forgetSnapshotTime: the time just refused.
Forget(item) == Sub(times, {i \in DOMAIN times : times[i] # item})

\* markHeldByPortal
MarkHeld(d, id) ==
  LET entry == [dest |-> d, id |-> id]
  IN Last(Append(Sub(held, {i \in DOMAIN held : held[i] # entry}), entry), MaxHeld)

RecoveredForgets(h) == [degraded |-> FALSE, error |-> FALSE]  \* mutant: written from the defaults
\* recordDeliverySuccess clears the error, never the degraded mark.
Recovered(h) == [h EXCEPT !.error = FALSE]

Healthy == ~health.degraded /\ health.error = FALSE

-----------------------------------------------------------------------------
(* Queueing a snapshot                                                     *)

\* What a process does once its snapshot is queued or refused: `portal sync`
\* flushes, the others end.
Queued(p, reason) ==
  proc' = [proc EXCEPT ![p] =
             IF @.kind = "sync" THEN [@ EXCEPT !.pc = "starting", !.cfg = None, !.reason = reason]
             ELSE Fresh]

\* A snapshot built now; its id does not depend on the time.
Built(s) == [id |-> s, time |-> clock]

\* The enrollment is read, and the snapshot built, before the lock is taken.
Build(p, kind, s) ==
  /\ proc[p].pc = "idle"
  /\ config # None
  /\ proc' = [proc EXCEPT ![p] = [Fresh EXCEPT !.pc = "queueing", !.kind = kind, !.cfg = config,
                                               !.item = Built(s)]]
  /\ clock' = IF clock < MaxClock THEN clock + 1 ELSE clock
  /\ UNCHANGED <<config, files, portal, lost>>

\* Without an enrollment nothing is queued; `portal sync` flushes all the same.
NotConfigured(p) ==
  /\ proc[p].pc = "idle"
  /\ config = None
  /\ proc' = [proc EXCEPT ![p] = [Fresh EXCEPT !.pc = "starting", !.kind = "sync",
                                               !.reason = "not-configured"]]
  /\ UNCHANGED <<config, files, clock, portal, lost>>

RefuseHeld(p) ==
  /\ proc[p].pc = "queueing"
  /\ HeldBy(proc[p].cfg, proc[p].item.id)
  /\ Queued(p, "held-by-portal")
  /\ UNCHANGED <<config, files, clock, portal, lost>>

RefuseDuplicate(p) ==
  /\ proc[p].pc = "queueing"
  /\ ~HeldBy(proc[p].cfg, proc[p].item.id)
  /\ proc[p].item.id \in Ids(queue)
  /\ times' = Remember(Of(queue, proc[p].item.id))
  /\ Queued(p, "duplicate")
  /\ UNCHANGED <<config, queue, held, health, clock, portal, lost>>

\* A full queue refuses the snapshot and counts it as lost, unless its caller
\* keeps it and queues it again.
RefuseFull(p) ==
  /\ proc[p].pc = "queueing"
  /\ ~HeldBy(proc[p].cfg, proc[p].item.id)
  /\ proc[p].item.id \notin Ids(queue)
  /\ Len(queue) >= MaxQueue
  /\ IF proc[p].kind = "retained" THEN UNCHANGED <<health, lost>>
     ELSE /\ health' = [degraded |-> TRUE, error |-> TRUE]
          /\ lost' = lost \cup {proc[p].item.id}
  /\ Queued(p, "queue-full")
  /\ UNCHANGED <<config, queue, times, held, clock, portal>>

AcceptsOneMore(p) ==  \* mutant: off by one at the limit
  /\ proc[p].pc = "queueing"
  /\ ~HeldBy(proc[p].cfg, proc[p].item.id)
  /\ proc[p].item.id \notin Ids(queue)
  /\ Len(queue) <= MaxQueue
Accepts(p) ==
  /\ proc[p].pc = "queueing"
  /\ ~HeldBy(proc[p].cfg, proc[p].item.id)
  /\ proc[p].item.id \notin Ids(queue)
  /\ Len(queue) < MaxQueue

Accept(p) ==
  /\ Accepts(p)
  /\ times' = Remember(proc[p].item)
  /\ queue' = Append(queue, FirstBody(proc[p].item))
  /\ Queued(p, "queued")
  /\ UNCHANGED <<config, held, health, clock, portal, lost>>

\* The process stops after it recorded the time and before it wrote the queue.
CommitInterrupted(p) ==
  /\ MayStop
  /\ Accepts(p)
  /\ times' = Remember(proc[p].item)
  /\ proc' = [proc EXCEPT ![p] = Fresh]
  /\ UNCHANGED <<config, queue, held, health, clock, portal, lost>>

-----------------------------------------------------------------------------
(* A flush                                                                 *)

\* What a flush returns: syncPortal's result is read by its user.
Ends(p, ok) ==
  proc' = [proc EXCEPT ![p] = IF @.kind = "sync"
             THEN [@ EXCEPT !.pc = "returned", !.ok = ok /\ proc[p].reason # "queue-full",
                            !.left = <<>>, !.answer = None]
             ELSE Fresh]

StartFlush(p) ==
  /\ proc[p].pc \in {"idle", "starting"}
  /\ proc' = [proc EXCEPT ![p] = [@ EXCEPT !.pc = "reading", !.cfg = config,
                                           !.kind = IF proc[p].kind = None THEN "flush"
                                                    ELSE proc[p].kind]]
  /\ UNCHANGED <<config, files, clock, portal, lost>>

NotEnrolled(p) ==
  /\ proc[p].pc = "reading"
  /\ proc[p].cfg = None
  /\ Ends(p, FALSE)
  /\ UNCHANGED <<config, files, clock, portal, lost>>

\* The queue is read, without its lock, once for the whole flush.
ReadQueue(p) ==
  /\ proc[p].pc = "reading"
  /\ proc[p].cfg # None
  /\ proc' = [proc EXCEPT ![p] = [@ EXCEPT !.left = queue,
                                           !.pc = IF queue = <<>> THEN "succeeding" ELSE "posting"]]
  /\ UNCHANGED <<config, files, clock, portal, lost>>

\* The Portal's side of one post: it stores a content it does not hold,
\* answers duplicate for the same body and a conflict for another time.
Stored(d, item) == IF portal[d][item.id] = 0 THEN [portal EXCEPT ![d][item.id] = item.time]
                   ELSE portal
Holds(d, item) == portal[d][item.id] \in {0, item.time}

Answered(p, answer) == proc' = [proc EXCEPT ![p] = [@ EXCEPT !.pc = "answered", !.answer = answer]]

\* The body is accepted: the acknowledgement arrives, names another snapshot,
\* or is lost on the way.
PostAccepted(p, answer) ==
  /\ proc[p].pc = "posting"
  /\ Holds(proc[p].cfg, Head(proc[p].left))
  /\ portal' = Stored(proc[p].cfg, Head(proc[p].left))
  /\ Answered(p, answer)
  /\ UNCHANGED <<config, files, clock, lost>>

PostConflicts(p, answer) ==
  /\ proc[p].pc = "posting"
  /\ ~Holds(proc[p].cfg, Head(proc[p].left))
  /\ Answered(p, answer)
  /\ UNCHANGED <<config, files, clock, portal, lost>>

\* A timeout, an HTTP error, or an answer of another snapshot for nothing.
PostFails(p) ==
  /\ proc[p].pc = "posting"
  /\ \E answer \in {"other", "error"} : Answered(p, answer)
  /\ UNCHANGED <<config, files, clock, portal, lost>>

AcknowledgesAny(answer) == answer \in {"ack", "other"}  \* mutant: the id is not compared
\* validatePortalIngestAck: only an acknowledgement of this very snapshot.
Acknowledges(answer) == answer = "ack"

Removing(p) == proc' = [proc EXCEPT ![p].pc = "removing", ![p].answer = None]

Acknowledged(p) ==
  /\ proc[p].pc = "answered"
  /\ Acknowledges(proc[p].answer)
  /\ times' = Remember(Head(proc[p].left))
  /\ Removing(p)
  /\ UNCHANGED <<config, queue, held, health, clock, portal, lost>>

ConflictFails(p) ==  \* mutant: a conflict is an error like another
  /\ proc[p].pc = "answered"
  /\ proc[p].answer = "conflict"
  /\ health' = [health EXCEPT !.error = TRUE]
  /\ Ends(p, FALSE)
  /\ UNCHANGED <<config, queue, times, held, clock, portal, lost>>
Conflict(p) ==
  /\ proc[p].pc = "answered"
  /\ proc[p].answer = "conflict"
  /\ held' = MarkHeld(proc[p].cfg, Head(proc[p].left).id)
  /\ times' = Forget(Head(proc[p].left))
  /\ Removing(p)
  /\ UNCHANGED <<config, queue, health, clock, portal, lost>>

\* The process stops after it marked the snapshot and before it forgot its time.
ConflictInterrupted(p) ==
  /\ MayStop
  /\ proc[p].pc = "answered"
  /\ proc[p].answer = "conflict"
  /\ held' = MarkHeld(proc[p].cfg, Head(proc[p].left).id)
  /\ proc' = [proc EXCEPT ![p] = Fresh]
  /\ UNCHANGED <<config, queue, times, health, clock, portal, lost>>

\* Any other answer ends the flush; the snapshot stays queued.
Fails(p) ==
  /\ proc[p].pc = "answered"
  /\ proc[p].answer # "conflict" /\ ~Acknowledges(proc[p].answer)
  /\ health' = [health EXCEPT !.error = TRUE]
  /\ Ends(p, FALSE)
  /\ UNCHANGED <<config, queue, times, held, clock, portal, lost>>

\* removeQueuedSnapshot: by id, whatever the queue holds now.
Remove(p) ==
  /\ proc[p].pc = "removing"
  /\ queue' = Sub(queue, {i \in DOMAIN queue : queue[i].id # Head(proc[p].left).id})
  /\ proc' = [proc EXCEPT ![p] = [@ EXCEPT !.left = Tail(proc[p].left),
                !.pc = IF Len(proc[p].left) = 1 THEN "succeeding" ELSE "posting"]]
  /\ UNCHANGED <<config, times, held, health, clock, portal, lost>>

\* recordDeliverySuccess
Succeed(p) ==
  /\ proc[p].pc = "succeeding"
  /\ health' = Recovered(health)
  /\ Ends(p, TRUE)
  /\ UNCHANGED <<config, queue, times, held, clock, portal, lost>>

Return(p) ==
  /\ proc[p].pc = "returned"
  /\ proc' = [proc EXCEPT ![p] = Fresh]
  /\ UNCHANGED <<config, files, clock, portal, lost>>

\* The process is stopped, or the lock stayed busy for 3 s and the call throws.
Stops(p) ==
  /\ MayStop
  /\ proc[p].pc \notin {"idle", "returned"}
  /\ proc' = [proc EXCEPT ![p] = Fresh]
  /\ UNCHANGED <<config, files, clock, portal, lost>>

\* `portal configure`, `portal disconnect` (module PortalEnrollment).
Enroll(d) ==
  /\ Reconfigure
  /\ config # d
  /\ config' = d
  /\ UNCHANGED <<files, clock, proc, portal, lost>>

-----------------------------------------------------------------------------
Init ==
  /\ config \in Dests
  /\ queue = <<>> /\ times = <<>> /\ held = <<>>
  /\ health = [degraded |-> FALSE, error |-> FALSE]
  /\ clock = 2
  /\ proc = [p \in Procs |-> Fresh]
  /\ portal \in [Dests -> [Snaps -> {0, 1}]]
  /\ \A d \in Dests, s \in Snaps \ Older : portal[d][s] = 0
  /\ lost = {}

Flushes(p) == \/ StartFlush(p) \/ NotEnrolled(p) \/ ReadQueue(p)
              \/ Acknowledged(p) \/ Conflict(p) \/ Fails(p) \/ Remove(p) \/ Succeed(p)
Queues(p) == RefuseHeld(p) \/ RefuseDuplicate(p) \/ RefuseFull(p) \/ Accept(p)

Next ==
  \/ \E p \in Procs :
       \/ \E kind \in {"hook", "sync", "retained"}, s \in Snaps : Build(p, kind, s)
       \/ NotConfigured(p) \/ Queues(p) \/ CommitInterrupted(p) \/ ConflictInterrupted(p)
       \/ Flushes(p) \/ PostFails(p)
       \/ \E answer \in {"ack", "other", "error"} : PostAccepted(p, answer)
       \/ \E answer \in {"conflict", "error"} : PostConflicts(p, answer)
       \/ Return(p) \/ Stops(p)
  \/ \E d \in Dests \cup {None} : Enroll(d)

Spec == Init /\ [][Next]_vars

\* A process that started goes on; each hook that queues spawns a flush, so a
\* flush starts again and again; and the Portal does not fail for ever.
Answering(p) == PostAccepted(p, "ack") \/ PostConflicts(p, "conflict")
Fairness == \A p \in Procs :
  WF_vars(Queues(p) \/ Flushes(p) \/ Return(p)) /\ SF_vars(StartFlush(p)) /\ SF_vars(Answering(p))

-----------------------------------------------------------------------------
\* The queue, the server and every process have their types.
TypeOK ==
  /\ config \in Dests \cup {None}
  /\ queue \in Seq(Item) /\ Len(queue) <= MaxQueue
  /\ times \in Seq(Item) /\ Len(times) <= MaxTimes
  /\ held \in Seq([dest : Dests, id : Snaps]) /\ Len(held) <= MaxHeld
  /\ health \in [degraded : BOOLEAN, error : BOOLEAN]
  /\ clock \in Time
  /\ proc \in [Procs -> ProcState]
  /\ portal \in [Dests -> [Snaps -> 0..MaxClock]]
  /\ lost \subseteq Snaps

\* No two entries of the queue, of the recorded times or of the held marks are
\* about the same thing, whoever wrote the files in between.
NoDoubles ==
  /\ Cardinality(Ids(queue)) = Len(queue)
  /\ Cardinality(Ids(times)) = Len(times)
  /\ \A i, j \in DOMAIN held : held[i] = held[j] => i = j

\* "Resent byte-for-byte": as long as every time is still recorded, a body in
\* the queue, in the hands of a flush or at a destination is always the same
\* one, so the Portal never refuses a snapshot only this client sent.
Bodies(s) ==
  {queue[i].time : i \in {j \in DOMAIN queue : queue[j].id = s}}
  \cup (UNION {{proc[p].left[i].time : i \in {j \in DOMAIN proc[p].left : proc[p].left[j].id = s}}
               : p \in Procs})
  \cup ({portal[d][s] : d \in Dests} \ {0})
OneBody == \A s \in Snaps \ Older : Cardinality(Bodies(s)) <= 1

\* A snapshot marked as held by a destination is really there, although the
\* enrollment may have changed between the answer and the mark: refusing to
\* queue it loses nothing.
HeldIsThere == \A i \in DOMAIN held : portal[held[i].dest][held[i].id] # 0

\* A status that says healthy never hides a refused snapshot that nobody keeps,
\* however many deliveries succeeded since.
HealthyMeansComplete == Healthy => lost = {}

\* When `portal sync` reports success after it queued its snapshot (or found it
\* queued or held), the destination it flushed to holds that snapshot, whoever
\* delivered it.  For one destination: module note in the README.
SyncOkDelivered ==
  \A p \in Procs :
    proc[p].pc = "returned" /\ proc[p].ok /\ proc[p].item # None
      => portal[proc[p].cfg][proc[p].item.id] # 0

\* The queue implements at-least-once delivery: an accepted snapshot leaves it
\* only after some destination holds it, across lost answers, stops, concurrent
\* flushes and changed enrollments.
Delivery == INSTANCE AtLeastOnce
              WITH waiting <- Ids(queue),
                   received <- UNION {{s \in DOMAIN portal[d] : portal[d][s] # 0} : d \in DOMAIN portal}

\* The delivery queue never tells a lie: a success means that the destination
\* holds the snapshot, a mark that it was received there, a healthy status that
\* nothing refused is lost; and a snapshot is never sent twice with two bodies
\* (portal-client.mjs: "resent byte-for-byte"), nor kept twice.
DeliveryIsTrue ==
  /\ NoDoubles /\ HeldIsThere /\ HealthyMeansComplete
  /\ Cardinality(Snaps) <= MaxTimes => OneBody
  /\ ~Reconfigure => SyncOkDelivered
ImplementsAtLeastOnce == Delivery!ALOSpec

\* A queued snapshot reaches the Portal in the end.
Delivered == \A s \in Snaps :
  s \in Ids(queue) ~> \E d \in Dests : portal[d][s] # 0
=============================================================================
