------------------------ MODULE AutoDebtWorker_proofs ------------------------
(* Proofs about the run loop of the automatic debt worker: whatever workers    *)
(* start, are sent away, reach their cap or die, the last one to leave leaves  *)
(* no due job that is nobody's business.                                       *)
EXTENDS AutoDebtWorker, TLAPS

-----------------------------------------------------------------------------
(* What holds of every run *)

Holding == {"measuring", "draining", "flushing"}
Taking == {"take", "measuring", "drain", "draining"}
Steps == Taking \cup {"after", "flush", "flushing", "decide"}

\* A run holds the worker lock while it measures or delivers; it takes jobs only
\* while nothing stopped it, and a job it has in hand is within its cap.
Sound(w) ==
  /\ wlock = w <=> run[w].pc \in Holding
  /\ run[w].pc \in Taking \cup {"off"} => run[w].stop = "no"
  /\ run[w].pc \in {"measuring", "drain", "draining"} => run[w].taken < MaxTaken

RunInv == TypeOK /\ \A w \in Workers : Sound(w)

\* A run that will look at the jobs again, or excuse them, before it leaves.  One
\* sent away by a busy lock does neither, unless it is still delivering.
Attending(w) == run[w].pc # "off" /\ (run[w].stop # "busy" \/ run[w].pc = "flushing")

SomeoneAttends ==
  enabled => \/ Waiting \subseteq excused \cup late
             \/ spawned > 0
             \/ \E w \in Workers : Attending(w)

LoopInv == RunInv /\ SomeoneAttends

-----------------------------------------------------------------------------
(* Frames *)

\* Only the run of w changes.
OnlyRun(w) == /\ run' \in [Workers -> RunState]
              /\ \A v \in Workers : v # w => run'[v] = run[v]

\* The lock stays, is taken by w while it is free, or is released by w.
LockMoves(w) == \/ wlock' = wlock
                \/ wlock \in {None, w} /\ wlock' \in {None, w}

LEMMA RunKeeps ==
  ASSUME RunInv, NEW w \in Workers, OnlyRun(w), LockMoves(w), Sound(w)',
         enabled' \in BOOLEAN, job' \in [Changes -> {"absent", "due", "delayed", "measuring"}],
         spawned' \in 0 .. MaxSpawned, excused' \subseteq Changes, late' \subseteq Changes
  PROVE  RunInv'
<1>1. wlock' \in Workers \cup {None}
  BY DEF RunInv, TypeOK, LockMoves
<1>2. TypeOK'
  BY <1>1 DEF TypeOK, OnlyRun
<1>3. ASSUME NEW v \in Workers, v # w PROVE Sound(v)'
  <2>1. Sound(v) /\ run'[v] = run[v]
    BY <1>3 DEF RunInv, OnlyRun
  <2>2. wlock' = v <=> wlock = v
    BY <1>3, WorkerAssumption DEF LockMoves
  <2> QED BY <2>1, <2>2 DEF Sound
<1> QED BY <1>2, <1>3 DEF RunInv

\* A step that leaves the jobs of someone's business with someone.
LEMMA StillAttended ==
  ASSUME LoopInv, NEW w \in Workers, OnlyRun(w), Attending(w) => Attending(w)',
         enabled' = enabled, Waiting' \subseteq Waiting, UNCHANGED <<spawned, excused, late>>
  PROVE  SomeoneAttends'
<1>1. \A v \in Workers : Attending(v) => Attending(v)'
  BY DEF Attending, OnlyRun
<1> QED BY <1>1 DEF LoopInv, SomeoneAttends

LEMMA MoveRun ==
  ASSUME RunInv, NEW w \in Workers, NEW step \in Steps, Move(w, step)
  PROVE  /\ OnlyRun(w)
         /\ run'[w].pc = step
         /\ run'[w].stop = run[w].stop /\ run'[w].taken = run[w].taken
<1>1. run[w] \in RunState
  BY DEF RunInv, TypeOK
<1> DEFINE r == [run[w] EXCEPT !.pc = step]
<1>2. run' = [run EXCEPT ![w] = r]
  BY DEF Move, RunInv, TypeOK
<1>3. r \in RunState /\ r.pc = step /\ r.stop = run[w].stop /\ r.taken = run[w].taken
  BY <1>1 DEF RunState, Steps, Taking
<1> HIDE DEF r
<1> QED BY <1>2, <1>3 DEF OnlyRun, RunInv, TypeOK

\* The run stops taking jobs, after counting the one it had or not.
LEMMA StopRun ==
  ASSUME RunInv, NEW w \in Workers, NEW n \in 0 .. MaxTaken,
         NEW why \in {"busy", "disabled", "unavailable"},
         run' = [run EXCEPT ![w].pc = "after", ![w].taken = n, ![w].stop = why]
  PROVE  OnlyRun(w) /\ run'[w].pc = "after" /\ run'[w].stop = why
<1>1. run[w] \in RunState
  BY DEF RunInv, TypeOK
<1> DEFINE r == [run[w] EXCEPT !.pc = "after", !.taken = n, !.stop = why]
<1>2. run' = [run EXCEPT ![w] = r]
  BY DEF RunInv, TypeOK
<1>3. r \in RunState /\ r.pc = "after" /\ r.stop = why
  BY <1>1 DEF RunState
<1> HIDE DEF r
<1> QED BY <1>2, <1>3 DEF OnlyRun, RunInv, TypeOK

LEMMA FreshRun ==
  ASSUME RunInv, NEW w \in Workers, run' = [run EXCEPT ![w] = Fresh]
  PROVE  OnlyRun(w) /\ run'[w].pc = "off" /\ run'[w].stop = "no"
<1>1. Fresh \in RunState /\ Fresh.pc = "off" /\ Fresh.stop = "no"
  BY WorkerAssumption DEF Fresh, RunState
<1> QED BY <1>1 DEF OnlyRun, RunInv, TypeOK

-----------------------------------------------------------------------------
(* Triggers *)

LEMMA TriggerKeeps ==
  ASSUME LoopInv, NEW c \in Changes, Trigger(c)
  PROVE  LoopInv'
<1>1. spawned' = spawned + 1 /\ spawned' \in 0 .. MaxSpawned /\ spawned' > 0
  BY WorkerAssumption DEF Trigger, Spawn, LoopInv, RunInv, TypeOK
<1>2. job' \in [Changes -> {"absent", "due", "delayed", "measuring"}]
  BY DEF Trigger, LoopInv, RunInv, TypeOK
<1>3. RunInv'
  BY <1>1, <1>2 DEF Trigger, LoopInv, RunInv, TypeOK, Sound
<1> QED BY <1>1, <1>3 DEF LoopInv, SomeoneAttends

LEMMA BackoffExpiresKeeps ==
  ASSUME LoopInv, NEW c \in Changes, BackoffExpires(c)
  PROVE  LoopInv'
<1>1. RunInv'
  BY DEF BackoffExpires, LoopInv, RunInv, TypeOK, Sound
<1>2. Waiting' \subseteq Waiting \cup {c}
  BY DEF BackoffExpires, Waiting, LoopInv, RunInv, TypeOK
<1>3. \A v \in Workers : Attending(v)' <=> Attending(v)
  BY DEF BackoffExpires, Attending
<1> QED BY <1>1, <1>2, <1>3 DEF BackoffExpires, LoopInv, SomeoneAttends

LEMMA SwitchKeeps ==
  ASSUME LoopInv, Disable \/ Enable
  PROVE  LoopInv'
<1>1. RunInv'
  BY DEF Disable, Enable, Waiting, LoopInv, RunInv, TypeOK, Sound
<1>2. Waiting' = Waiting
  BY DEF Disable, Enable, Waiting
<1> QED BY <1>1, <1>2 DEF Disable, Enable, LoopInv, SomeoneAttends

LEMMA BeginKeeps ==
  ASSUME LoopInv, NEW w \in Workers, Begin(w)
  PROVE  LoopInv'
<1>1. spawned' \in 0 .. MaxSpawned
  BY WorkerAssumption DEF Begin, LoopInv, RunInv, TypeOK
<1>2. CASE ~enabled
  <2>1. RunInv'
    BY <1>1, <1>2 DEF Begin, LoopInv, RunInv, TypeOK, Sound
  <2> QED BY <1>2, <2>1 DEF Begin, LoopInv, SomeoneAttends
<1>3. CASE enabled
  <2>1. OnlyRun(w) /\ run'[w].pc = "take" /\ run'[w].stop = run[w].stop
    BY <1>3, MoveRun DEF Begin, LoopInv, Steps, Taking
  <2>2. run[w].stop = "no" /\ wlock # w
    BY DEF Begin, LoopInv, RunInv, Sound, Holding
  <2>3. Sound(w)' /\ Attending(w)'
    BY <2>1, <2>2 DEF Begin, Sound, Attending, Holding
  <2>4. RunInv'
    BY <1>1, <1>3, <2>1, <2>3, RunKeeps DEF Begin, LockMoves, LoopInv, RunInv, TypeOK
  <2> QED BY <2>3, <2>4 DEF LoopInv, SomeoneAttends
<1> QED BY <1>2, <1>3

-----------------------------------------------------------------------------
(* takeJobs *)

\* A step of w on its way that changes neither the jobs nor what is recorded of
\* them keeps the invariant if w stays sound and attends as it did.
LEMMA WayKeeps ==
  ASSUME LoopInv, NEW w \in Workers, OnlyRun(w), LockMoves(w), Sound(w)',
         Attending(w) => Attending(w)',
         UNCHANGED <<enabled, job, spawned, excused, late>>
  PROVE  LoopInv'
<1>1. Waiting' = Waiting
  BY DEF Waiting
<1>2. RunInv'
  BY RunKeeps DEF LoopInv, RunInv, TypeOK
<1> QED BY <1>1, <1>2, StillAttended DEF LoopInv

LEMMA TakeJobKeeps ==
  ASSUME LoopInv, NEW w \in Workers, NEW c \in Changes, TakeJob(w, c)
  PROVE  LoopInv'
<1>1. OnlyRun(w) /\ run'[w].pc = "measuring" /\ run'[w].stop = run[w].stop
      /\ run'[w].taken = run[w].taken
  BY MoveRun DEF TakeJob, LoopInv, Steps, Taking
<1>2. run[w].stop = "no" /\ run[w].taken < MaxTaken
  BY DEF TakeJob, MayTake, LoopInv, RunInv, Sound, Taking
<1>3. Sound(w)' /\ Attending(w)'
  BY <1>1, <1>2 DEF TakeJob, Sound, Attending, Holding
<1>4. job' \in [Changes -> {"absent", "due", "delayed", "measuring"}]
      /\ Waiting' \subseteq Waiting
  BY DEF TakeJob, Waiting, LoopInv, RunInv, TypeOK
<1>5. RunInv'
  BY <1>1, <1>3, <1>4, RunKeeps DEF TakeJob, Free, LockMoves, LoopInv, RunInv, TypeOK
<1> QED BY <1>1, <1>3, <1>4, <1>5, StillAttended DEF TakeJob, LoopInv

LEMMA TakeEndsKeeps ==
  ASSUME LoopInv, NEW w \in Workers, TakeEnds(w)
  PROVE  LoopInv'
<1>1. OnlyRun(w) /\ run'[w].pc = "after" /\ run'[w].stop = run[w].stop
  BY MoveRun DEF TakeEnds, LoopInv, Steps, Taking
<1>2. wlock # w
  BY DEF TakeEnds, LoopInv, RunInv, Sound, Holding
<1>3. Sound(w)' /\ (Attending(w) => Attending(w)')
  BY <1>1, <1>2 DEF TakeEnds, Sound, Attending, Holding, Taking
<1> QED BY <1>1, <1>3, WayKeeps DEF TakeEnds, LockMoves

LEMMA TakeStops ==
  ASSUME LoopInv, NEW w \in Workers, NEW why \in {"busy", "disabled", "unavailable"},
         run[w].pc = "take", Stop(w, why)
  PROVE  OnlyRun(w) /\ run'[w].pc = "after" /\ run'[w].stop = why
<1>1. run[w] \in RunState
  BY DEF LoopInv, RunInv, TypeOK
<1> DEFINE r == [run[w] EXCEPT !.pc = "after", !.stop = why]
<1>2. run' = [run EXCEPT ![w] = r]
  BY DEF Stop, LoopInv, RunInv, TypeOK
<1>3. r \in RunState /\ r.pc = "after" /\ r.stop = why
  BY <1>1 DEF RunState
<1> HIDE DEF r
<1> QED BY <1>2, <1>3 DEF OnlyRun, LoopInv, RunInv, TypeOK

LEMMA TakeDisabledKeeps ==
  ASSUME LoopInv, NEW w \in Workers, TakeDisabled(w)
  PROVE  LoopInv'
<1>1. OnlyRun(w) /\ run'[w].pc = "after" /\ run'[w].stop = "disabled"
  BY TakeStops DEF TakeDisabled, MayTake
<1>2. wlock # w
  BY DEF TakeDisabled, MayTake, LoopInv, RunInv, Sound, Holding
<1>3. Sound(w)' /\ (Attending(w) => Attending(w)')
  BY <1>1, <1>2 DEF TakeDisabled, Sound, Attending, Holding, Taking
<1> QED BY <1>1, <1>3, WayKeeps DEF TakeDisabled, LockMoves

\* A run sent away leaves its jobs to the one that holds the lock, which attends.
LEMMA TakeBusyKeeps ==
  ASSUME LoopInv, NEW w \in Workers, TakeBusy(w)
  PROVE  LoopInv'
<1>1. OnlyRun(w) /\ run'[w].pc = "after" /\ run'[w].stop = "busy"
  BY TakeStops DEF TakeBusy, MayTake
<1>2. wlock # w /\ wlock \in Workers
  BY DEF TakeBusy, Busy, LoopInv, RunInv, TypeOK
<1>3. Sound(w)'
  BY <1>1, <1>2 DEF TakeBusy, Sound, Holding, Taking
<1>4. RunInv'
  BY <1>1, <1>3, RunKeeps DEF TakeBusy, LockMoves, LoopInv, RunInv, TypeOK
<1>5. run'[wlock] = run[wlock]
  BY <1>1, <1>2 DEF OnlyRun
<1>6. Attending(wlock)
  BY <1>2 DEF LoopInv, RunInv, Sound, Attending, Holding, Taking
<1>7. run'[wlock].pc # "off" /\ (run'[wlock].stop # "busy" \/ run'[wlock].pc = "flushing")
  BY <1>5, <1>6 DEF Attending
<1>8. \E v \in Workers : Attending(v)'
  BY <1>2, <1>7 DEF Attending
<1> QED BY <1>4, <1>8 DEF LoopInv, SomeoneAttends

LEMMA JobEndsKeeps ==
  ASSUME LoopInv, NEW w \in Workers, NEW c \in Changes, NEW next \in {"absent", "delayed"},
         NEW done \in BOOLEAN, JobEnds(w, c, next, done)
  PROVE  LoopInv'
<1>1. run[w] \in RunState /\ run[w].taken < MaxTaken /\ run[w].stop = "no" /\ wlock = w
  BY DEF JobEnds, LoopInv, RunInv, TypeOK, Sound, Holding, Taking
<1> DEFINE r == [run[w] EXCEPT !.pc = "take", !.taken = Count(@), !.done = @ \/ done]
<1>2. run' = [run EXCEPT ![w] = r]
  BY DEF JobEnds, LoopInv, RunInv, TypeOK
<1>3. Count(run[w].taken) \in 0 .. MaxTaken
  BY <1>1, WorkerAssumption DEF Count, RunState
<1>4. r \in RunState /\ r.pc = "take" /\ r.stop = "no"
  BY <1>1, <1>3 DEF RunState
<1> HIDE DEF r
<1>5. OnlyRun(w) /\ run'[w].pc = "take" /\ run'[w].stop = "no"
  BY <1>2, <1>4 DEF OnlyRun, LoopInv, RunInv, TypeOK
<1>6. wlock' # w
  BY WorkerAssumption DEF JobEnds
<1>7. Sound(w)' /\ Attending(w)'
  BY <1>5, <1>6 DEF Sound, Attending, Holding
<1>8. job' \in [Changes -> {"absent", "due", "delayed", "measuring"}]
      /\ Waiting' \subseteq Waiting
  BY DEF JobEnds, Waiting, LoopInv, RunInv, TypeOK
<1>9. RunInv'
  BY <1>1, <1>5, <1>7, <1>8, RunKeeps DEF JobEnds, LockMoves, LoopInv, RunInv, TypeOK
<1> QED BY <1>5, <1>7, <1>8, <1>9, StillAttended DEF JobEnds, LoopInv

LEMMA JobWaitsKeeps ==
  ASSUME LoopInv, NEW w \in Workers, NEW c \in Changes, JobWaits(w, c)
  PROVE  LoopInv'
<1>1. run[w] \in RunState /\ run[w].taken < MaxTaken /\ wlock = w
  BY DEF JobWaits, LoopInv, RunInv, TypeOK, Sound, Holding
<1>2. Count(run[w].taken) \in 0 .. MaxTaken
  BY <1>1, WorkerAssumption DEF Count, RunState
<1>3. OnlyRun(w) /\ run'[w].pc = "after" /\ run'[w].stop = "unavailable"
  BY <1>2, StopRun DEF JobWaits, LoopInv
<1>4. wlock' # w
  BY WorkerAssumption DEF JobWaits
<1>5. Sound(w)' /\ Attending(w)'
  BY <1>3, <1>4 DEF Sound, Attending, Holding, Taking
<1>6. job' \in [Changes -> {"absent", "due", "delayed", "measuring"}]
      /\ Waiting' \subseteq Waiting
  BY DEF JobWaits, Waiting, LoopInv, RunInv, TypeOK
<1>7. RunInv'
  BY <1>1, <1>3, <1>5, <1>6, RunKeeps DEF JobWaits, LockMoves, LoopInv, RunInv, TypeOK
<1> QED BY <1>3, <1>5, <1>6, <1>7, StillAttended DEF JobWaits, LoopInv

LEMMA JobFindsQueueFullKeeps ==
  ASSUME LoopInv, NEW w \in Workers, NEW c \in Changes, JobFindsQueueFull(w, c)
  PROVE  LoopInv'
<1>1. run[w] \in RunState /\ run[w].taken < MaxTaken /\ run[w].stop = "no" /\ wlock = w
  BY DEF JobFindsQueueFull, LoopInv, RunInv, TypeOK, Sound, Holding, Taking
<1> DEFINE r == [run[w] EXCEPT !.pc = "drain", !.drained = TRUE]
<1>2. run' = [run EXCEPT ![w] = r]
  BY DEF JobFindsQueueFull, LoopInv, RunInv, TypeOK
<1>3. r \in RunState /\ r.pc = "drain" /\ r.stop = "no" /\ r.taken = run[w].taken
  BY <1>1 DEF RunState
<1> HIDE DEF r
<1>4. OnlyRun(w) /\ run'[w].pc = "drain" /\ run'[w].stop = "no" /\ run'[w].taken < MaxTaken
  BY <1>1, <1>2, <1>3 DEF OnlyRun, LoopInv, RunInv, TypeOK
<1>5. wlock' # w
  BY WorkerAssumption DEF JobFindsQueueFull
<1>6. Sound(w)' /\ Attending(w)'
  BY <1>4, <1>5 DEF Sound, Attending, Holding
<1>7. job' \in [Changes -> {"absent", "due", "delayed", "measuring"}]
      /\ Waiting' \subseteq Waiting
  BY DEF JobFindsQueueFull, Waiting, LoopInv, RunInv, TypeOK
<1>8. RunInv'
  BY <1>1, <1>4, <1>6, <1>7, RunKeeps DEF JobFindsQueueFull, LockMoves, LoopInv, RunInv, TypeOK
<1> QED BY <1>4, <1>6, <1>7, <1>8, StillAttended DEF JobFindsQueueFull, LoopInv

\* A delivery that begins holds the lock and changes nothing else.
LEMMA DrainBeginsKeeps ==
  ASSUME LoopInv, NEW w \in Workers, DrainBegins(w)
  PROVE  LoopInv'
<1>1. OnlyRun(w) /\ run'[w].pc = "draining" /\ run'[w].stop = run[w].stop
      /\ run'[w].taken = run[w].taken
  BY MoveRun DEF DrainBegins, LoopInv, Steps, Taking
<1>2. run[w].stop = "no" /\ run[w].taken < MaxTaken
  BY DEF DrainBegins, LoopInv, RunInv, Sound, Taking
<1>3. Sound(w)' /\ Attending(w)'
  BY <1>1, <1>2 DEF DrainBegins, Sound, Attending, Holding
<1> QED BY <1>1, <1>3, WayKeeps DEF DrainBegins, Free, LockMoves

LEMMA UndrainedRun ==
  ASSUME LoopInv, NEW w \in Workers, run[w].pc \in {"drain", "draining"}, Undrained(w)
  PROVE  OnlyRun(w) /\ run'[w].pc = "after" /\ run'[w].stop = "unavailable"
<1>1. run[w] \in RunState /\ run[w].taken < MaxTaken
  BY DEF LoopInv, RunInv, TypeOK, Sound
<1>2. Count(run[w].taken) \in 0 .. MaxTaken
  BY <1>1, WorkerAssumption DEF Count, RunState
<1> QED BY <1>2, StopRun DEF Undrained, LoopInv

LEMMA DrainBusyKeeps ==
  ASSUME LoopInv, NEW w \in Workers, DrainBusy(w)
  PROVE  LoopInv'
<1>1. OnlyRun(w) /\ run'[w].pc = "after" /\ run'[w].stop = "unavailable"
  BY UndrainedRun DEF DrainBusy
<1>2. wlock # w
  BY DEF DrainBusy, Busy
<1>3. Sound(w)' /\ Attending(w)'
  BY <1>1, <1>2 DEF DrainBusy, Sound, Attending, Holding, Taking
<1> QED BY <1>1, <1>3, WayKeeps DEF DrainBusy, LockMoves

LEMMA DrainEndsKeeps ==
  ASSUME LoopInv, NEW w \in Workers, DrainEnds(w)
  PROVE  LoopInv'
<1>1. wlock = w /\ run[w].stop = "no"
  BY DEF DrainEnds, LoopInv, RunInv, Sound, Holding, Taking
<1>2. OnlyRun(w) /\ \/ run'[w].pc = "take" /\ run'[w].stop = "no"
                    \/ run'[w].pc = "after" /\ run'[w].stop = "unavailable"
  BY <1>1, MoveRun, UndrainedRun DEF DrainEnds, LoopInv, Steps, Taking
<1>3. wlock' # w /\ wlock' = None
  BY WorkerAssumption DEF DrainEnds
<1>4. Sound(w)' /\ Attending(w)'
  BY <1>2, <1>3 DEF Sound, Attending, Holding, Taking
<1> QED BY <1>1, <1>2, <1>3, <1>4, WayKeeps DEF DrainEnds, LockMoves

-----------------------------------------------------------------------------
(* The passes of a run *)

LEMMA AfterKeeps ==
  ASSUME LoopInv, NEW w \in Workers, NEW waiting \in BOOLEAN, After(w, waiting)
  PROVE  LoopInv'
<1>1. OnlyRun(w) /\ run'[w].pc \in {"flush", "decide"} /\ run'[w].stop = run[w].stop
  BY MoveRun DEF After, LoopInv, Steps
<1>2. wlock # w
  BY DEF After, LoopInv, RunInv, Sound, Holding
<1>3. Sound(w)' /\ (Attending(w) => Attending(w)')
  BY <1>1, <1>2 DEF After, Sound, Attending, Holding, Taking
<1> QED BY <1>1, <1>3, WayKeeps DEF After, LockMoves

LEMMA FlushBeginsKeeps ==
  ASSUME LoopInv, NEW w \in Workers, FlushBegins(w)
  PROVE  LoopInv'
<1>1. OnlyRun(w) /\ run'[w].pc = "flushing"
  BY MoveRun DEF FlushBegins, LoopInv, Steps
<1>2. Sound(w)' /\ Attending(w)'
  BY <1>1 DEF FlushBegins, Sound, Attending, Holding, Taking
<1> QED BY <1>1, <1>2, WayKeeps DEF FlushBegins, Free, LockMoves

LEMMA FlushBusyKeeps ==
  ASSUME LoopInv, NEW w \in Workers, FlushBusy(w)
  PROVE  LoopInv'
<1>1. OnlyRun(w) /\ run'[w].pc = "decide" /\ run'[w].stop = run[w].stop
  BY MoveRun DEF FlushBusy, LoopInv, Steps
<1>2. wlock # w
  BY DEF FlushBusy, Busy
<1>3. Sound(w)' /\ (Attending(w) => Attending(w)')
  BY <1>1, <1>2 DEF FlushBusy, Sound, Attending, Holding, Taking
<1> QED BY <1>1, <1>3, WayKeeps DEF FlushBusy, LockMoves

\* A delivery that ends in a run sent away leaves every waiting job as `late`; in
\* any other run, the run still looks at them.
LEMMA FlushEndsKeeps ==
  ASSUME LoopInv, NEW w \in Workers, FlushEnds(w)
  PROVE  LoopInv'
<1>1. OnlyRun(w) /\ run'[w].pc = "decide" /\ run'[w].stop = run[w].stop
  BY MoveRun DEF FlushEnds, LoopInv, Steps
<1>2. wlock = w /\ wlock' = None /\ wlock' # w
  BY WorkerAssumption DEF FlushEnds, LoopInv, RunInv, Sound, Holding
<1>3. Sound(w)'
  BY <1>1, <1>2 DEF Sound, Holding, Taking
<1>4. Waiting' = Waiting /\ Waiting \subseteq Changes
  BY DEF FlushEnds, Waiting
<1>5. RunInv'
  BY <1>1, <1>2, <1>3, <1>4, RunKeeps DEF FlushEnds, LockMoves, LoopInv, RunInv, TypeOK
<1>6. CASE run[w].stop = "busy"
  <2>1. Waiting' \subseteq excused' \cup late'
    BY <1>4, <1>6 DEF FlushEnds
  <2> QED BY <1>5, <2>1 DEF LoopInv, SomeoneAttends
<1>7. CASE run[w].stop # "busy"
  <2>1. Attending(w)'
    BY <1>1, <1>7 DEF Attending
  <2> QED BY <1>5, <2>1 DEF LoopInv, SomeoneAttends
<1> QED BY <1>6, <1>7

LEMMA NextPassKeeps ==
  ASSUME LoopInv, NEW w \in Workers, NextPass(w)
  PROVE  LoopInv'
<1>1. run[w] \in RunState /\ run[w].stop = "no" /\ run[w].pass + 1 \in 0 .. MaxTaken
  BY WorkerAssumption
     DEF NextPass, Continues, Capped, LoopInv, RunInv, TypeOK, RunState
<1> DEFINE r == [run[w] EXCEPT !.pc = "take", !.pass = @ + 1, !.done = FALSE]
<1>2. run' = [run EXCEPT ![w] = r]
  BY DEF NextPass, LoopInv, RunInv, TypeOK
<1>3. r \in RunState /\ r.pc = "take" /\ r.stop = "no"
  BY <1>1 DEF RunState
<1> HIDE DEF r
<1>4. OnlyRun(w) /\ run'[w].pc = "take" /\ run'[w].stop = "no"
  BY <1>2, <1>3 DEF OnlyRun, LoopInv, RunInv, TypeOK
<1>5. wlock # w
  BY DEF NextPass, LoopInv, RunInv, Sound, Holding
<1>6. Sound(w)' /\ Attending(w)'
  BY <1>4, <1>5 DEF NextPass, Sound, Attending, Holding
<1> QED BY <1>4, <1>6, WayKeeps DEF NextPass, LockMoves

\* At its cap the run leaves a fresh worker for the jobs still due.
LEMMA RunCappedKeeps ==
  ASSUME LoopInv, NEW w \in Workers, RunCapped(w)
  PROVE  LoopInv'
<1>1. OnlyRun(w) /\ run'[w].pc = "off" /\ run'[w].stop = "no"
  BY FreshRun DEF RunCapped, LoopInv
<1>2. wlock # w
  BY DEF RunCapped, LoopInv, RunInv, Sound, Holding
<1>3. Sound(w)'
  BY <1>1, <1>2 DEF RunCapped, Sound, Holding
<1>4. spawned' \in 0 .. MaxSpawned /\ spawned' > 0
  BY WorkerAssumption DEF RunCapped, HandOff, Spawn, LoopInv, RunInv, TypeOK
<1>5. RunInv'
  BY <1>1, <1>3, <1>4, RunKeeps DEF RunCapped, LockMoves, LoopInv, RunInv, TypeOK
<1> QED BY <1>4, <1>5 DEF LoopInv, SomeoneAttends

LEMMA RunEndsKeeps ==
  ASSUME LoopInv, NEW w \in Workers, RunEnds(w)
  PROVE  LoopInv'
<1>1. OnlyRun(w) /\ run'[w].pc = "off" /\ run'[w].stop = "no"
  BY FreshRun DEF RunEnds, LoopInv
<1>2. wlock # w
  BY DEF RunEnds, LoopInv, RunInv, Sound, Holding
<1>3. Sound(w)'
  BY <1>1, <1>2 DEF RunEnds, Sound, Holding
<1>4. Waiting' = Waiting /\ Waiting \subseteq Changes
  BY DEF RunEnds, Waiting
<1>5. RunInv'
  BY <1>1, <1>3, <1>4, RunKeeps DEF RunEnds, LockMoves, LoopInv, RunInv, TypeOK
<1>6. CASE run[w].stop \in {"unavailable", "disabled"}
  BY <1>4, <1>5, <1>6 DEF RunEnds, LoopInv, SomeoneAttends
<1>7. CASE run[w].stop = "no"
  <2>1. Waiting' = {}
    BY <1>4, <1>7 DEF RunEnds, Continues, DueJobWaiting
  <2> QED BY <1>5, <2>1 DEF LoopInv, SomeoneAttends
<1>8. CASE run[w].stop = "busy"
  <2>1. ~Attending(w)
    BY <1>8 DEF RunEnds, Attending
  <2> QED BY <1>1, <1>4, <1>5, <1>8, <2>1, StillAttended DEF RunEnds, LoopInv
<1> QED BY <1>6, <1>7, <1>8 DEF LoopInv, RunInv, TypeOK, RunState

\* A death excuses every job waiting at that moment.
LEMMA DiesKeeps ==
  ASSUME LoopInv, NEW w \in Workers, Dies(w)
  PROVE  LoopInv'
<1>1. OnlyRun(w) /\ run'[w].pc = "off" /\ run'[w].stop = "no"
  BY FreshRun DEF Dies, LoopInv
<1>2. wlock' # w /\ LockMoves(w)
  BY WorkerAssumption DEF Dies, LockMoves
<1>3. Sound(w)'
  BY <1>1, <1>2 DEF Sound, Holding
<1>4. Waiting' = Waiting /\ Waiting \subseteq Changes
  BY DEF Dies, Waiting
<1>5. RunInv'
  BY <1>1, <1>2, <1>3, <1>4, RunKeeps DEF Dies, LoopInv, RunInv, TypeOK
<1> QED BY <1>4, <1>5 DEF Dies, LoopInv, SomeoneAttends

-----------------------------------------------------------------------------

LEMMA InitLoop == Init => LoopInv
<1> SUFFICES ASSUME Init PROVE LoopInv
  OBVIOUS
<1>1. Fresh \in RunState /\ Fresh.pc = "off" /\ Fresh.stop = "no"
  BY WorkerAssumption DEF Fresh, RunState
<1>2. TypeOK
  BY <1>1, WorkerAssumption DEF Init, TypeOK
<1>3. \A w \in Workers : Sound(w)
  BY <1>1, WorkerAssumption DEF Init, Sound, Holding
<1>4. Waiting = {}
  BY DEF Init, Waiting
<1> QED BY <1>2, <1>3, <1>4 DEF LoopInv, RunInv, SomeoneAttends

LEMMA NextLoop == LoopInv /\ [Next]_vars => LoopInv'
<1> SUFFICES ASSUME LoopInv, [Next]_vars PROVE LoopInv'
  OBVIOUS
<1>1. CASE Disable \/ Enable
  BY <1>1, SwitchKeeps
<1>2. ASSUME NEW c \in Changes, Trigger(c) \/ BackoffExpires(c) PROVE LoopInv'
  BY <1>2, TriggerKeeps, BackoffExpiresKeeps
<1>3. ASSUME NEW w \in Workers, Step(w) PROVE LoopInv'
  <2>1. CASE Outcome(w)
    BY <2>1, JobEndsKeeps, JobWaitsKeeps, JobFindsQueueFullKeeps DEF Outcome
  <2> QED BY <1>3, <2>1, TakeJobKeeps, TakeEndsKeeps, TakeDisabledKeeps, TakeBusyKeeps,
             DrainBeginsKeeps, DrainBusyKeeps, DrainEndsKeeps, AfterKeeps, FlushBeginsKeeps,
             FlushBusyKeeps, FlushEndsKeeps, NextPassKeeps, RunCappedKeeps, RunEndsKeeps
          DEF Step
<1>4. ASSUME NEW w \in Workers, Begin(w) \/ Dies(w) PROVE LoopInv'
  BY <1>4, BeginKeeps, DiesKeeps
<1>5. CASE UNCHANGED vars
  BY <1>5 DEF vars, LoopInv, RunInv, TypeOK, Sound, SomeoneAttends, Attending, Waiting
<1> QED BY <1>1, <1>2, <1>3, <1>4, <1>5 DEF Next

LEMMA LoopInvariant == Spec => []LoopInv
BY InitLoop, NextLoop, PTL DEF Spec

\* Runs, lock and jobs keep their types: no run counts past its cap (maxJobs), and
\* the worker lock always names a worker or no one.
THEOREM TypeCorrect == Spec => []TypeOK
<1>1. LoopInv => TypeOK
  BY DEF LoopInv, RunInv
<1> QED BY <1>1, LoopInvariant, PTL

\* With any number of workers and changes and any cap: when the last worker has
\* left, every job still due was left as documented, or behind the delivery of a
\* run that had itself been sent away (takeJobs, flush and the passes of
\* runAutoDebtWorker).
THEOREM EveryJobIsAttended == Spec => []JobsAttended
<1>1. LoopInv => JobsAttended
  BY DEF LoopInv, SomeoneAttends, JobsAttended, AllGone, Attending
<1> QED BY <1>1, LoopInvariant, PTL

\* The worker lock is held by at most one run, and exactly while it measures a job
\* or delivers: no run touches a job outside the lock.
THEOREM LockWhileWorking ==
  Spec => [](\A w \in Workers : run[w].pc \in {"measuring", "draining", "flushing"} <=> wlock = w)
<1>1. LoopInv => \A w \in Workers :
                   run[w].pc \in {"measuring", "draining", "flushing"} <=> wlock = w
  BY DEF LoopInv, RunInv, Sound, Holding
<1> QED BY <1>1, LoopInvariant, PTL
==============================================================================
