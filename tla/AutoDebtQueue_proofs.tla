------------------------ MODULE AutoDebtQueue_proofs -------------------------
(* Proofs about the automatic debt queue, for every number of changes,      *)
(* workers and hooks and every bound: its types and who owns a job; then what *)
(* it records of each change (nothing is lost, and the queue implements       *)
(* ChangeLedger); then that Core measures each change once.                   *)
EXTENDS AutoDebtQueue, SequenceTheorems, FiniteSetTheorems, TLAPS

-----------------------------------------------------------------------------
(* Sequences *)

\* Removing one position of a sequence leaves a sequence of the same elements.
LEMMA RemoveAtType ==
  ASSUME NEW S, NEW s \in Seq(S), NEW i \in 1 .. Len(s)
  PROVE  RemoveAt(s, i) \in Seq(S)
<1>1. \A k \in 1 .. Len(s) : s[k] \in S
  BY ElementOfSeq
<1>2. Len(s) \in Nat
  OBVIOUS
<1>3. \A k \in 1 .. (i - 1) : s[k] \in S
  BY <1>1, <1>2
<1>4. SubSeq(s, 1, i - 1) \in Seq(S)
  BY <1>2, <1>3, SubSeqProperties
<1>5. \A k \in (i + 1) .. Len(s) : s[k] \in S
  BY <1>1, <1>2
<1>6. SubSeq(s, i + 1, Len(s)) \in Seq(S)
  BY <1>2, <1>5, SubSeqProperties
<1> QED BY <1>4, <1>6, ConcatProperties DEF RemoveAt

\* Taking a job out of the queue leaves a queue of changes.
LEMMA WithoutType ==
  ASSUME NEW s \in Seq(Changes), NEW c
  PROVE  Without(s, c) \in Seq(Changes)
<1>1. CASE c \in Range(s)
  <2>1. PICK i \in DOMAIN s : i = CHOOSE k \in DOMAIN s : s[k] = c
    BY <1>1 DEF Range
  <2>2. i \in 1 .. Len(s)
    BY <2>1
  <2>3. RemoveAt(s, i) \in Seq(Changes)
    BY <2>2, RemoveAtType
  <2> QED BY <1>1, <2>1, <2>3 DEF Without
<1>2. CASE c \notin Range(s)
  BY <1>2 DEF Without
<1> QED BY <1>1, <1>2

-----------------------------------------------------------------------------
(* What a step of one process does to the processes *)

LEMMA GotoType ==
  ASSUME TypeOK, NEW h \in Hooks, NEW step \in {"read", "admit", "settle"}, Goto(h, step)
  PROVE  /\ hook' \in [Hooks -> HookState]
         /\ \A g \in Hooks : hook'[g].change = hook[g].change
         /\ \A g \in Hooks : g # h => hook'[g] = hook[g]
<1>1. hook[h] \in HookState
  BY DEF TypeOK
<1>2. hook'[h] = [hook[h] EXCEPT !.pc = step] /\ \A g \in Hooks : g # h => hook'[g] = hook[g]
  BY DEF TypeOK, Goto
<1>3. hook'[h] \in HookState /\ hook'[h].change = hook[h].change
  BY <1>1, <1>2 DEF HookState
<1> QED BY <1>2, <1>3 DEF TypeOK, Goto

LEMMA LeaveType ==
  ASSUME TypeOK, NEW h \in Hooks, Leave(h)
  PROVE  /\ hook' \in [Hooks -> HookState]
         /\ hook'[h].pc = "idle"
         /\ \A g \in Hooks : g # h => hook'[g] = hook[g]
BY DEF TypeOK, Leave, Idle, HookState

LEMMA ContinueType ==
  ASSUME TypeOK, NEW w \in Workers, NEW step \in {"core", "correlate", "queue"}, Continue(w, step)
  PROVE  /\ worker' \in [Workers -> WorkerState]
         /\ worker'[w].pc = step
         /\ \A v \in Workers : worker'[v].change = worker[v].change
         /\ \A v \in Workers : v # w => worker'[v] = worker[v]
<1>1. worker[w] \in WorkerState
  BY DEF TypeOK
<1>2. worker'[w] = [worker[w] EXCEPT !.pc = step] /\ \A v \in Workers : v # w => worker'[v] = worker[v]
  BY DEF TypeOK, Continue
<1>3. worker'[w] \in WorkerState /\ worker'[w].change = worker[w].change /\ worker'[w].pc = step
  BY <1>1, <1>2 DEF WorkerState
<1> QED BY <1>2, <1>3 DEF TypeOK, Continue

LEMMA ReportType ==
  ASSUME TypeOK, NEW w \in Workers, NEW state \in {"done", "waiting", "failed", "retry", "core-unavailable"},
         NEW taken \in BOOLEAN, Report(w, state, taken)
  PROVE  /\ worker' \in [Workers -> WorkerState]
         /\ worker'[w].pc = "apply"
         /\ worker'[w].result = [state |-> state, taken |-> taken]
         /\ \A v \in Workers : worker'[v].change = worker[v].change
         /\ \A v \in Workers : v # w => worker'[v] = worker[v]
<1> DEFINE r == [state |-> state, taken |-> taken]
<1>1. worker[w] \in WorkerState /\ r \in Result
  BY DEF TypeOK, Result
<1>2. worker'[w] = [worker[w] EXCEPT !.pc = "apply", !.result = r] /\ \A v \in Workers : v # w => worker'[v] = worker[v]
  BY DEF TypeOK, Report
<1>3. worker'[w] \in WorkerState /\ worker'[w].change = worker[w].change /\ worker'[w].pc = "apply"
      /\ worker'[w].result = r
  BY <1>1, <1>2 DEF WorkerState
<1> HIDE DEF r
<1>4. worker' \in [Workers -> WorkerState]
  BY <1>1, <1>2, <1>3 DEF TypeOK, Report
<1> QED BY <1>2, <1>3, <1>4 DEF r

-----------------------------------------------------------------------------
(* Types, and who holds what *)

Active == {"kept", "core", "correlate", "queue", "apply"}

\* A worker has a change exactly while it holds a job, a hook while it runs.
WorkersBusy == \A w \in Workers : worker[w].pc \in Active <=> worker[w].change # None
HooksBusy == \A h \in Hooks : hook[h].pc # "idle" => hook[h].change # None

TypeInv == TypeOK /\ WorkersBusy /\ HooksBusy /\ AttemptsLeft /\ WorkerOwnsItsJob

\* The change of a running hook, and of a busy worker, is a change.
LEMMA HookChange ==
  ASSUME TypeInv, NEW h \in Hooks, hook[h].pc # "idle"
  PROVE  hook[h].change \in Changes
BY DEF TypeInv, TypeOK, HooksBusy, HookState

LEMMA WorkerChange ==
  ASSUME TypeInv, NEW w \in Workers, worker[w].pc \in Active
  PROVE  /\ worker[w].change \in Changes
         /\ wlock = w
         /\ job[worker[w].change].state = "measuring"
BY DEF TypeInv, TypeOK, WorkersBusy, WorkerOwnsItsJob, WorkerState

\* A hook that goes on, or ends, keeps the hooks as they must be.
LEMMA HookMoves ==
  ASSUME TypeInv, NEW h \in Hooks, hook[h].pc # "idle",
         (\E step \in {"read", "admit", "settle"} : Goto(h, step)) \/ Leave(h)
  PROVE  hook' \in [Hooks -> HookState] /\ HooksBusy'
<1>1. CASE \E step \in {"read", "admit", "settle"} : Goto(h, step)
  <2>1. PICK step \in {"read", "admit", "settle"} : Goto(h, step)
    BY <1>1
  <2>2. /\ hook' \in [Hooks -> HookState]
        /\ \A g \in Hooks : hook'[g].change = hook[g].change
        /\ \A g \in Hooks : g # h => hook'[g] = hook[g]
    BY <2>1, GotoType DEF TypeInv
  <2> QED BY <2>2 DEF TypeInv, HooksBusy
<1>2. CASE Leave(h)
  BY <1>2, LeaveType DEF TypeInv, HooksBusy
<1> QED BY <1>1, <1>2

\* Steps that leave the jobs, the workers and their lock alone.
LEMMA JobsAlone ==
  ASSUME TypeInv, UNCHANGED <<job, worker, wlock>>
  PROVE  WorkersBusy' /\ AttemptsLeft' /\ WorkerOwnsItsJob'
BY DEF TypeInv, WorkersBusy, AttemptsLeft, Open, InState, WorkerOwnsItsJob

\* Steps of a worker on its job that leave the jobs alone.
LEMMA WorkerMoves ==
  ASSUME TypeInv, NEW w \in Workers, worker[w].pc \in Active,
         UNCHANGED <<job, wlock, hook>>,
         worker'[w].pc \in Active,
         \A v \in Workers : worker'[v].change = worker[v].change,
         \A v \in Workers : v # w => worker'[v] = worker[v]
  PROVE  WorkersBusy' /\ HooksBusy' /\ AttemptsLeft' /\ WorkerOwnsItsJob'
<1>1. WorkersBusy'
  BY DEF TypeInv, WorkersBusy
<1>2. HooksBusy' /\ AttemptsLeft' /\ WorkerOwnsItsJob'
  BY DEF TypeInv, HooksBusy, AttemptsLeft, Open, InState, WorkerOwnsItsJob
<1> QED BY <1>1, <1>2

\* Steps that change the job of c alone, which no worker has.
LEMMA OneJobChanges ==
  ASSUME TypeInv, NEW c \in Changes, NEW j \in Job,
         job[c].state # "measuring",
         j.state \in {"pending", "measuring"} => j.attempts < MaxAttempts,
         job' = [job EXCEPT ![c] = j],
         UNCHANGED <<worker, wlock>>
  PROVE  /\ job' \in [Changes -> Job]
         /\ WorkersBusy' /\ AttemptsLeft' /\ WorkerOwnsItsJob'
<1>1. job' \in [Changes -> Job]
  BY DEF TypeInv, TypeOK
<1>2. WorkersBusy'
  BY DEF TypeInv, WorkersBusy
<1>3. \A d \in Changes : job'[d] = IF d = c THEN j ELSE job[d]
  BY DEF TypeInv, TypeOK
<1>4. AttemptsLeft'
  BY <1>3 DEF TypeInv, AttemptsLeft, Open, InState
<1>5. WorkerOwnsItsJob'
  <2> SUFFICES ASSUME NEW w \in Workers, worker[w].change # None
               PROVE  wlock = w /\ job'[worker[w].change].state = "measuring"
    BY DEF WorkerOwnsItsJob
  <2>1. wlock = w /\ job[worker[w].change].state = "measuring" /\ worker[w].change \in Changes
    BY DEF TypeInv, TypeOK, WorkerOwnsItsJob, WorkerState
  <2> QED BY <2>1, <1>3
<1> QED BY <1>1, <1>2, <1>4, <1>5

LEMMA NewJobType == NewJob \in Job /\ NoJob \in Job
BY ConstantsAssumption DEF NewJob, NoJob, Job

-----------------------------------------------------------------------------
(* One lemma per action: it keeps TypeInv *)

LEMMA EnableType == TypeInv /\ Enable => TypeInv'
BY JobsAlone DEF TypeInv, TypeOK, HooksBusy, Enable, queueVars, keptVars, history

LEMMA DisableType == TypeInv /\ Disable => TypeInv'
BY JobsAlone DEF TypeInv, TypeOK, HooksBusy, Disable, queueVars, keptVars, history

LEMMA ResetType ==
  ASSUME TypeInv, Reset
  PROVE  TypeInv'
<1>1. TypeOK'
  BY NewJobType DEF TypeInv, TypeOK, Reset
<1>2. WorkersBusy' /\ HooksBusy'
  BY DEF TypeInv, WorkersBusy, HooksBusy, Reset
<1>3. AttemptsLeft'
  BY DEF Reset, AttemptsLeft, Open, InState, NoJob
<1>4. \A w \in Workers : worker[w].change = None
  BY ConstantsAssumption DEF TypeInv, WorkerOwnsItsJob, Reset
<1>5. WorkerOwnsItsJob'
  BY <1>4 DEF WorkerOwnsItsJob, Reset
<1> QED BY <1>1, <1>2, <1>3, <1>5 DEF TypeInv

LEMMA StopType ==
  ASSUME TypeInv, NEW h \in Hooks, NEW c \in Changes, NEW accepted \in BOOLEAN,
         NEW envelope \in BOOLEAN, Stop(h, c, accepted, envelope)
  PROVE  TypeInv'
<1> DEFINE next == [pc |-> IF envelope THEN "native" ELSE "read", change |-> c,
                    admits |-> accepted]
<1>1. next \in HookState /\ next.change = c
  BY DEF HookState
<1>2. hook' = [hook EXCEPT ![h] = next]
  BY DEF Stop
<1> HIDE DEF next
<1>3. hook' \in [Hooks -> HookState] /\ HooksBusy'
  BY <1>1, <1>2, ConstantsAssumption DEF TypeInv, TypeOK, HooksBusy
<1> QED BY <1>3, JobsAlone DEF TypeInv, TypeOK, Stop, queueVars, keptVars, history

LEMMA ManualAssuranceType ==
  ASSUME TypeInv, NEW h \in Hooks, NEW c \in Changes, ManualAssurance(h, c)
  PROVE  TypeInv'
<1>1. hook' \in [Hooks -> HookState] /\ HooksBusy'
  BY ConstantsAssumption DEF TypeInv, TypeOK, HooksBusy, HookState, ManualAssurance
<1> QED BY <1>1, JobsAlone
        DEF TypeInv, TypeOK, ManualAssurance, queueVars, keptVars, history

LEMMA ReadConfigType ==
  ASSUME TypeInv, NEW h \in Hooks, ReadConfig(h)
  PROVE  TypeInv'
<1>1. hook' \in [Hooks -> HookState] /\ HooksBusy'
  BY HookMoves DEF ReadConfig
<1> QED BY <1>1, JobsAlone DEF TypeInv, TypeOK, ReadConfig, queueVars, keptVars, history

LEMMA AdmitType ==
  ASSUME TypeInv, NEW c \in Changes, Admit(c), UNCHANGED <<worker, wlock>>
  PROVE  /\ order' \in Seq(Changes) /\ job' \in [Changes -> Job]
         /\ skipped' \subseteq Changes /\ dropped' \subseteq Changes
         /\ presented' \subseteq Changes
         /\ WorkersBusy' /\ AttemptsLeft' /\ WorkerOwnsItsJob'
<1>1. CASE AlreadyKnown(c) \/ ~HasRoom
  <2>1. UNCHANGED <<order, job>>
    BY <1>1 DEF Admit
  <2> QED BY <2>1, JobsAlone, <1>1 DEF Admit, TypeInv, TypeOK, RecordSkipped
<1>2. CASE ~AlreadyKnown(c) /\ HasRoom
  <2>1. order' = Append(order, c) /\ job' = [job EXCEPT ![c] = NewJob]
        /\ skipped' \subseteq Changes /\ dropped' \subseteq Changes
        /\ presented' \subseteq Changes
    BY <1>2 DEF Admit, Resolve, TypeInv, TypeOK
  <2>2. job[c].state # "measuring"
    BY <1>2 DEF AlreadyKnown, Listed, InState
  <2>3. NewJob.state \in {"pending", "measuring"} => NewJob.attempts < MaxAttempts
    BY ConstantsAssumption DEF NewJob
  <2>4. job' \in [Changes -> Job] /\ WorkersBusy' /\ AttemptsLeft' /\ WorkerOwnsItsJob'
    BY <2>1, <2>2, <2>3, NewJobType, OneJobChanges
  <2>5. order' \in Seq(Changes)
    BY <2>1, AppendProperties DEF TypeInv, TypeOK
  <2> QED BY <2>1, <2>4, <2>5
<1> QED BY <1>1, <1>2

LEMMA EnqueueType ==
  ASSUME TypeInv, NEW h \in Hooks, Enqueue(h)
  PROVE  TypeInv'
<1>1. hook' \in [Hooks -> HookState] /\ HooksBusy'
  BY HookMoves DEF Enqueue
<1>2. hook[h].change \in Changes
  BY HookChange DEF Enqueue
<1> QED BY <1>1, <1>2, AdmitType DEF TypeInv, TypeOK, Enqueue, keptVars

LEMMA NotKeptType ==
  ASSUME TypeInv, NEW h \in Hooks, NotKept(h)
  PROVE  TypeInv'
<1>1. hook' \in [Hooks -> HookState] /\ HooksBusy'
  BY HookMoves DEF NotKept, AfterNative
<1> QED BY <1>1, JobsAlone DEF TypeInv, TypeOK, NotKept, queueVars, keptVars, history

LEMMA KeepForJobType ==
  ASSUME TypeInv, NEW h \in Hooks, KeepForJob(h)
  PROVE  TypeInv'
<1> DEFINE c == hook[h].change
<1>1. hook' \in [Hooks -> HookState] /\ HooksBusy'
  BY HookMoves DEF KeepForJob, AfterNative
<1>2. c \in Changes
  BY HookChange DEF KeepForJob
<1>3. job' \in [Changes -> Job] /\ WorkersBusy' /\ AttemptsLeft' /\ WorkerOwnsItsJob'
  <2>1. CASE job[c].state = "failed"
    <3>1. job' = [job EXCEPT ![c] = NewJob] /\ UNCHANGED <<worker, wlock>>
      BY <2>1 DEF KeepForJob
    <3>2. NewJob.state \in {"pending", "measuring"} => NewJob.attempts < MaxAttempts
      BY ConstantsAssumption DEF NewJob
    <3> HIDE DEF c
    <3> QED BY <1>2, <2>1, <3>1, <3>2, NewJobType, OneJobChanges
  <2>2. CASE job[c].state # "failed"
    <3>1. UNCHANGED <<job, worker, wlock>>
      BY <2>2 DEF KeepForJob
    <3> QED BY <3>1, JobsAlone DEF TypeInv, TypeOK
  <2> QED BY <2>1, <2>2
<1>4. receipt' \subseteq Changes
  BY <1>2 DEF KeepForJob, TypeInv, TypeOK
<1> QED BY <1>1, <1>3, <1>4 DEF TypeInv, TypeOK, KeepForJob, history

LEMMA KeepAndAdmitType ==
  ASSUME TypeInv, NEW h \in Hooks, KeepAndAdmit(h)
  PROVE  TypeInv'
<1>1. hook' \in [Hooks -> HookState] /\ HooksBusy'
  BY HookMoves DEF KeepAndAdmit, AfterNative
<1>2. hook[h].change \in Changes
  BY HookChange DEF KeepAndAdmit
<1>3. receipt' \subseteq Changes
  BY <1>2 DEF KeepAndAdmit, TypeInv, TypeOK
<1> QED BY <1>1, <1>2, <1>3, AdmitType DEF TypeInv, TypeOK, KeepAndAdmit

LEMMA KeepInterruptedType ==
  ASSUME TypeInv, NEW h \in Hooks, KeepInterrupted(h)
  PROVE  TypeInv'
<1>1. hook' \in [Hooks -> HookState] /\ HooksBusy'
  BY HookMoves DEF KeepInterrupted
<1>2. receipt' \subseteq Changes
  BY HookChange DEF KeepInterrupted, TypeInv, TypeOK
<1> QED BY <1>1, <1>2, JobsAlone DEF TypeInv, TypeOK, KeepInterrupted, queueVars, history

LEMMA SettleType ==
  ASSUME TypeInv, NEW h \in Hooks, Settle(h)
  PROVE  TypeInv'
<1> DEFINE c == hook[h].change
<1>1. hook' \in [Hooks -> HookState] /\ HooksBusy'
  BY HookMoves DEF Settle
<1>2. c \in Changes
  BY HookChange DEF Settle
<1>3. CASE LeftToWorker(c)
  BY <1>1, <1>3, JobsAlone DEF Settle, LeftToWorker, TypeInv, TypeOK, queueVars, keptVars
<1>4. CASE ~LeftToWorker(c)
  <2>1. /\ order' = Without(order, c)
        /\ job' = [job EXCEPT ![c] = NoJob]
        /\ measured' = measured \cup {c}
        /\ skipped' \subseteq Changes /\ dropped' \subseteq Changes
        /\ bound' \subseteq Changes /\ receipt' \subseteq Changes
        /\ UNCHANGED <<config, wlock, worker, presented, runs>>
    BY <1>4 DEF Settle, Prune, Resolve, TypeInv, TypeOK
  <2>2. order' \in Seq(Changes)
    BY <2>1, WithoutType DEF TypeInv, TypeOK
  <2>3. NoJob.state = "none"
    BY DEF NoJob
  <2>4. job' \in [Changes -> Job] /\ WorkersBusy' /\ AttemptsLeft' /\ WorkerOwnsItsJob'
    <3>1. job[c].state # "measuring"
      BY <1>4 DEF LeftToWorker
    <3> HIDE DEF c
    <3> QED BY <1>2, <2>1, <2>3, <3>1, NewJobType, OneJobChanges
  <2>5. measured' \subseteq Changes
    BY <1>2, <2>1 DEF TypeInv, TypeOK
  <2> HIDE DEF c
  <2> QED BY <1>1, <2>1, <2>2, <2>4, <2>5 DEF TypeInv, TypeOK
<1> QED BY <1>3, <1>4

LEMMA NotSettledType ==
  ASSUME TypeInv, NEW h \in Hooks, NotSettled(h)
  PROVE  TypeInv'
<1>1. hook' \in [Hooks -> HookState] /\ HooksBusy'
  BY HookMoves DEF NotSettled
<1> QED BY <1>1, JobsAlone DEF TypeInv, TypeOK, NotSettled, queueVars, keptVars, history

LEMMA HookEndsType ==
  ASSUME TypeInv, NEW h \in Hooks, HookEnds(h)
  PROVE  TypeInv'
<1>1. hook' \in [Hooks -> HookState] /\ HooksBusy'
  BY HookMoves DEF HookEnds
<1> QED BY <1>1, JobsAlone DEF TypeInv, TypeOK, HookEnds, queueVars, keptVars, history

LEMMA RunStartType ==
  ASSUME TypeInv, NEW w \in Workers, NEW retryFailed \in BOOLEAN, RunStart(w, retryFailed)
  PROVE  TypeInv'
<1> DEFINE start == [Off EXCEPT !.pc = "idle", !.retry = IF retryFailed THEN Failed ELSE {}]
<1>1. start \in WorkerState /\ start.pc = "idle" /\ start.change = None
  BY DEF Off, NoResult, Result, WorkerState, Failed, InState
<1>2. worker' = [worker EXCEPT ![w] = start]
  BY DEF RunStart
<1> HIDE DEF start
<1>3. worker' \in [Workers -> WorkerState] /\ WorkersBusy' /\ WorkerOwnsItsJob'
  BY <1>1, <1>2 DEF TypeInv, TypeOK, WorkersBusy, WorkerOwnsItsJob, RunStart, Active,
                    queueVars
<1>4. HooksBusy' /\ AttemptsLeft'
  BY DEF RunStart, queueVars, TypeInv, HooksBusy, AttemptsLeft, Open, InState
<1> QED BY <1>3, <1>4 DEF TypeInv, TypeOK, RunStart, queueVars, keptVars, history

LEMMA TakeType ==
  ASSUME TypeInv, NEW w \in Workers, NEW c \in Changes, Take(w, c)
  PROVE  TypeInv'
<1>1. \A v \in Workers : worker[v].change = None /\ worker[v].pc \notin Active
  BY ConstantsAssumption DEF Take, LockFree, TypeInv, WorkerOwnsItsJob, WorkersBusy
<1>2. \A d \in Changes : /\ Recovered[d] \in Job
                         /\ Recovered[d].attempts = job[d].attempts
                         /\ Recovered[d].state = "pending" => job[d].state \in {"pending", "measuring"}
                         /\ Recovered[d].state # "measuring"
  <2> SUFFICES ASSUME NEW d \in Changes
               PROVE  /\ Recovered[d] \in Job
                      /\ Recovered[d].attempts = job[d].attempts
                      /\ Recovered[d].state = "pending" => job[d].state \in {"pending", "measuring"}
                      /\ Recovered[d].state # "measuring"
    OBVIOUS
  <2>1. job[d] \in Job
    BY DEF TypeInv, TypeOK
  <2> QED BY <2>1 DEF Recovered, Job
<1> DEFINE taken == [state |-> "measuring", delayed |-> FALSE, attempts |-> AttemptsAtTake(c)]
<1>3. job[c].state \in {"pending", "measuring", "failed"}
  BY <1>2 DEF Take, IsFirst, Due, Failed, InState
<1>4. AttemptsAtTake(c) \in 0 .. MaxAttempts /\ AttemptsAtTake(c) < MaxAttempts
  BY <1>3, ConstantsAssumption
     DEF AttemptsAtTake, TypeInv, TypeOK, Job, AttemptsLeft, Open, InState
<1>5. taken \in Job /\ taken.state = "measuring" /\ taken.attempts < MaxAttempts
  BY <1>4 DEF Job
<1>6. job' = [Recovered EXCEPT ![c] = taken]
  BY DEF Take
<1> HIDE DEF taken
<1>7. \A d \in Changes : job'[d] = IF d = c THEN taken ELSE Recovered[d]
  BY <1>6 DEF Recovered
<1>8. job' \in [Changes -> Job]
  BY <1>2, <1>5, <1>6 DEF Recovered
<1>9. AttemptsLeft'
  BY <1>2, <1>5, <1>7 DEF TypeInv, AttemptsLeft, Open, InState
<1>10. /\ worker'[w].pc = "kept" /\ worker'[w].change = c
       /\ worker'[w] \in WorkerState
       /\ \A v \in Workers : v # w => worker'[v] = worker[v]
       /\ worker' \in [Workers -> WorkerState]
  <2> DEFINE r == IF job[c].state = "failed" THEN worker[w].retry \ {c} ELSE worker[w].retry
             next == [pc |-> "kept", change |-> c, result |-> NoResult, retry |-> r]
  <2>1. r \in SUBSET Changes
    BY DEF TypeInv, TypeOK, WorkerState
  <2>2. next \in WorkerState /\ next.pc = "kept" /\ next.change = c
    BY <2>1 DEF WorkerState, NoResult, Result
  <2>3. worker' = [worker EXCEPT ![w] = next]
    BY DEF Take
  <2> HIDE DEF r, next
  <2> QED BY <2>2, <2>3 DEF TypeInv, TypeOK
<1>11. WorkersBusy'
  BY <1>1, <1>10, ConstantsAssumption DEF WorkersBusy, Active
<1>12. WorkerOwnsItsJob'
  BY <1>1, <1>5, <1>7, <1>10 DEF WorkerOwnsItsJob, Take
<1>13. HooksBusy'
  BY DEF Take, TypeInv, HooksBusy
<1> QED BY <1>8, <1>9, <1>10, <1>11, <1>12, <1>13
        DEF TypeInv, TypeOK, Take, keptVars, history

LEMMA ReadKeptType ==
  ASSUME TypeInv, NEW w \in Workers, ReadKept(w)
  PROVE  TypeInv'
<1>1. AfterKept(worker[w].change) \in {"core", "correlate", "queue"}
  BY DEF AfterKept
<1>2. /\ worker' \in [Workers -> WorkerState]
      /\ worker'[w].pc \in Active /\ worker[w].pc \in Active
      /\ \A v \in Workers : worker'[v].change = worker[v].change
      /\ \A v \in Workers : v # w => worker'[v] = worker[v]
  BY <1>1, ContinueType DEF ReadKept, TypeInv, Active
<1> QED BY <1>2, WorkerMoves
        DEF ReadKept, TypeInv, TypeOK, queueVars, keptVars, history

LEMMA CoreFailsType ==
  ASSUME TypeInv, NEW w \in Workers, CoreFails(w)
  PROVE  TypeInv'
<1>1. /\ worker' \in [Workers -> WorkerState]
      /\ worker'[w].pc \in Active /\ worker[w].pc \in Active
      /\ \A v \in Workers : worker'[v].change = worker[v].change
      /\ \A v \in Workers : v # w => worker'[v] = worker[v]
  BY ReportType DEF CoreFails, TypeInv, Active
<1> QED BY <1>1, WorkerMoves
        DEF CoreFails, TypeInv, TypeOK, queueVars, keptVars, history

LEMMA CoreMeasuresType ==
  ASSUME TypeInv, NEW w \in Workers, CoreMeasures(w)
  PROVE  TypeInv'
<1>1. /\ worker' \in [Workers -> WorkerState]
      /\ worker'[w].pc \in Active /\ worker[w].pc \in Active
      /\ \A v \in Workers : worker'[v].change = worker[v].change
      /\ \A v \in Workers : v # w => worker'[v] = worker[v]
  BY ContinueType DEF CoreMeasures, TypeInv, Active
<1>2. worker[w].change \in Changes
  BY <1>1, WorkerChange
<1>3. bound' \subseteq Changes /\ runs' \in [Changes -> Nat]
  BY <1>2 DEF CoreMeasures, TypeInv, TypeOK
<1> QED BY <1>1, <1>3, WorkerMoves DEF CoreMeasures, TypeInv, TypeOK, queueVars

LEMMA CorrelateFailsType ==
  ASSUME TypeInv, NEW w \in Workers, CorrelateFails(w)
  PROVE  TypeInv'
<1>1. /\ worker' \in [Workers -> WorkerState]
      /\ worker'[w].pc \in Active /\ worker[w].pc \in Active
      /\ \A v \in Workers : worker'[v].change = worker[v].change
      /\ \A v \in Workers : v # w => worker'[v] = worker[v]
  BY ReportType DEF CorrelateFails, TypeInv, Active
<1> QED BY <1>1, WorkerMoves
        DEF CorrelateFails, TypeInv, TypeOK, queueVars, keptVars, history

LEMMA CorrelateType ==
  ASSUME TypeInv, NEW w \in Workers, Correlate(w)
  PROVE  TypeInv'
<1>1. /\ worker' \in [Workers -> WorkerState]
      /\ worker'[w].pc \in Active /\ worker[w].pc \in Active
      /\ \A v \in Workers : worker'[v].change = worker[v].change
      /\ \A v \in Workers : v # w => worker'[v] = worker[v]
  BY ContinueType DEF Correlate, TypeInv, Active
<1>2. receipt' \subseteq Changes
  BY <1>1, WorkerChange DEF Correlate, TypeInv, TypeOK
<1> QED BY <1>1, <1>2, WorkerMoves DEF Correlate, TypeInv, TypeOK, queueVars, history

LEMMA QueueReceiptType ==
  ASSUME TypeInv, NEW w \in Workers, QueueReceipt(w)
  PROVE  TypeInv'
<1>1. /\ worker' \in [Workers -> WorkerState]
      /\ worker'[w].pc \in Active /\ worker[w].pc \in Active
      /\ \A v \in Workers : worker'[v].change = worker[v].change
      /\ \A v \in Workers : v # w => worker'[v] = worker[v]
  BY ReportType DEF QueueReceipt, TypeInv, Active
<1>2. bound' \subseteq Changes /\ receipt' \subseteq Changes
  BY DEF QueueReceipt, Prune, TypeInv, TypeOK
<1> QED BY <1>1, <1>2, WorkerMoves
        DEF QueueReceipt, TypeInv, TypeOK, queueVars, history

\* A failing job, with or without an older one that leaves the list.
LEMMA FailType ==
  ASSUME TypeInv, NEW c \in Changes, NEW attempts \in 0 .. MaxAttempts, Fail(c, attempts)
  PROVE  /\ order' \in Seq(Changes) /\ job' \in [Changes -> Job] /\ dropped' \subseteq Changes
         /\ \A d \in Changes : job'[d].state \in {"pending", "measuring"} => job'[d] = job[d]
<1> DEFINE failedJob == [state |-> "failed", attempts |-> attempts, delayed |-> FALSE]
<1>1. failedJob \in Job /\ failedJob.state = "failed"
  BY DEF Job
<1>2. NoJob \in Job /\ NoJob.state = "none"
  BY NewJobType DEF NoJob
<1>3. CASE ~FailedFull(c)
  <2>1. job' = [job EXCEPT ![c] = failedJob] /\ UNCHANGED <<order, dropped>>
    BY <1>3 DEF Fail
  <2> HIDE DEF failedJob
  <2> QED BY <1>1, <2>1 DEF TypeInv, TypeOK
<1>4. CASE FailedFull(c)
  <2>1. PICK old \in Failed \ {c} :
          /\ job' = [job EXCEPT ![c] = failedJob, ![old] = NoJob]
          /\ order' = Without(order, old)
          /\ dropped' = RecordDropped(old)
    BY <1>4 DEF Fail
  <2>2. old \in Changes /\ order' \in Seq(Changes) /\ dropped' \subseteq Changes
    BY <2>1, WithoutType DEF RecordDropped, Failed, InState, TypeInv, TypeOK
  <2> HIDE DEF failedJob
  <2> QED BY <1>1, <1>2, <2>1, <2>2 DEF TypeInv, TypeOK
<1> QED BY <1>3, <1>4

\* What a worker writes back: its own job is over or open again, no other job opens.
LEMMA OutcomeType ==
  ASSUME TypeInv, NEW w \in Workers, Apply(w)
  PROVE  /\ order' \in Seq(Changes) /\ job' \in [Changes -> Job] /\ dropped' \subseteq Changes
         /\ AttemptsLeft'
<1> DEFINE c == worker[w].change
           state == worker[w].result.state
<1>1. c \in Changes /\ job[c].state = "measuring" /\ c \in Listed
  BY WorkerChange DEF Apply, Active, Listed, InState
<1>2. job[c] \in Job /\ job[c].attempts \in Nat /\ job[c].attempts < MaxAttempts
  BY <1>1 DEF TypeInv, TypeOK, Job, AttemptsLeft, Open, InState
<1>3. job[c].attempts + 1 \in 0 .. MaxAttempts
  BY <1>2, ConstantsAssumption
<1>4. \/ ApplyDone(c)
      \/ Fail(c, job[c].attempts + 1)
      \/ ApplyRetry(c)
      \/ ApplyWait(c)
  BY <1>1 DEF Apply
<1> HIDE DEF c, state
<1>5. CASE ApplyDone(c)
  <2>1. order' \in Seq(Changes)
    BY <1>5, WithoutType DEF ApplyDone, TypeInv, TypeOK
  <2>2. job' \in [Changes -> Job] /\ \A d \in Changes : job'[d] = IF d = c THEN NoJob ELSE job[d]
    BY <1>5, NewJobType DEF ApplyDone, TypeInv, TypeOK
  <2>3. AttemptsLeft'
    BY <2>2 DEF TypeInv, AttemptsLeft, Open, InState, NoJob
  <2> QED BY <1>5, <2>1, <2>2, <2>3 DEF ApplyDone, TypeInv, TypeOK
<1>6. ASSUME NEW n \in 0 .. MaxAttempts, Fail(c, n)
      PROVE  order' \in Seq(Changes) /\ job' \in [Changes -> Job] /\ dropped' \subseteq Changes
             /\ AttemptsLeft'
  <2>1. /\ order' \in Seq(Changes) /\ job' \in [Changes -> Job] /\ dropped' \subseteq Changes
        /\ \A d \in Changes : job'[d].state \in {"pending", "measuring"} => job'[d] = job[d]
    BY <1>1, <1>6, FailType
  <2> QED BY <2>1 DEF TypeInv, AttemptsLeft, Open, InState
<1>7. ASSUME NEW j \in Job, job' = [job EXCEPT ![c] = j], j.attempts < MaxAttempts,
             UNCHANGED <<order, dropped>>
      PROVE  order' \in Seq(Changes) /\ job' \in [Changes -> Job] /\ dropped' \subseteq Changes
             /\ AttemptsLeft'
  BY <1>1, <1>7 DEF TypeInv, TypeOK, AttemptsLeft, Open, InState
<1>8. CASE ApplyRetry(c)
  <2>1. CASE Exhausted(job[c].attempts + 1)
    BY <1>3, <1>6, <1>8, <2>1 DEF ApplyRetry
  <2>2. CASE ~Exhausted(job[c].attempts + 1)
    <3> DEFINE j == [state |-> "pending", attempts |-> job[c].attempts + 1, delayed |-> TRUE]
    <3>1. j \in Job /\ j.attempts < MaxAttempts
      BY <1>2, <1>3, <2>2, ConstantsAssumption DEF Job, Exhausted
    <3>2. job' = [job EXCEPT ![c] = j] /\ UNCHANGED <<order, dropped>>
      BY <1>8, <2>2 DEF ApplyRetry
    <3> HIDE DEF j
    <3> QED BY <1>7, <3>1, <3>2
  <2> QED BY <2>1, <2>2
<1>9. CASE ApplyWait(c)
  <2> DEFINE j == [job[c] EXCEPT !.state = "pending", !.delayed = FALSE]
  <2>1. j \in Job /\ j.attempts < MaxAttempts
    BY <1>2 DEF Job
  <2>2. job' = [job EXCEPT ![c] = j] /\ UNCHANGED <<order, dropped>>
    BY <1>1, <1>9 DEF ApplyWait, TypeInv, TypeOK
  <2> HIDE DEF j
  <2> QED BY <1>7, <2>1, <2>2
<1> QED BY <1>3, <1>4, <1>5, <1>6, <1>8, <1>9

LEMMA ApplyType ==
  ASSUME TypeInv, NEW w \in Workers, Apply(w)
  PROVE  TypeInv'
<1>1. worker[w].change \in Changes /\ wlock = w
  BY WorkerChange DEF Apply, Active
<1> DEFINE rest == [Off EXCEPT !.pc = "idle", !.retry = worker[w].retry]
<1>2. rest \in WorkerState /\ rest.pc = "idle" /\ rest.change = None
  BY DEF Off, NoResult, Result, WorkerState, TypeInv, TypeOK
<1>3. worker' = [worker EXCEPT ![w] = rest]
  BY DEF Apply
<1> HIDE DEF rest
<1>4. worker' \in [Workers -> WorkerState] /\ WorkersBusy'
  BY <1>2, <1>3 DEF TypeInv, TypeOK, WorkersBusy, Active
<1>5. WorkerOwnsItsJob'
  BY <1>1, <1>2, <1>3 DEF TypeInv, TypeOK, WorkerOwnsItsJob
<1>6. measured' \subseteq Changes /\ skipped' \subseteq Changes
  BY <1>1 DEF Apply, TypeInv, TypeOK, queueVars
<1>7. HooksBusy'
  BY DEF Apply, TypeInv, HooksBusy
<1> QED BY <1>4, <1>5, <1>6, <1>7, OutcomeType
        DEF TypeInv, TypeOK, Apply, keptVars, history

LEMMA RunEndsType ==
  ASSUME TypeInv, NEW w \in Workers, RunEnds(w)
  PROVE  TypeInv'
<1>1. Off \in WorkerState /\ Off.pc = "off" /\ Off.change = None
  BY DEF Off, NoResult, Result, WorkerState
<1>2. worker' = [worker EXCEPT ![w] = Off]
  BY DEF RunEnds
<1>3. worker' \in [Workers -> WorkerState] /\ WorkersBusy'
  BY <1>1, <1>2 DEF TypeInv, TypeOK, WorkersBusy, Active
<1>4. WorkerOwnsItsJob'
  BY <1>1, <1>2 DEF TypeInv, TypeOK, WorkerOwnsItsJob, RunEnds, queueVars
<1>5. HooksBusy' /\ AttemptsLeft'
  BY DEF RunEnds, TypeInv, HooksBusy, AttemptsLeft, Open, InState, queueVars
<1> QED BY <1>3, <1>4, <1>5 DEF TypeInv, TypeOK, RunEnds, queueVars, keptVars, history

LEMMA BackoffExpiresType ==
  ASSUME TypeInv, NEW c \in Changes, BackoffExpires(c)
  PROVE  TypeInv'
<1> DEFINE j == [job[c] EXCEPT !.delayed = FALSE]
<1>1. job[c] \in Job
  BY DEF TypeInv, TypeOK
<1>2. j \in Job /\ j.state = job[c].state /\ j.attempts = job[c].attempts
  BY <1>1 DEF Job
<1>3. job' = [job EXCEPT ![c] = j]
  BY DEF BackoffExpires, TypeInv, TypeOK
<1> HIDE DEF j
<1>4. job' \in [Changes -> Job] /\ \A d \in Changes : job'[d] = IF d = c THEN j ELSE job[d]
  BY <1>2, <1>3 DEF TypeInv, TypeOK
<1>5. AttemptsLeft' /\ WorkerOwnsItsJob'
  BY <1>2, <1>4 DEF TypeInv, TypeOK, AttemptsLeft, Open, InState, WorkerOwnsItsJob,
                    WorkerState, BackoffExpires
<1>6. WorkersBusy' /\ HooksBusy'
  BY DEF BackoffExpires, TypeInv, WorkersBusy, HooksBusy
<1> QED BY <1>4, <1>5, <1>6 DEF TypeInv, TypeOK, BackoffExpires, keptVars, history

\* Steps outside the module's variables.
LEMMA StutterType == TypeInv /\ UNCHANGED vars => TypeInv'
BY JobsAlone DEF TypeInv, TypeOK, HooksBusy, vars, queueVars, keptVars, history

LEMMA InitType == Init => TypeInv
<1> SUFFICES ASSUME Init PROVE TypeInv
  OBVIOUS
<1>1. Off \in WorkerState /\ Off.pc = "off" /\ Off.change = None
  BY DEF Off, NoResult, Result, WorkerState
<1>2. Idle \in HookState /\ Idle.pc = "idle"
  BY DEF Idle, HookState
<1>3. TypeOK
  BY <1>1, <1>2, NewJobType DEF Init, TypeOK
<1>4. WorkersBusy /\ HooksBusy /\ WorkerOwnsItsJob
  BY <1>1, <1>2 DEF Init, WorkersBusy, HooksBusy, WorkerOwnsItsJob, Active
<1>5. AttemptsLeft
  BY DEF Init, AttemptsLeft, Open, InState, NoJob
<1> QED BY <1>3, <1>4, <1>5 DEF TypeInv

LEMMA NextType == TypeInv /\ [Next]_vars => TypeInv'
<1> SUFFICES ASSUME TypeInv, [Next]_vars PROVE TypeInv'
  OBVIOUS
<1>1. CASE Enable \/ Disable \/ Reset
  BY <1>1, EnableType, DisableType, ResetType
<1>2. CASE \E h \in Hooks : HookStep(h)
  BY <1>2, StopType, ManualAssuranceType, ReadConfigType, EnqueueType, NotKeptType,
     KeepForJobType, KeepAndAdmitType, KeepInterruptedType, SettleType, NotSettledType,
     HookEndsType DEF HookStep
<1>3. CASE \E w \in Workers : WorkerStep(w)
  BY <1>3, RunStartType, TakeType, ReadKeptType, CoreFailsType, CoreMeasuresType,
     CorrelateFailsType, CorrelateType, QueueReceiptType, ApplyType, RunEndsType
     DEF WorkerStep
<1>4. CASE \E c \in Changes : BackoffExpires(c)
  BY <1>4, BackoffExpiresType
<1>5. CASE UNCHANGED vars
  BY <1>5, StutterType
<1> QED BY <1>1, <1>2, <1>3, <1>4, <1>5 DEF Next

-----------------------------------------------------------------------------
(* The theorems *)

\* Every reachable state has its types, its workers hold what they work on, and
\* open jobs have an attempt left: the inductive invariant of the queue.
THEOREM TypeInvariant == Spec => []TypeInv
BY InitType, NextType, PTL DEF Spec

\* The shape of every variable, for every number of changes, workers and hooks.
THEOREM TypeCorrect == Spec => []TypeOK
<1>1. TypeInv => TypeOK
  BY DEF TypeInv
<1> QED BY <1>1, TypeInvariant, PTL

\* While a worker is on a change, no hook, command or other worker settles,
\* requeues or drops its job, although Core runs outside the queue lock
\* (processNextJob, settleJob, keepNativeMeasurement of src/src/auto-debt.mjs).
THEOREM WorkerOwnership == Spec => []WorkerOwnsItsJob
<1>1. TypeInv => WorkerOwnsItsJob
  BY DEF TypeInv
<1> QED BY <1>1, TypeInvariant, PTL

\* No open job has used all its attempts (processNextJob's attempt counting).
THEOREM AttemptsBounded == Spec => []AttemptsLeft
<1>1. TypeInv => AttemptsLeft
  BY DEF TypeInv
<1> QED BY <1>1, TypeInvariant, PTL

-----------------------------------------------------------------------------
(* What a step does to the records of one change *)

Same(c) == /\ c \in Listed' <=> c \in Listed
           /\ c \in measured' <=> c \in measured
           /\ c \in skipped' <=> c \in skipped
           /\ c \in dropped' <=> c \in dropped

Admitted(c) == /\ c \notin Listed /\ c \notin measured
               /\ c \in Listed' /\ c \notin measured'
               /\ c \notin skipped' /\ c \notin dropped'

NotQueued(c) == /\ c \notin Listed /\ c \notin measured
                /\ c \notin Listed' /\ c \notin measured' /\ c \in skipped'
                /\ c \in dropped' <=> c \in dropped

Settled(c) == /\ c \in measured' /\ c \notin Listed'
              /\ c \notin skipped' /\ c \notin dropped'

\* The worker recorded the measurement; its job is over or still listed.
Recorded(c) == /\ c \in Listed /\ c \in measured'
               /\ c \in skipped' <=> c \in skipped
               /\ c \in dropped' <=> c \in dropped

LeftTheList(c) == /\ c \in Listed /\ c \notin Listed' /\ c \in dropped'
                  /\ c \in measured' <=> c \in measured
                  /\ c \in skipped' <=> c \in skipped

ChangeStep(c) == \/ Same(c) \/ Admitted(c) \/ NotQueued(c)
                 \/ Settled(c) \/ Recorded(c) \/ LeftTheList(c)

\* Every change takes one of these steps, and a change newly presented is recorded.
RecordsStep ==
  /\ \A c \in Changes : ChangeStep(c)
  /\ presented' \subseteq presented \cup Listed' \cup measured' \cup skipped'

\* A change whose job has a state is listed.
LEMMA ListedState ==
  ASSUME TypeOK
  PROVE  \A c \in Changes : c \in Listed <=> job[c].state # "none"
BY DEF TypeOK, Job, Listed, InState

\* Steps that leave the records alone.
LEMMA RecordsAlone ==
  ASSUME UNCHANGED <<job, measured, skipped, dropped, presented>>
  PROVE  RecordsStep
BY DEF RecordsStep, ChangeStep, Same, Listed, InState

LEMMA AdmitRecords ==
  ASSUME TypeInv, NEW c \in Changes, Admit(c), UNCHANGED measured
  PROVE  RecordsStep
<1>1. CASE AlreadyKnown(c)
  BY <1>1 DEF Admit, AlreadyKnown, RecordsStep, ChangeStep, Same, Listed, InState
<1>2. CASE ~AlreadyKnown(c) /\ ~HasRoom
  BY <1>2 DEF Admit, AlreadyKnown, RecordSkipped, RecordsStep, ChangeStep, Same, NotQueued,
              Listed, InState
<1>3. CASE ~AlreadyKnown(c) /\ HasRoom
  <2>1. /\ job' = [job EXCEPT ![c] = NewJob]
        /\ skipped' = skipped \ {c} /\ dropped' = dropped \ {c}
        /\ presented' = presented \cup {c}
    BY <1>3 DEF Admit, Resolve
  <2>2. \A d \in Changes : job'[d] = IF d = c THEN NewJob ELSE job[d]
    BY <2>1 DEF TypeInv, TypeOK
  <2>3. \A d \in Changes : d \in Listed' <=> d = c \/ d \in Listed
    BY <2>2 DEF Listed, InState, NewJob
  <2>4. Admitted(c)
    BY <1>3, <2>1, <2>3 DEF Admitted, AlreadyKnown
  <2>5. \A d \in Changes : d # c => Same(d)
    BY <2>1, <2>3 DEF Same
  <2> QED BY <2>1, <2>3, <2>4, <2>5 DEF RecordsStep, ChangeStep
<1> QED BY <1>1, <1>2, <1>3

LEMMA EnqueueRecords ==
  ASSUME TypeInv, NEW h \in Hooks, Enqueue(h)
  PROVE  RecordsStep
BY HookChange, AdmitRecords DEF Enqueue

LEMMA KeepForJobRecords ==
  ASSUME TypeInv, NEW h \in Hooks, KeepForJob(h)
  PROVE  RecordsStep
<1> DEFINE c == hook[h].change
<1>1. c \in Changes /\ c \in Listed
  BY HookChange DEF KeepForJob
<1>2. UNCHANGED <<measured, skipped, dropped, presented>>
      /\ (job' = job \/ job' = [job EXCEPT ![c] = NewJob])
  BY DEF KeepForJob, history
<1> HIDE DEF c
<1>3. \A d \in Changes : d \in Listed' <=> d \in Listed
  BY <1>1, <1>2 DEF TypeInv, TypeOK, Listed, InState, NewJob
<1> QED BY <1>2, <1>3 DEF RecordsStep, ChangeStep, Same

LEMMA KeepAndAdmitRecords ==
  ASSUME TypeInv, NEW h \in Hooks, KeepAndAdmit(h)
  PROVE  RecordsStep
BY HookChange, AdmitRecords DEF KeepAndAdmit

LEMMA SettleRecords ==
  ASSUME TypeInv, NEW h \in Hooks, Settle(h)
  PROVE  RecordsStep
<1> DEFINE c == hook[h].change
<1>1. c \in Changes
  BY HookChange DEF Settle
<1>2. CASE LeftToWorker(c)
  BY <1>2, RecordsAlone DEF Settle, queueVars
<1>3. CASE ~LeftToWorker(c)
  <2>1. /\ job' = [job EXCEPT ![c] = NoJob]
        /\ measured' = measured \cup {c}
        /\ skipped' = skipped \ {c} /\ dropped' = dropped \ {c}
        /\ UNCHANGED presented
    BY <1>3 DEF Settle, Resolve
  <2> HIDE DEF c
  <2>2. \A d \in Changes : d \in Listed' <=> d # c /\ d \in Listed
    BY <1>1, <2>1 DEF TypeInv, TypeOK, Listed, InState, NoJob
  <2>3. Settled(c)
    BY <1>1, <2>1, <2>2 DEF Settled
  <2>4. \A d \in Changes : d # c => Same(d)
    BY <2>1, <2>2 DEF Same
  <2> QED BY <2>1, <2>3, <2>4 DEF RecordsStep, ChangeStep
<1> QED BY <1>2, <1>3

\* Taking a job recovers the interrupted one and lists no other.
LEMMA TakeListed ==
  ASSUME TypeInv, NEW w \in Workers, NEW c \in Changes, Take(w, c)
  PROVE  \A d \in Changes : d \in Listed' <=> d \in Listed
<1>1. \A d \in Changes : Recovered[d].state = "none" <=> job[d].state = "none"
  BY DEF Recovered, TypeInv, TypeOK, Job
<1>2. \A d \in Changes : job'[d] = IF d = c
        THEN [state |-> "measuring", delayed |-> FALSE, attempts |-> AttemptsAtTake(c)]
        ELSE Recovered[d]
  BY DEF Take, Recovered
<1>3. job[c].state # "none"
  BY <1>1 DEF Take, IsFirst, Due, Failed, InState
<1>4. \A d \in Changes : job'[d].state = "none" <=> job[d].state = "none"
  BY <1>1, <1>2, <1>3
<1>5. TypeOK'
  BY TakeType DEF TypeInv
<1>6. \A d \in Changes : d \in Listed <=> job[d].state # "none"
  BY ListedState DEF TypeInv
<1>7. \A d \in Changes : d \in Listed' <=> job'[d].state # "none"
  BY <1>5 DEF TypeOK, Job, Listed, InState
<1> QED BY <1>4, <1>6, <1>7

LEMMA TakeRecords ==
  ASSUME TypeInv, NEW w \in Workers, NEW c \in Changes, Take(w, c)
  PROVE  RecordsStep
BY TakeListed DEF Take, history, RecordsStep, ChangeStep, Same

LEMMA ApplyRecords ==
  ASSUME TypeInv, NEW w \in Workers, Apply(w)
  PROVE  RecordsStep
<1> DEFINE c == worker[w].change
           result == worker[w].result
<1>1. c \in Changes /\ job[c].state = "measuring" /\ c \in Listed
  BY WorkerChange DEF Apply, Active, Listed, InState
<1>2. /\ \/ result.state = "done" /\ ApplyDone(c)
         \/ Fail(c, job[c].attempts + 1)
         \/ ApplyRetry(c)
         \/ ApplyWait(c)
      /\ measured' = IF result.taken \/ result.state = "done"
                     THEN measured \cup {c} ELSE measured
      /\ UNCHANGED <<skipped, presented>>
  BY <1>1 DEF Apply, history
<1> HIDE DEF c, result
<1>3. CASE result.state = "done" /\ ApplyDone(c)
  <2>1. \A d \in Changes : d # c => (d \in Listed' <=> d \in Listed)
    BY <1>3 DEF ApplyDone, TypeInv, TypeOK, Listed, InState
  <2>2. Recorded(c)
    BY <1>1, <1>2, <1>3 DEF Recorded, ApplyDone
  <2>3. \A d \in Changes : d # c => Same(d)
    BY <1>2, <1>3, <2>1 DEF Same, ApplyDone
  <2> QED BY <1>2, <2>2, <2>3 DEF RecordsStep, ChangeStep
<1>4. ASSUME NEW j, job' = [job EXCEPT ![c] = j], j.state \in {"pending", "failed"},
             UNCHANGED dropped
      PROVE  RecordsStep
  <2>1. \A d \in Changes : d \in Listed' <=> d \in Listed
    BY <1>1, <1>4 DEF TypeInv, TypeOK, Listed, InState
  <2>2. Recorded(c) \/ Same(c)
    BY <1>1, <1>2, <1>4, <2>1 DEF Recorded, Same
  <2>3. \A d \in Changes : d # c => Same(d)
    BY <1>2, <1>4, <2>1 DEF Same
  <2> QED BY <1>2, <2>2, <2>3 DEF RecordsStep, ChangeStep
<1>5. ASSUME NEW n, Fail(c, n)
      PROVE  RecordsStep
  <2> DEFINE failedJob == [state |-> "failed", attempts |-> n, delayed |-> FALSE]
  <2>1. failedJob.state = "failed"
    OBVIOUS
  <2>2. CASE ~FailedFull(c)
    <3>1. job' = [job EXCEPT ![c] = failedJob] /\ UNCHANGED dropped
      BY <1>5, <2>2 DEF Fail
    <3> HIDE DEF failedJob
    <3> QED BY <1>4, <2>1, <3>1
  <2>3. CASE FailedFull(c)
    <3>1. PICK old \in Failed \ {c} :
            /\ job' = [job EXCEPT ![c] = failedJob, ![old] = NoJob]
            /\ dropped' = dropped \cup {old}
      BY <1>5, <2>3 DEF Fail, RecordDropped
    <3> HIDE DEF failedJob
    <3>2. old \in Changes /\ old # c /\ old \in Listed
      BY <3>1 DEF Failed, Listed, InState
    <3>3. \A d \in Changes : d \in Listed' <=> d # old /\ d \in Listed
      BY <1>1, <2>1, <3>1, <3>2 DEF TypeInv, TypeOK, Listed, InState, NoJob
    <3>4. LeftTheList(old)
      BY <1>2, <3>1, <3>2, <3>3 DEF LeftTheList
    <3>5. Recorded(c) \/ Same(c)
      BY <1>1, <1>2, <3>1, <3>2, <3>3 DEF Recorded, Same
    <3>6. \A d \in Changes : d # c /\ d # old => Same(d)
      BY <1>2, <3>1, <3>3 DEF Same
    <3> QED BY <1>2, <3>4, <3>5, <3>6 DEF RecordsStep, ChangeStep
  <2> QED BY <2>2, <2>3
<1>6. CASE ApplyRetry(c)
  <2>1. CASE Exhausted(job[c].attempts + 1)
    BY <1>5, <1>6, <2>1 DEF ApplyRetry
  <2>2. CASE ~Exhausted(job[c].attempts + 1)
    <3> DEFINE j == [state |-> "pending", attempts |-> job[c].attempts + 1, delayed |-> TRUE]
    <3>1. job' = [job EXCEPT ![c] = j] /\ UNCHANGED dropped /\ j.state = "pending"
      BY <1>6, <2>2 DEF ApplyRetry
    <3> HIDE DEF j
    <3> QED BY <1>4, <3>1
  <2> QED BY <2>1, <2>2
<1>7. CASE ApplyWait(c)
  <2> DEFINE j == [job[c] EXCEPT !.state = "pending", !.delayed = FALSE]
  <2>1. job' = [job EXCEPT ![c] = j] /\ UNCHANGED dropped
    BY <1>1, <1>7 DEF ApplyWait, TypeInv, TypeOK
  <2>2. j.state = "pending"
    BY <1>1 DEF TypeInv, TypeOK, Job
  <2> HIDE DEF j
  <2> QED BY <1>4, <2>1, <2>2
<1> QED BY <1>2, <1>3, <1>5, <1>6, <1>7

LEMMA BackoffExpiresRecords ==
  ASSUME TypeInv, NEW c \in Changes, BackoffExpires(c)
  PROVE  RecordsStep
<1> DEFINE j == [job[c] EXCEPT !.delayed = FALSE]
<1>1. job' = [job EXCEPT ![c] = j] /\ j.state = job[c].state
  BY DEF BackoffExpires, TypeInv, TypeOK, Job
<1> HIDE DEF j
<1>2. \A d \in Changes : d \in Listed' <=> d \in Listed
  BY <1>1 DEF TypeInv, TypeOK, Listed, InState
<1> QED BY <1>2 DEF BackoffExpires, history, RecordsStep, ChangeStep, Same

\* Whatever step is taken, but a reset, each change's records move as above.
LEMMA NextRecords ==
  ASSUME TypeInv, [Next]_vars
  PROVE  RecordsStep \/ Reset
<1>1. CASE Enable \/ Disable
  BY <1>1, RecordsAlone DEF Enable, Disable, queueVars, history
<1>2. ASSUME NEW h \in Hooks, HookStep(h) PROVE RecordsStep
  <2>1. ASSUME NEW c \in Changes, NEW accepted \in BOOLEAN, NEW envelope \in BOOLEAN,
               Stop(h, c, accepted, envelope)
        PROVE  RecordsStep
    BY <2>1, RecordsAlone DEF Stop, queueVars, history
  <2>2. ASSUME NEW c \in Changes, ManualAssurance(h, c) PROVE RecordsStep
    BY <2>2, RecordsAlone DEF ManualAssurance, queueVars, history
  <2>3. CASE ReadConfig(h) \/ NotKept(h) \/ KeepInterrupted(h) \/ NotSettled(h) \/ HookEnds(h)
    BY <2>3, RecordsAlone
       DEF ReadConfig, NotKept, KeepInterrupted, NotSettled, HookEnds, queueVars, history
  <2> QED BY <1>2, <2>1, <2>2, <2>3, EnqueueRecords, KeepForJobRecords,
             KeepAndAdmitRecords, SettleRecords DEF HookStep
<1>3. ASSUME NEW w \in Workers, WorkerStep(w) PROVE RecordsStep
  <2>1. ASSUME NEW retryFailed \in BOOLEAN, RunStart(w, retryFailed) PROVE RecordsStep
    BY <2>1, RecordsAlone DEF RunStart, queueVars, history
  <2>2. CASE \/ ReadKept(w) \/ CoreFails(w) \/ CoreMeasures(w) \/ CorrelateFails(w)
             \/ Correlate(w) \/ QueueReceipt(w) \/ RunEnds(w)
    BY <2>2, RecordsAlone
       DEF ReadKept, CoreFails, CoreMeasures, CorrelateFails, Correlate, QueueReceipt,
           RunEnds, queueVars, history
  <2> QED BY <1>3, <2>1, <2>2, TakeRecords, ApplyRecords DEF WorkerStep
<1>4. CASE \E c \in Changes : BackoffExpires(c)
  BY <1>4, BackoffExpiresRecords
<1>5. CASE UNCHANGED vars
  BY <1>5, RecordsAlone DEF vars, queueVars, history
<1> QED BY <1>1, <1>2, <1>3, <1>4, <1>5 DEF Next

\* Nothing listed, measured or recorded after a reset.
LEMMA ResetRecords ==
  ASSUME Reset
  PROVE  Listed' = {} /\ measured' = {} /\ skipped' = {} /\ dropped' = {} /\ presented' = {}
BY DEF Reset, Listed, InState, NoJob

RecordsInv == NothingLost /\ NoStaleRecord

LEMMA NextRecordsInv ==
  ASSUME TypeInv, RecordsInv, [Next]_vars
  PROVE  RecordsInv'
<1>1. CASE Reset
  BY <1>1, ResetRecords DEF RecordsInv, NothingLost, NoStaleRecord
<1>2. CASE RecordsStep
  <2>1. NoStaleRecord'
    <3>1. Listed' \subseteq Changes /\ measured' \subseteq Changes
      BY NextType DEF TypeInv, TypeOK, Listed, InState
    <3>2. ASSUME NEW c \in Changes
          PROVE  /\ c \in skipped' => c \notin Listed' /\ c \notin measured'
                 /\ c \in dropped' => c \notin Listed'
      <4>1. ChangeStep(c)
        BY <1>2 DEF RecordsStep
      <4>2. /\ c \in skipped => c \notin Listed /\ c \notin measured
            /\ c \in dropped => c \notin Listed
        BY DEF RecordsInv, NoStaleRecord
      <4> QED BY <4>1, <4>2
              DEF ChangeStep, Same, Admitted, NotQueued, Settled, Recorded, LeftTheList
    <3> QED BY <3>1, <3>2 DEF NoStaleRecord
  <2>2. NothingLost'
    <3> SUFFICES ASSUME NEW c \in presented'
                 PROVE  c \in Listed' \cup measured' \cup skipped' \cup dropped'
      BY DEF NothingLost
    <3>1. c \in Changes
      BY NextType DEF TypeInv, TypeOK
    <3>2. ChangeStep(c) /\ (c \in presented \/ c \in Listed' \cup measured' \cup skipped')
      BY <1>2, <3>1 DEF RecordsStep
    <3>3. c \in presented => c \in Listed \cup measured \cup skipped \cup dropped
      BY DEF RecordsInv, NothingLost
    <3> QED BY <3>2, <3>3
            DEF ChangeStep, Same, Admitted, NotQueued, Settled, Recorded, LeftTheList
  <2> QED BY <2>1, <2>2 DEF RecordsInv
<1> QED BY <1>1, <1>2, NextRecords

LEMMA RecordsInvariant == Spec => []RecordsInv
<1>1. Init => RecordsInv
  BY DEF Init, RecordsInv, NothingLost, NoStaleRecord, Listed, InState, NoJob
<1>2. TypeInv /\ RecordsInv /\ [Next]_vars => RecordsInv'
  BY NextRecordsInv
<1> QED BY <1>1, <1>2, TypeInvariant, PTL DEF Spec

\* No change presented while automatic debt is enabled is ever forgotten, through
\* full queues, failures that leave the list, crashes and manual assurances
\* (admitJob, boundFailed, settleJob, processNextJob).
THEOREM NothingIsLost == Spec => []NothingLost
<1>1. RecordsInv => NothingLost
  BY DEF RecordsInv
<1> QED BY <1>1, RecordsInvariant, PTL

\* The two records of unmeasured changes never name one that has a job or a
\* measurement (resolveSkipped, resolveFailedDropped at every place that needs them).
THEOREM RecordsAreCurrent == Spec => []NoStaleRecord
<1>1. RecordsInv => NoStaleRecord
  BY DEF RecordsInv
<1> QED BY <1>1, RecordsInvariant, PTL

-----------------------------------------------------------------------------
(* The queue implements the ledger *)

LEMMA StepAdvances ==
  ASSUME TypeInv, RecordsInv, RecordsStep
  PROVE  Ledger!Advance
<1>1. Standing' \in [Changes -> Ledger!Status]
  BY DEF Standing, Ledger!Status
<1>2. ASSUME NEW c \in Changes
      PROVE  Standing'[c] \in Ledger!Successors[Standing[c]]
  <2>1. ChangeStep(c)
    BY DEF RecordsStep
  <2>2. c \in skipped => c \notin Listed /\ c \notin measured
    BY DEF RecordsInv, NoStaleRecord
  <2>3. Standing[c] = IF c \in measured THEN "measured"
                      ELSE IF c \in skipped THEN "skipped"
                      ELSE IF c \in Listed THEN "queued"
                      ELSE IF c \in dropped THEN "unlisted"
                      ELSE "unseen"
    BY DEF Standing
  <2>4. Standing'[c] = IF c \in measured' THEN "measured"
                       ELSE IF c \in skipped' THEN "skipped"
                       ELSE IF c \in Listed' THEN "queued"
                       ELSE IF c \in dropped' THEN "unlisted"
                       ELSE "unseen"
    BY DEF Standing
  <2>5. /\ Ledger!Successors["unseen"] = {"unseen", "queued", "skipped", "measured"}
        /\ Ledger!Successors["queued"] = {"queued", "unlisted", "measured"}
        /\ Ledger!Successors["unlisted"] = {"unlisted", "queued", "skipped", "measured"}
        /\ Ledger!Successors["skipped"] = {"skipped", "queued", "measured"}
        /\ Ledger!Successors["measured"] = {"measured"}
    BY DEF Ledger!Successors
  <2>6. CASE Same(c)
    BY <2>3, <2>4, <2>5, <2>6 DEF Same
  <2>7. CASE Admitted(c)
    BY <2>3, <2>4, <2>5, <2>7 DEF Admitted
  <2>8. CASE NotQueued(c)
    BY <2>3, <2>4, <2>5, <2>8 DEF NotQueued
  <2>9. CASE Settled(c)
    BY <2>3, <2>4, <2>5, <2>9 DEF Settled
  <2>10. CASE Recorded(c)
    BY <2>3, <2>4, <2>5, <2>10 DEF Recorded
  <2>11. CASE LeftTheList(c)
    BY <2>2, <2>3, <2>4, <2>5, <2>11 DEF LeftTheList
  <2> QED BY <2>1, <2>6, <2>7, <2>8, <2>9, <2>10, <2>11 DEF ChangeStep
<1> QED BY <1>1, <1>2 DEF Ledger!Advance

\* Every step of the hooks, workers and commands moves each change forward in the
\* ledger, or is a reset: a measured change stays measured, a queued one is never
\* silently unseen again (ChangeLedger).
THEOREM ImplementsChangeLedger == Spec => ImplementsLedger
<1>1. Init => Ledger!Init
  BY DEF Init, Ledger!Init, Ledger!Fresh, Standing, Listed, InState, NoJob
<1>2. ASSUME TypeInv, RecordsInv, [Next]_vars
      PROVE  [Ledger!Advance \/ Ledger!Forget]_Standing
  <2>1. CASE Reset
    <3>1. Standing' = Ledger!Fresh
      BY <2>1, ResetRecords DEF Standing, Ledger!Fresh
    <3> QED BY <3>1 DEF Ledger!Forget
  <2>2. CASE RecordsStep
    BY <1>2, <2>2, StepAdvances
  <2> QED BY <1>2, <2>1, <2>2, NextRecords
<1> QED BY <1>1, <1>2, TypeInvariant, RecordsInvariant, PTL
        DEF Spec, ImplementsLedger, Ledger!Spec

-----------------------------------------------------------------------------
(* The list of jobs *)

Distinct(s) == \A i, k \in DOMAIN s : s[i] = s[k] => i = k

LEMMA RemoveAtElements ==
  ASSUME NEW S, NEW s \in Seq(S), NEW i \in 1 .. Len(s)
  PROVE  /\ Len(RemoveAt(s, i)) = Len(s) - 1
         /\ \A k \in 1 .. (Len(s) - 1) :
              RemoveAt(s, i)[k] = IF k < i THEN s[k] ELSE s[k + 1]
<1> DEFINE front == SubSeq(s, 1, i - 1)
           back == SubSeq(s, i + 1, Len(s))
<1>1. Len(s) \in Nat /\ \A k \in 1 .. Len(s) : s[k] \in S
  BY ElementOfSeq
<1>2. /\ front \in Seq(S) /\ Len(front) = i - 1
      /\ \A k \in 1 .. (i - 1) : front[k] = s[k]
  BY <1>1, SubSeqProperties
<1>3. /\ back \in Seq(S) /\ Len(back) = Len(s) - i
      /\ \A k \in 1 .. (Len(s) - i) : back[k] = s[k + i]
  BY <1>1, SubSeqProperties
<1> HIDE DEF front, back
<1>4. /\ Len(front \o back) = Len(s) - 1
      /\ \A k \in 1 .. (Len(s) - 1) :
           (front \o back)[k] = IF k < i THEN s[k] ELSE s[k + 1]
  <2>1. Len(front \o back) = (i - 1) + (Len(s) - i)
    <3>1. Len(front \o back) = Len(front) + Len(back)
      BY <1>2, <1>3, ConcatProperties
    <3> QED BY <1>2, <1>3, <3>1
  <2>2. \A k \in 1 .. ((i - 1) + (Len(s) - i)) :
          (front \o back)[k] = IF k <= i - 1 THEN front[k] ELSE back[k - (i - 1)]
    BY <1>2, <1>3, ConcatProperties
  <2>3. (i - 1) + (Len(s) - i) = Len(s) - 1
    BY <1>1
  <2>4. ASSUME NEW k \in 1 .. (Len(s) - 1)
        PROVE  (front \o back)[k] = IF k < i THEN s[k] ELSE s[k + 1]
    <3>1. CASE k < i
      BY <1>1, <1>2, <2>2, <2>3, <3>1
    <3>2. CASE ~(k < i)
      <4>1. k - (i - 1) \in 1 .. (Len(s) - i) /\ ~(k <= i - 1) /\ (k - (i - 1)) + i = k + 1
        BY <1>1, <3>2
      <4>2. (front \o back)[k] = back[k - (i - 1)]
        BY <2>2, <2>3, <4>1
      <4> QED BY <1>3, <3>2, <4>1, <4>2
    <3> QED BY <3>1, <3>2
  <2> QED BY <2>1, <2>3, <2>4
<1> QED BY <1>4 DEF RemoveAt, front, back

\* Taking the job of c out of a list without repetition takes c, and only c, out.
LEMMA WithoutElements ==
  ASSUME NEW s \in Seq(Changes), NEW c, Distinct(s)
  PROVE  Distinct(Without(s, c)) /\ Range(Without(s, c)) = Range(s) \ {c}
<1>1. CASE c \notin Range(s)
  BY <1>1 DEF Without
<1>2. CASE c \in Range(s)
  <2>1. PICK i \in DOMAIN s : s[i] = c /\ Without(s, c) = RemoveAt(s, i)
    BY <1>2 DEF Without, Range
  <2> DEFINE t == RemoveAt(s, i)
  <2>2. i \in 1 .. Len(s) /\ Len(s) \in Nat
    BY <2>1
  <2>3. /\ t \in Seq(Changes) /\ Len(t) = Len(s) - 1
        /\ \A k \in 1 .. (Len(s) - 1) : t[k] = IF k < i THEN s[k] ELSE s[k + 1]
    BY <2>2, RemoveAtType, RemoveAtElements
  <2>4. DOMAIN s = 1 .. Len(s)
    OBVIOUS
  <2> HIDE DEF t
  <2>5. DOMAIN t = 1 .. (Len(s) - 1)
    BY <2>3
  <2>6. Distinct(t)
    BY <2>2, <2>3, <2>4, <2>5 DEF Distinct
  <2>7. \A k \in DOMAIN t : t[k] \in Range(s) \ {c}
    BY <2>1, <2>2, <2>3, <2>4, <2>5 DEF Distinct, Range
  <2>8. ASSUME NEW k \in DOMAIN s, s[k] # c PROVE \E m \in DOMAIN t : t[m] = s[k]
    <3>1. CASE k < i
      BY <2>2, <2>3, <2>4, <2>5, <3>1
    <3>2. CASE k > i
      <4>1. k - 1 \in DOMAIN t /\ ~(k - 1 < i) /\ (k - 1) + 1 = k
        BY <2>2, <2>4, <2>5, <3>2
      <4> QED BY <2>3, <2>5, <4>1
    <3> QED BY <2>1, <2>2, <2>4, <2>8, <3>1, <3>2
  <2> QED BY <2>1, <2>6, <2>7, <2>8 DEF Range, t
<1> QED BY <1>1, <1>2

\* How a step moves the list: it stays, a change not listed is appended to it
\* while automatic debt is enabled, or one change leaves it.
ListMoves ==
  \/ UNCHANGED order /\ Listed' = Listed
  \/ /\ config = "enabled"
     /\ \E c \in Changes \ Listed : order' = Append(order, c) /\ Listed' = Listed \cup {c}
  \/ \E c \in Changes : order' = Without(order, c) /\ Listed' = Listed \ {c}

\* How it moves the failed jobs: none fails, one fails and there is room for it,
\* or one fails in the place of an older one.
FailedMoves ==
  \/ Failed' \subseteq Failed
  \/ \E c \in Changes : Failed' = Failed \cup {c} /\ Cardinality(Failed) < MaxFailed
  \/ \E c \in Changes, old \in Failed : Failed' = (Failed \ {old}) \cup {c}

ListStep == ListMoves /\ FailedMoves

LEMMA ListMovesKeepOneJob ==
  ASSUME TypeOK, OneJobPerChange, ListMoves
  PROVE  OneJobPerChange'
<1>1. order \in Seq(Changes) /\ Distinct(order) /\ Range(order) = Listed
  BY DEF TypeOK, OneJobPerChange, Distinct
<1>2. CASE UNCHANGED order /\ Listed' = Listed
  BY <1>2 DEF OneJobPerChange
<1>3. ASSUME NEW c \in Changes \ Listed,
             order' = Append(order, c), Listed' = Listed \cup {c}
      PROVE  OneJobPerChange'
  <2> DEFINE s == order
             t == Append(s, c)
  <2>1. Len(s) \in Nat /\ DOMAIN s = 1 .. Len(s)
    BY <1>1
  <2>2. DOMAIN t = 1 .. (Len(s) + 1) /\ t[Len(s) + 1] = c
        /\ \A k \in 1 .. Len(s) : t[k] = s[k]
    BY <1>1, <2>1
  <2>3. s \in Seq(Changes) /\ Distinct(s) /\ Range(s) = Listed /\ c \notin Range(s)
    BY <1>1, <1>3
  <2>4. order' = t
    BY <1>3
  <2> HIDE DEF s, t
  <2>5. \A k \in DOMAIN s : s[k] # c
    BY <2>3 DEF Range
  <2>6. Distinct(t)
    BY <2>1, <2>2, <2>3, <2>5 DEF Distinct
  <2>7. \A k \in DOMAIN t : t[k] \in Range(s) \cup {c}
    <3> SUFFICES ASSUME NEW k \in DOMAIN t PROVE t[k] \in Range(s) \cup {c}
      OBVIOUS
    <3>1. CASE k = Len(s) + 1
      BY <2>2, <3>1
    <3>2. CASE k \in 1 .. Len(s)
      BY <2>1, <2>2, <3>2 DEF Range
    <3> QED BY <2>1, <2>2, <3>1, <3>2
  <2>8. c \in Range(t) /\ \A k \in DOMAIN s : s[k] \in Range(t)
    <3>1. Len(s) + 1 \in DOMAIN t /\ \A k \in DOMAIN s : k \in DOMAIN t
      BY <2>1, <2>2
    <3> QED BY <2>1, <2>2, <3>1 DEF Range
  <2>9. Range(t) = Range(s) \cup {c}
    BY <2>7, <2>8 DEF Range
  <2> QED BY <1>3, <2>3, <2>4, <2>6, <2>9 DEF OneJobPerChange, Distinct
<1>4. ASSUME NEW c \in Changes, order' = Without(order, c), Listed' = Listed \ {c}
      PROVE  OneJobPerChange'
  BY <1>1, <1>4, WithoutElements DEF OneJobPerChange, Distinct
<1> QED BY <1>2, <1>3, <1>4 DEF ListMoves

LEMMA CardinalityGrows ==
  ASSUME NEW S, NEW x, IsFiniteSet(S)
  PROVE  /\ IsFiniteSet(S \cup {x}) /\ Cardinality(S \cup {x}) \in Nat
         /\ Cardinality(S \cup {x}) <= Cardinality(S) + 1
<1>1. IsFiniteSet(S \cup {x})
      /\ Cardinality(S \cup {x}) = IF x \in S THEN Cardinality(S) ELSE Cardinality(S) + 1
  BY FS_AddElement
<1>2. Cardinality(S) \in Nat
  BY FS_CardinalityType
<1> QED BY <1>1, <1>2

LEMMA FailedMovesKeepBound ==
  ASSUME TypeOK, FailedBounded, FailedMoves
  PROVE  FailedBounded'
<1>1. IsFiniteSet(Failed) /\ Cardinality(Failed) \in Nat /\ MaxFailed \in Nat
  BY ConstantsAssumption, FS_Subset, FS_CardinalityType DEF Failed, InState
<1>2. CASE Failed' \subseteq Failed
  <2>1. Cardinality(Failed') <= Cardinality(Failed) /\ Cardinality(Failed') \in Nat
    BY <1>1, <1>2, FS_Subset, FS_CardinalityType
  <2> QED BY <1>1, <2>1 DEF FailedBounded
<1>3. ASSUME NEW c \in Changes, Failed' = Failed \cup {c}, Cardinality(Failed) < MaxFailed
      PROVE  FailedBounded'
  <2>1. Cardinality(Failed') <= Cardinality(Failed) + 1 /\ Cardinality(Failed') \in Nat
    BY <1>1, <1>3, CardinalityGrows
  <2> QED BY <1>1, <1>3, <2>1 DEF FailedBounded
<1>4. ASSUME NEW c \in Changes, NEW old \in Failed, Failed' = (Failed \ {old}) \cup {c}
      PROVE  FailedBounded'
  <2>1. IsFiniteSet(Failed \ {old}) /\ Cardinality(Failed \ {old}) = Cardinality(Failed) - 1
    BY <1>1, FS_RemoveElement
  <2>2. Cardinality(Failed') <= Cardinality(Failed \ {old}) + 1 /\ Cardinality(Failed') \in Nat
    BY <1>4, <2>1, CardinalityGrows
  <2> QED BY <1>1, <2>1, <2>2 DEF FailedBounded
<1> QED BY <1>2, <1>3, <1>4 DEF FailedMoves

\* Listed and failed changes after a step, from the states of the jobs after it.
LEMMA ListedNext ==
  ASSUME TypeOK, TypeOK'
  PROVE  /\ Listed \subseteq Changes /\ Listed' \subseteq Changes
         /\ \A d \in Changes : /\ d \in Listed <=> job[d].state # "none"
                               /\ d \in Listed' <=> job'[d].state # "none"
                               /\ d \in Failed <=> job[d].state = "failed"
                               /\ d \in Failed' <=> job'[d].state = "failed"
         /\ Failed \subseteq Changes /\ Failed' \subseteq Changes
BY DEF TypeOK, Job, Listed, Failed, InState

LEMMA ListAlone ==
  ASSUME UNCHANGED <<order, job>>
  PROVE  ListStep
BY DEF ListStep, ListMoves, FailedMoves, Listed, Failed, InState

\* A step that changes the state of one job to another state of a listed job.
LEMMA ListedStays ==
  ASSUME TypeInv, TypeOK', NEW c \in Changes, c \in Listed, UNCHANGED order,
         job'[c].state \in {"pending", "measuring"},
         \A d \in Changes : d # c => job'[d].state = job[d].state
  PROVE  ListStep
<1>1. Listed' = Listed /\ Failed' \subseteq Failed
  BY ListedNext DEF TypeInv
<1> QED BY <1>1 DEF ListStep, ListMoves, FailedMoves

LEMMA AdmitList ==
  ASSUME TypeInv, TypeOK', NEW c \in Changes, Admit(c), config = "enabled"
  PROVE  ListStep
<1>1. CASE UNCHANGED <<order, job>>
  BY <1>1, ListAlone
<1>2. CASE ~AlreadyKnown(c) /\ HasRoom
  <2>1. c \notin Listed /\ order' = Append(order, c) /\ job' = [job EXCEPT ![c] = NewJob]
    BY <1>2 DEF Admit, AlreadyKnown
  <2>2. \A d \in Changes : job'[d].state = IF d = c THEN "pending" ELSE job[d].state
    BY <2>1 DEF TypeInv, TypeOK, NewJob
  <2>3. Listed' = Listed \cup {c} /\ Failed' \subseteq Failed
    BY <2>2, ListedNext DEF TypeInv
  <2> QED BY <2>1, <2>3 DEF ListStep, ListMoves, FailedMoves
<1> QED BY <1>1, <1>2 DEF Admit

LEMMA KeepForJobList ==
  ASSUME TypeInv, TypeOK', NEW h \in Hooks, KeepForJob(h)
  PROVE  ListStep
<1> DEFINE c == hook[h].change
<1>1. c \in Changes /\ c \in Listed /\ UNCHANGED order
      /\ (job' = job \/ job' = [job EXCEPT ![c] = NewJob])
  BY HookChange DEF KeepForJob
<1> HIDE DEF c
<1>2. CASE job' = job
  BY <1>1, <1>2, ListAlone
<1>3. CASE job' = [job EXCEPT ![c] = NewJob]
  BY <1>1, <1>3, ListedStays DEF NewJob, TypeInv, TypeOK
<1> QED BY <1>1, <1>2, <1>3

LEMMA SettleList ==
  ASSUME TypeInv, TypeOK', NEW h \in Hooks, Settle(h)
  PROVE  ListStep
<1> DEFINE c == hook[h].change
<1>1. c \in Changes
  BY HookChange DEF Settle
<1>2. CASE LeftToWorker(c)
  BY <1>2, ListAlone DEF Settle, queueVars
<1>3. CASE ~LeftToWorker(c)
  <2>1. order' = Without(order, c) /\ job' = [job EXCEPT ![c] = NoJob]
    BY <1>3 DEF Settle
  <2> HIDE DEF c
  <2>2. \A d \in Changes : job'[d].state = IF d = c THEN "none" ELSE job[d].state
    BY <2>1 DEF TypeInv, TypeOK, NoJob
  <2>3. Listed' = Listed \ {c} /\ Failed' \subseteq Failed
    BY <2>2, ListedNext DEF TypeInv
  <2> QED BY <1>1, <2>1, <2>3 DEF ListStep, ListMoves, FailedMoves
<1> QED BY <1>2, <1>3

LEMMA TakeList ==
  ASSUME TypeInv, TypeOK', NEW w \in Workers, NEW c \in Changes, Take(w, c)
  PROVE  ListStep
<1>1. Listed' = Listed
  BY TakeListed, ListedNext DEF TypeInv
<1>2. \A d \in Changes : job'[d] = IF d = c
        THEN [state |-> "measuring", delayed |-> FALSE, attempts |-> AttemptsAtTake(c)]
        ELSE Recovered[d]
  BY DEF Take, Recovered
<1>3. \A d \in Changes : Recovered[d].state = "failed" => job[d].state = "failed"
  BY DEF Recovered, TypeInv, TypeOK, Job
<1>4. Failed' \subseteq Failed
  BY <1>2, <1>3, ListedNext DEF TypeInv
<1> QED BY <1>1, <1>4 DEF Take, ListStep, ListMoves, FailedMoves

LEMMA FailList ==
  ASSUME TypeInv, TypeOK', NEW c \in Changes, job[c].state = "measuring", NEW n, Fail(c, n)
  PROVE  ListStep
<1> DEFINE failedJob == [state |-> "failed", attempts |-> n, delayed |-> FALSE]
<1>1. failedJob.state = "failed"
  OBVIOUS
<1>2. c \in Listed /\ c \notin Failed
  BY DEF Listed, Failed, InState
<1>3. CASE ~FailedFull(c)
  <2>1. job' = [job EXCEPT ![c] = failedJob] /\ UNCHANGED order
    BY <1>3 DEF Fail
  <2> HIDE DEF failedJob
  <2>2. \A d \in Changes : job'[d].state = IF d = c THEN "failed" ELSE job[d].state
    BY <1>1, <2>1 DEF TypeInv, TypeOK
  <2>3. Listed' = Listed /\ Failed' = Failed \cup {c}
    BY <1>2, <2>2, ListedNext DEF TypeInv
  <2>4. Failed \ {c} = Failed
    BY <1>2
  <2>5. IsFiniteSet(Failed)
    BY ConstantsAssumption, FS_Subset DEF Failed, InState
  <2>6. Cardinality(Failed) \in Nat
    BY <2>5, FS_CardinalityType
  <2>7. Cardinality(Failed) < MaxFailed
    BY <1>3, <2>4, <2>6, ConstantsAssumption DEF FailedFull
  <2> QED BY <2>1, <2>3, <2>7 DEF ListStep, ListMoves, FailedMoves
<1>4. CASE FailedFull(c)
  <2>1. PICK old \in Failed \ {c} :
          /\ job' = [job EXCEPT ![c] = failedJob, ![old] = NoJob]
          /\ order' = Without(order, old)
    BY <1>4 DEF Fail
  <2> HIDE DEF failedJob
  <2>2. old \in Changes /\ old # c /\ old \in Failed
    BY <2>1 DEF Failed, InState
  <2>3. \A d \in Changes : job'[d].state =
          IF d = c THEN "failed" ELSE IF d = old THEN "none" ELSE job[d].state
    BY <1>1, <2>1, <2>2 DEF TypeInv, TypeOK, NoJob
  <2>4. Listed' = Listed \ {old}
    BY <1>2, <2>2, <2>3, ListedNext DEF TypeInv
  <2>5. Failed' = (Failed \ {old}) \cup {c}
    BY <1>2, <2>2, <2>3, ListedNext DEF TypeInv
  <2> QED BY <2>1, <2>2, <2>4, <2>5 DEF ListStep, ListMoves, FailedMoves
<1> QED BY <1>3, <1>4

LEMMA ApplyList ==
  ASSUME TypeInv, TypeOK', NEW w \in Workers, Apply(w)
  PROVE  ListStep
<1> DEFINE c == worker[w].change
<1>1. c \in Changes /\ job[c].state = "measuring" /\ c \in Listed
  BY WorkerChange DEF Apply, Active, Listed, InState
<1>2. \/ ApplyDone(c)
      \/ Fail(c, job[c].attempts + 1)
      \/ ApplyRetry(c)
      \/ ApplyWait(c)
  BY <1>1 DEF Apply
<1> HIDE DEF c
<1>3. CASE ApplyDone(c)
  <2>1. \A d \in Changes : job'[d].state = IF d = c THEN "none" ELSE job[d].state
    BY <1>3 DEF ApplyDone, TypeInv, TypeOK, NoJob
  <2>2. Listed' = Listed \ {c} /\ Failed' \subseteq Failed
    BY <2>1, ListedNext DEF TypeInv
  <2> QED BY <1>1, <1>3, <2>2 DEF ApplyDone, ListStep, ListMoves, FailedMoves
<1>4. CASE Fail(c, job[c].attempts + 1)
  BY <1>1, <1>4, FailList
<1>5. CASE ApplyRetry(c)
  <2>1. CASE Exhausted(job[c].attempts + 1)
    BY <1>1, <1>5, <2>1, FailList DEF ApplyRetry
  <2>2. CASE ~Exhausted(job[c].attempts + 1)
    <3>1. /\ job'[c].state = "pending" /\ UNCHANGED order
          /\ \A d \in Changes : d # c => job'[d].state = job[d].state
      BY <1>1, <1>5, <2>2 DEF ApplyRetry, TypeInv, TypeOK
    <3> QED BY <1>1, <3>1, ListedStays
  <2> QED BY <2>1, <2>2
<1>6. CASE ApplyWait(c)
  <2> DEFINE j == [job[c] EXCEPT !.state = "pending", !.delayed = FALSE]
  <2>1. job' = [job EXCEPT ![c] = j] /\ UNCHANGED order
    BY <1>1, <1>6 DEF ApplyWait, TypeInv, TypeOK
  <2>2. j.state = "pending"
    BY <1>1 DEF TypeInv, TypeOK, Job
  <2> HIDE DEF j
  <2>3. /\ job'[c].state = "pending"
        /\ \A d \in Changes : d # c => job'[d].state = job[d].state
    BY <1>1, <2>1, <2>2 DEF TypeInv, TypeOK
  <2> QED BY <1>1, <2>1, <2>3, ListedStays
<1> QED BY <1>2, <1>3, <1>4, <1>5, <1>6

LEMMA BackoffExpiresList ==
  ASSUME TypeInv, TypeOK', NEW c \in Changes, BackoffExpires(c)
  PROVE  ListStep
<1> DEFINE j == [job[c] EXCEPT !.delayed = FALSE]
<1>1. job' = [job EXCEPT ![c] = j] /\ j.state = job[c].state /\ UNCHANGED order
  BY DEF BackoffExpires, TypeInv, TypeOK, Job
<1> HIDE DEF j
<1>2. \A d \in Changes : job'[d].state = job[d].state
  BY <1>1 DEF TypeInv, TypeOK
<1>3. Listed' = Listed /\ Failed' = Failed
  BY <1>2, ListedNext DEF TypeInv
<1> QED BY <1>1, <1>3 DEF ListStep, ListMoves, FailedMoves

LEMMA NextList ==
  ASSUME TypeInv, [Next]_vars
  PROVE  ListStep \/ Reset
<1>0. TypeOK'
  BY NextType DEF TypeInv
<1>1. CASE Enable \/ Disable
  BY <1>1, ListAlone DEF Enable, Disable, queueVars
<1>2. ASSUME NEW h \in Hooks, HookStep(h) PROVE ListStep
  <2>1. ASSUME NEW c \in Changes, NEW accepted \in BOOLEAN, NEW envelope \in BOOLEAN,
               Stop(h, c, accepted, envelope)
        PROVE  ListStep
    BY <2>1, ListAlone DEF Stop, queueVars
  <2>2. ASSUME NEW c \in Changes, ManualAssurance(h, c) PROVE ListStep
    BY <2>2, ListAlone DEF ManualAssurance, queueVars
  <2>3. CASE ReadConfig(h) \/ NotKept(h) \/ KeepInterrupted(h) \/ NotSettled(h) \/ HookEnds(h)
    BY <2>3, ListAlone
       DEF ReadConfig, NotKept, KeepInterrupted, NotSettled, HookEnds, queueVars
  <2>4. CASE Enqueue(h)
    BY <1>0, <2>4, HookChange, AdmitList DEF Enqueue, MayAdmit
  <2>5. CASE KeepAndAdmit(h)
    BY <1>0, <2>5, HookChange, AdmitList DEF KeepAndAdmit, NativeRefused
  <2> QED BY <1>0, <1>2, <2>1, <2>2, <2>3, <2>4, <2>5, KeepForJobList, SettleList DEF HookStep
<1>3. ASSUME NEW w \in Workers, WorkerStep(w) PROVE ListStep
  <2>1. ASSUME NEW retryFailed \in BOOLEAN, RunStart(w, retryFailed) PROVE ListStep
    BY <2>1, ListAlone DEF RunStart, queueVars
  <2>2. CASE \/ ReadKept(w) \/ CoreFails(w) \/ CoreMeasures(w) \/ CorrelateFails(w)
             \/ Correlate(w) \/ QueueReceipt(w) \/ RunEnds(w)
    BY <2>2, ListAlone
       DEF ReadKept, CoreFails, CoreMeasures, CorrelateFails, Correlate, QueueReceipt,
           RunEnds, queueVars
  <2> QED BY <1>0, <1>3, <2>1, <2>2, TakeList, ApplyList DEF WorkerStep
<1>4. CASE \E c \in Changes : BackoffExpires(c)
  BY <1>0, <1>4, BackoffExpiresList
<1>5. CASE UNCHANGED vars
  BY <1>5, ListAlone DEF vars, queueVars
<1> QED BY <1>1, <1>2, <1>3, <1>4, <1>5 DEF Next

ListInv == OneJobPerChange /\ FailedBounded

LEMMA ListInvariant == Spec => []ListInv
<1>1. Init => ListInv
  <2> SUFFICES ASSUME Init PROVE ListInv
    OBVIOUS
  <2>1. Listed = {} /\ Failed = {}
    BY DEF Init, Listed, Failed, InState, NoJob
  <2>2. Range(<<>>) = {} /\ DOMAIN <<>> = {}
    BY DEF Range
  <2>3. FailedBounded
    BY <2>1, FS_EmptySet, ConstantsAssumption DEF FailedBounded
  <2> QED BY <2>1, <2>2, <2>3 DEF Init, ListInv, OneJobPerChange
<1>2. ASSUME TypeInv, ListInv, [Next]_vars
      PROVE  ListInv'
  <2>1. CASE Reset
    <3>1. Listed' = {} /\ Failed' = {} /\ order' = <<>>
      BY <2>1 DEF Reset, Listed, Failed, InState, NoJob
    <3>2. Range(<<>>) = {} /\ DOMAIN <<>> = {}
      BY DEF Range
    <3>3. FailedBounded'
      BY <3>1, FS_EmptySet, ConstantsAssumption DEF FailedBounded
    <3> QED BY <3>1, <3>2, <3>3 DEF ListInv, OneJobPerChange
  <2>2. CASE ListStep
    BY <1>2, <2>2, ListMovesKeepOneJob, FailedMovesKeepBound DEF ListInv, ListStep, TypeInv
  <2> QED BY <1>2, <2>1, <2>2, NextList
<1> QED BY <1>1, <1>2, TypeInvariant, PTL DEF Spec

\* The list holds one job per change, and the jobs listed are those that have a
\* state, however often and by however many hooks a change is presented, retried,
\* settled or dropped (admitJob, keepNativeMeasurement, boundFailed, settleJob).
THEOREM OneJobForEachChange == Spec => []OneJobPerChange
<1>1. ListInv => OneJobPerChange
  BY DEF ListInv
<1> QED BY <1>1, ListInvariant, PTL

\* The failed jobs never outgrow their list, for every bound: the oldest leaves
\* before one more is kept, whichever path failed it (boundFailed).
THEOREM FailedStayBounded == Spec => []FailedBounded
<1>1. ListInv => FailedBounded
  BY DEF ListInv
<1> QED BY <1>1, ListInvariant, PTL

\* No step of any process lists a change while automatic debt is not enabled: a
\* hook that read the configuration before `disable` or `reset` queues nothing
\* after it (enqueueAutoDebt, keepNativeMeasurement).
THEOREM NothingQueuedWhileDisabled == Spec => QueuedOnlyWhileEnabled
<1>1. ASSUME TypeInv, [Next]_vars
      PROVE  [Listed' \subseteq Listed \/ config = "enabled"]_vars
  <2>1. CASE Reset
    BY <2>1, ResetRecords
  <2>2. CASE ListStep
    BY <2>2 DEF ListStep, ListMoves
  <2> QED BY <1>1, <2>1, <2>2, NextList
<1> QED BY <1>1, TypeInvariant, PTL DEF Spec, QueuedOnlyWhileEnabled

-----------------------------------------------------------------------------
(* One measurement per change *)

\* What a worker on a change knows at each point of measureAndQueue.
WorkerKnows(w) ==
  LET c == worker[w].change IN
  /\ worker[w].pc = "core" => runs[c] = 0 /\ c \notin measured
  /\ worker[w].pc = "correlate" => c \in bound
  /\ worker[w].pc = "queue" => c \in receipt
  /\ worker[w].pc = "apply" =>
       IF worker[w].result.taken THEN c \in Kept
       ELSE runs[c] = 0 /\ worker[w].result.state # "done"

\* A change Core measured is recorded, or still open with its measurement kept.
RunsRecorded(c) == runs[c] # 0 => c \in measured \/ c \in Open \cap Kept

OneMeasurement ==
  /\ MeasuredOnce
  /\ MeasuredJobKeepsIt
  /\ \A c \in Changes : RunsRecorded(c)
  /\ \A w \in Workers : WorkerKnows(w)

\* Steps that only add kept measurements.
LEMMA KeptGrows ==
  ASSUME OneMeasurement, UNCHANGED <<job, measured, worker, runs>>,
         bound \subseteq bound', receipt \subseteq receipt'
  PROVE  OneMeasurement'
<1>1. MeasuredOnce' /\ MeasuredJobKeepsIt'
  BY DEF OneMeasurement, MeasuredOnce, MeasuredJobKeepsIt, Kept, Listed, InState
<1>2. \A c \in Changes : RunsRecorded(c)'
  BY DEF OneMeasurement, RunsRecorded, Open, InState, Kept
<1>3. \A w \in Workers : WorkerKnows(w)'
  BY DEF OneMeasurement, WorkerKnows, Kept
<1> QED BY <1>1, <1>2, <1>3 DEF OneMeasurement

LEMMA ResetOnce ==
  ASSUME TypeInv, OneMeasurement, Reset
  PROVE  OneMeasurement'
<1>1. \A w \in Workers : worker[w].pc \notin Active
  BY ConstantsAssumption DEF TypeInv, WorkersBusy, WorkerOwnsItsJob, Reset
<1>2. \A w \in Workers : WorkerKnows(w)'
  BY <1>1 DEF WorkerKnows, Active, Reset
<1>3. MeasuredOnce' /\ MeasuredJobKeepsIt' /\ \A c \in Changes : RunsRecorded(c)'
  BY DEF Reset, MeasuredOnce, MeasuredJobKeepsIt, RunsRecorded
<1> QED BY <1>2, <1>3 DEF OneMeasurement

\* A new job, of a change that is neither queued nor measured; or a failed one
\* open again.
LEMMA JobOpens ==
  ASSUME TypeInv, OneMeasurement, NEW c \in Changes, c \notin Listed \/ c \in Failed,
         c \notin Listed => c \notin measured,
         job' = [job EXCEPT ![c] = NewJob],
         UNCHANGED <<measured, worker, runs, bound>>, receipt \subseteq receipt'
  PROVE  OneMeasurement'
<1>1. \A d \in Changes : /\ d \in Listed' <=> d = c \/ d \in Listed
                         /\ d \in Open' <=> d = c \/ d \in Open
  BY DEF TypeInv, TypeOK, Listed, Open, InState, NewJob
<1>2. Listed' \subseteq Changes /\ c \in Failed => c \in Listed
  BY DEF Listed, Failed, InState
<1>3. MeasuredJobKeepsIt'
  BY <1>1, <1>2 DEF OneMeasurement, MeasuredJobKeepsIt, Kept, Listed, Failed, InState
<1>4. \A d \in Changes : RunsRecorded(d)'
  BY <1>1 DEF OneMeasurement, RunsRecorded, Kept
<1>5. \A w \in Workers : WorkerKnows(w)'
  BY DEF OneMeasurement, WorkerKnows, Kept
<1> QED BY <1>3, <1>4, <1>5 DEF OneMeasurement, MeasuredOnce

LEMMA AdmitOnce ==
  ASSUME TypeInv, OneMeasurement, NEW c \in Changes, Admit(c),
         UNCHANGED <<measured, worker, runs, bound>>, receipt \subseteq receipt'
  PROVE  OneMeasurement'
<1>1. CASE AlreadyKnown(c) \/ ~HasRoom
  BY <1>1, KeptGrows DEF Admit
<1>2. CASE ~AlreadyKnown(c) /\ HasRoom
  BY <1>2, JobOpens DEF Admit, AlreadyKnown
<1> QED BY <1>1, <1>2

LEMMA EnqueueOnce ==
  ASSUME TypeInv, OneMeasurement, NEW h \in Hooks, Enqueue(h)
  PROVE  OneMeasurement'
BY HookChange, AdmitOnce DEF Enqueue, keptVars

LEMMA KeepForJobOnce ==
  ASSUME TypeInv, OneMeasurement, NEW h \in Hooks, KeepForJob(h)
  PROVE  OneMeasurement'
<1> DEFINE c == hook[h].change
<1>1. c \in Changes /\ c \in Listed
  BY HookChange DEF KeepForJob
<1>2. UNCHANGED <<measured, worker, runs, bound>> /\ receipt \subseteq receipt'
  BY DEF KeepForJob, history
<1>3. CASE job[c].state = "failed"
  BY <1>1, <1>2, <1>3, JobOpens DEF KeepForJob, Failed, InState
<1>4. CASE job[c].state # "failed"
  BY <1>2, <1>4, KeptGrows DEF KeepForJob
<1> QED BY <1>3, <1>4

LEMMA KeepAndAdmitOnce ==
  ASSUME TypeInv, OneMeasurement, NEW h \in Hooks, KeepAndAdmit(h)
  PROVE  OneMeasurement'
<1>1. receipt \subseteq receipt'
  BY DEF KeepAndAdmit
<1> QED BY <1>1, HookChange, AdmitOnce DEF KeepAndAdmit

LEMMA SettleOnce ==
  ASSUME TypeInv, OneMeasurement, NEW h \in Hooks, Settle(h)
  PROVE  OneMeasurement'
<1> DEFINE c == hook[h].change
<1>1. c \in Changes
  BY HookChange DEF Settle
<1>2. CASE LeftToWorker(c)
  BY <1>2, KeptGrows DEF Settle, queueVars, keptVars
<1>3. CASE ~LeftToWorker(c)
  <2>1. /\ job' = [job EXCEPT ![c] = NoJob]
        /\ measured' = measured \cup {c}
        /\ UNCHANGED <<worker, runs>>
    BY <1>3 DEF Settle
  <2>2. /\ bound \cap Listed' \subseteq bound' /\ bound' \subseteq bound
        /\ receipt \cap Listed' \subseteq receipt' /\ receipt' \subseteq receipt
    BY <1>3 DEF Settle, Prune, Prunable
  <2>3. job[c].state # "measuring"
    BY <1>3 DEF LeftToWorker
  <2> HIDE DEF c
  <2>4. \A d \in Changes : d # c => job'[d] = job[d]
    BY <2>1 DEF TypeInv, TypeOK
  <2>5. \A d \in Changes : /\ d \in Listed' <=> d # c /\ d \in Listed
                           /\ d \in Open' <=> d # c /\ d \in Open
    BY <1>1, <2>1 DEF TypeInv, TypeOK, Listed, Open, InState, NoJob
  <2>6. Listed' \subseteq Changes /\ Open' \subseteq Listed'
    BY DEF Listed, Open, InState
  <2>7. MeasuredJobKeepsIt'
    BY <2>1, <2>2, <2>5, <2>6 DEF OneMeasurement, MeasuredJobKeepsIt, Kept
  <2>8. \A d \in Changes : RunsRecorded(d)'
    BY <2>1, <2>2, <2>5, <2>6 DEF OneMeasurement, RunsRecorded, Kept
  <2>9. ASSUME NEW w \in Workers PROVE WorkerKnows(w)'
    <3>1. CASE worker[w].pc \notin Active
      BY <2>1, <3>1 DEF WorkerKnows, Active
    <3>2. CASE worker[w].pc \in Active
      <4>1. /\ worker[w].change \in Changes
            /\ job[worker[w].change].state = "measuring"
        BY <3>2, WorkerChange
      <4>2. worker[w].change # c /\ worker[w].change \in Listed'
        BY <2>3, <2>5, <4>1 DEF Listed, InState
      <4> QED BY <2>1, <2>2, <4>2 DEF OneMeasurement, WorkerKnows, Kept
    <3> QED BY <3>1, <3>2
  <2> QED BY <2>1, <2>7, <2>8, <2>9 DEF OneMeasurement, MeasuredOnce
<1> QED BY <1>2, <1>3

\* Steps of one worker that leave jobs, records and kept measurements alone.
LEMMA WorkerOnce ==
  ASSUME OneMeasurement, NEW w \in Workers,
         UNCHANGED <<job, measured, bound, receipt, runs>>,
         \A v \in Workers : v # w => worker'[v] = worker[v],
         WorkerKnows(w)'
  PROVE  OneMeasurement'
<1>1. \A v \in Workers : WorkerKnows(v)'
  BY DEF OneMeasurement, WorkerKnows, Kept
<1>2. MeasuredOnce' /\ MeasuredJobKeepsIt' /\ \A c \in Changes : RunsRecorded(c)'
  BY DEF OneMeasurement, MeasuredOnce, MeasuredJobKeepsIt, RunsRecorded, Kept, Listed,
         Open, InState
<1> QED BY <1>1, <1>2 DEF OneMeasurement

LEMMA RunStartOnce ==
  ASSUME TypeInv, OneMeasurement, NEW w \in Workers, NEW retryFailed \in BOOLEAN,
         RunStart(w, retryFailed)
  PROVE  OneMeasurement'
<1> DEFINE start == [Off EXCEPT !.pc = "idle", !.retry = IF retryFailed THEN Failed ELSE {}]
<1>1. start.pc = "idle" /\ worker' = [worker EXCEPT ![w] = start]
  BY DEF RunStart, Off
<1> HIDE DEF start
<1>2. worker'[w].pc = "idle" /\ \A v \in Workers : v # w => worker'[v] = worker[v]
  BY <1>1 DEF TypeInv, TypeOK
<1> QED BY <1>2, WorkerOnce DEF WorkerKnows, RunStart, queueVars, keptVars, history

LEMMA RunEndsOnce ==
  ASSUME TypeInv, OneMeasurement, NEW w \in Workers, RunEnds(w)
  PROVE  OneMeasurement'
<1>1. worker'[w].pc = "off" /\ \A v \in Workers : v # w => worker'[v] = worker[v]
  BY DEF RunEnds, Off, TypeInv, TypeOK
<1> QED BY <1>1, WorkerOnce DEF WorkerKnows, RunEnds, queueVars, keptVars, history

LEMMA TakeOnce ==
  ASSUME TypeInv, OneMeasurement, NEW w \in Workers, NEW c \in Changes, Take(w, c)
  PROVE  OneMeasurement'
<1>1. /\ \A d \in Changes : d \in Listed' <=> d \in Listed
      /\ UNCHANGED <<measured, bound, receipt, runs>>
  BY TakeListed DEF Take, keptVars, history
<1>2. \A d \in Changes : d \in Open => d \in Open'
  <2>1. \A d \in Changes : job[d].state \in {"pending", "measuring"}
                             => Recovered[d].state = "pending"
    BY DEF Recovered, TypeInv, TypeOK, Job
  <2>2. \A d \in Changes : job'[d] = IF d = c
          THEN [state |-> "measuring", delayed |-> FALSE, attempts |-> AttemptsAtTake(c)]
          ELSE Recovered[d]
    BY DEF Take, Recovered
  <2> QED BY <2>1, <2>2 DEF Open, InState
<1>3. MeasuredOnce' /\ MeasuredJobKeepsIt' /\ \A d \in Changes : RunsRecorded(d)'
  BY <1>1, <1>2 DEF OneMeasurement, MeasuredOnce, MeasuredJobKeepsIt, RunsRecorded, Kept,
                    Listed, InState
<1>4. worker'[w].pc = "kept" /\ \A v \in Workers : v # w => worker'[v] = worker[v]
  BY DEF Take, TypeInv, TypeOK
<1>5. \A v \in Workers : WorkerKnows(v)'
  BY <1>1, <1>4 DEF OneMeasurement, WorkerKnows, Kept
<1> QED BY <1>3, <1>5 DEF OneMeasurement

LEMMA ReadKeptOnce ==
  ASSUME TypeInv, OneMeasurement, NEW w \in Workers, ReadKept(w)
  PROVE  OneMeasurement'
<1> DEFINE c == worker[w].change
<1>1. c \in Changes /\ c \in Listed
  BY WorkerChange DEF ReadKept, Active, Listed, InState
<1>2. AfterKept(c) \in {"core", "correlate", "queue"}
  BY DEF AfterKept
<1>3. /\ worker'[w].pc = AfterKept(c) /\ worker'[w].change = c
      /\ \A v \in Workers : v # w => worker'[v] = worker[v]
  BY <1>2, ContinueType DEF ReadKept, TypeInv
<1>4. UNCHANGED <<job, measured, bound, receipt, runs>>
  BY DEF ReadKept, queueVars, keptVars, history
<1>5. c \notin Kept => c \notin measured /\ runs[c] = 0
  BY <1>1 DEF OneMeasurement, MeasuredJobKeepsIt, RunsRecorded
<1>6. WorkerKnows(w)'
  BY <1>3, <1>4, <1>5 DEF WorkerKnows, AfterKept, Kept
<1> QED BY <1>3, <1>4, <1>6, WorkerOnce

LEMMA CoreFailsOnce ==
  ASSUME TypeInv, OneMeasurement, NEW w \in Workers, CoreFails(w)
  PROVE  OneMeasurement'
<1>1. /\ worker'[w].pc = "apply" /\ worker'[w].change = worker[w].change
      /\ worker'[w].result.taken = FALSE /\ worker'[w].result.state # "done"
      /\ \A v \in Workers : v # w => worker'[v] = worker[v]
  <2>1. PICK state \in {"core-unavailable", "failed", "retry"} : Report(w, state, FALSE)
    BY DEF CoreFails
  <2>2. /\ worker'[w].pc = "apply" /\ worker'[w].change = worker[w].change
        /\ worker'[w].result = [state |-> state, taken |-> FALSE]
        /\ \A v \in Workers : v # w => worker'[v] = worker[v]
    BY <2>1, ReportType DEF TypeInv
  <2> QED BY <2>2
<1>2. UNCHANGED <<job, measured, bound, receipt, runs>>
  BY DEF CoreFails, queueVars, keptVars, history
<1>3. WorkerKnows(w)'
  BY <1>1, <1>2 DEF OneMeasurement, WorkerKnows, CoreFails
<1> QED BY <1>1, <1>2, <1>3, WorkerOnce

LEMMA CoreMeasuresOnce ==
  ASSUME TypeInv, OneMeasurement, NEW w \in Workers, CoreMeasures(w)
  PROVE  OneMeasurement'
<1> DEFINE c == worker[w].change
<1>1. c \in Changes /\ job[c].state = "measuring"
  BY WorkerChange DEF CoreMeasures, Active
<1>2. runs[c] = 0
  BY DEF OneMeasurement, WorkerKnows, CoreMeasures
<1>3. /\ worker'[w].pc = "correlate" /\ worker'[w].change = c
      /\ \A v \in Workers : v # w => worker'[v] = worker[v]
  BY ContinueType DEF CoreMeasures, TypeInv
<1>4. /\ bound' = bound \cup {c} /\ runs' = [runs EXCEPT ![c] = @ + 1]
      /\ UNCHANGED <<job, measured, receipt>>
  BY DEF CoreMeasures, queueVars
<1> HIDE DEF c
<1>5. \A d \in Changes : runs'[d] = IF d = c THEN 1 ELSE runs[d]
  BY <1>1, <1>2, <1>4 DEF TypeInv, TypeOK
<1>6. MeasuredOnce'
  BY <1>5 DEF OneMeasurement, MeasuredOnce
<1>7. MeasuredJobKeepsIt'
  BY <1>4 DEF OneMeasurement, MeasuredJobKeepsIt, Kept, Listed, InState
<1>8. \A d \in Changes : RunsRecorded(d)'
  BY <1>1, <1>4, <1>5 DEF OneMeasurement, RunsRecorded, Kept, Open, InState
<1>9. ASSUME NEW v \in Workers PROVE WorkerKnows(v)'
  <2>1. CASE v = w
    BY <1>3, <1>4, <2>1 DEF WorkerKnows
  <2>2. CASE v # w /\ worker[v].pc \in Active
    <3>1. wlock = w /\ wlock = v
      BY <2>2, WorkerChange DEF CoreMeasures, Active
    <3> QED BY <3>1, <2>2
  <2>3. CASE v # w /\ worker[v].pc \notin Active
    BY <1>3, <2>3 DEF WorkerKnows, Active
  <2> QED BY <2>1, <2>2, <2>3
<1> QED BY <1>6, <1>7, <1>8, <1>9 DEF OneMeasurement

LEMMA CorrelateFailsOnce ==
  ASSUME TypeInv, OneMeasurement, NEW w \in Workers, CorrelateFails(w)
  PROVE  OneMeasurement'
<1>1. /\ worker'[w].pc = "apply" /\ worker'[w].change = worker[w].change
      /\ worker'[w].result.taken = TRUE
      /\ \A v \in Workers : v # w => worker'[v] = worker[v]
  <2>1. PICK state \in {"failed", "retry"} : Report(w, state, TRUE)
    BY DEF CorrelateFails
  <2>2. /\ worker'[w].pc = "apply" /\ worker'[w].change = worker[w].change
        /\ worker'[w].result = [state |-> state, taken |-> TRUE]
        /\ \A v \in Workers : v # w => worker'[v] = worker[v]
    BY <2>1, ReportType DEF TypeInv
  <2> QED BY <2>2
<1>2. UNCHANGED <<job, measured, bound, receipt, runs>>
  BY DEF CorrelateFails, queueVars, keptVars, history
<1>3. WorkerKnows(w)'
  BY <1>1, <1>2 DEF OneMeasurement, WorkerKnows, CorrelateFails, Kept
<1> QED BY <1>1, <1>2, <1>3, WorkerOnce

LEMMA CorrelateOnce ==
  ASSUME TypeInv, OneMeasurement, NEW w \in Workers, Correlate(w)
  PROVE  OneMeasurement'
<1>1. /\ worker'[w].pc = "queue" /\ worker'[w].change = worker[w].change
      /\ \A v \in Workers : v # w => worker'[v] = worker[v]
  BY ContinueType DEF Correlate, TypeInv
<1>2. receipt' = receipt \cup {worker[w].change} /\ UNCHANGED <<job, measured, bound, runs>>
  BY DEF Correlate, queueVars, history
<1>3. \A v \in Workers : WorkerKnows(v)'
  BY <1>1, <1>2 DEF OneMeasurement, WorkerKnows, Kept
<1>4. MeasuredOnce' /\ MeasuredJobKeepsIt' /\ \A c \in Changes : RunsRecorded(c)'
  BY <1>2 DEF OneMeasurement, MeasuredOnce, MeasuredJobKeepsIt, RunsRecorded, Kept, Listed,
              Open, InState
<1> QED BY <1>3, <1>4 DEF OneMeasurement

LEMMA QueueReceiptOnce ==
  ASSUME TypeInv, OneMeasurement, NEW w \in Workers, QueueReceipt(w)
  PROVE  OneMeasurement'
<1>1. /\ worker'[w].pc = "apply" /\ worker'[w].change = worker[w].change
      /\ worker'[w].result.taken = TRUE
      /\ \A v \in Workers : v # w => worker'[v] = worker[v]
  <2>1. PICK state \in {"done", "waiting", "failed"} : Report(w, state, TRUE)
    BY DEF QueueReceipt
  <2>2. /\ worker'[w].pc = "apply" /\ worker'[w].change = worker[w].change
        /\ worker'[w].result = [state |-> state, taken |-> TRUE]
        /\ \A v \in Workers : v # w => worker'[v] = worker[v]
    BY <2>1, ReportType DEF TypeInv
  <2> QED BY <2>2
<1>2. /\ bound \cap Listed \subseteq bound' /\ bound' \subseteq bound
      /\ receipt \cap Listed \subseteq receipt' /\ receipt' \subseteq receipt
      /\ UNCHANGED <<job, measured, runs>>
  BY DEF QueueReceipt, Prune, Prunable, queueVars, history
<1>3. Open \subseteq Listed
  BY DEF Open, Listed, InState
<1>4. MeasuredOnce' /\ MeasuredJobKeepsIt' /\ \A c \in Changes : RunsRecorded(c)'
  BY <1>2, <1>3 DEF OneMeasurement, MeasuredOnce, MeasuredJobKeepsIt, RunsRecorded, Kept,
                    Listed, Open, InState
<1>5. \A v \in Workers : worker[v].pc \in Active => worker[v].change \in Listed
  BY WorkerChange DEF Listed, InState
<1>6. ASSUME NEW v \in Workers PROVE WorkerKnows(v)'
  <2>1. CASE v = w
    BY <1>1, <1>2, <1>5, <2>1 DEF OneMeasurement, WorkerKnows, Kept, QueueReceipt, Active
  <2>2. CASE v # w /\ worker[v].pc \in Active
    BY <1>1, <1>2, <1>5, <2>2 DEF OneMeasurement, WorkerKnows, Kept
  <2>3. CASE v # w /\ worker[v].pc \notin Active
    BY <1>1, <2>3 DEF WorkerKnows, Active
  <2> QED BY <2>1, <2>2, <2>3
<1> QED BY <1>4, <1>6 DEF OneMeasurement

\* What an outcome leaves of the jobs: no other job opens or enters the list, and
\* the job of c is over only if the measurement was delivered.
LEMMA OutcomeJobs ==
  ASSUME TypeInv, NEW w \in Workers, Apply(w)
  PROVE  /\ Listed' \subseteq Listed
         /\ \A d \in Changes : d # worker[w].change => (d \in Open' <=> d \in Open)
         /\ worker[w].result.taken \/ worker[w].result.state = "done"
              => worker[w].change \in measured'
         /\ ~(worker[w].result.taken \/ worker[w].result.state = "done")
              => measured' = measured
         /\ measured' \subseteq measured \cup {worker[w].change}
         /\ measured \subseteq measured'
<1> DEFINE c == worker[w].change
           result == worker[w].result
<1>1. c \in Changes /\ job[c].state = "measuring" /\ c \in Listed
  BY WorkerChange DEF Apply, Active, Listed, InState
<1>2. /\ \/ ApplyDone(c)
         \/ Fail(c, job[c].attempts + 1)
         \/ ApplyRetry(c)
         \/ ApplyWait(c)
      /\ measured' = IF result.taken \/ result.state = "done"
                     THEN measured \cup {c} ELSE measured
  BY <1>1 DEF Apply
<1> HIDE DEF c, result
<1>3. /\ Listed' \subseteq Listed
      /\ \A d \in Changes : d # c => (d \in Open' <=> d \in Open)
  <2>1. ASSUME NEW j, job' = [job EXCEPT ![c] = j]
        PROVE  /\ Listed' \subseteq Listed
               /\ \A d \in Changes : d # c => (d \in Open' <=> d \in Open)
    BY <1>1, <2>1 DEF TypeInv, TypeOK, Listed, Open, InState
  <2>2. CASE ApplyDone(c)
    BY <2>1, <2>2 DEF ApplyDone
  <2>3. ASSUME NEW n, Fail(c, n)
        PROVE  /\ Listed' \subseteq Listed
               /\ \A d \in Changes : d # c => (d \in Open' <=> d \in Open)
    <3>1. CASE ~FailedFull(c)
      BY <2>1, <2>3, <3>1 DEF Fail
    <3>2. CASE FailedFull(c)
      <4> DEFINE failedJob == [state |-> "failed", attempts |-> n, delayed |-> FALSE]
      <4>1. PICK old \in Failed \ {c} :
              job' = [job EXCEPT ![c] = failedJob, ![old] = NoJob]
        BY <2>3, <3>2 DEF Fail
      <4> HIDE DEF failedJob
      <4> QED BY <1>1, <4>1 DEF TypeInv, TypeOK, Listed, Open, Failed, InState, NoJob
    <3> QED BY <3>1, <3>2
  <2>4. CASE ApplyRetry(c)
    <3>1. CASE Exhausted(job[c].attempts + 1)
      BY <2>3, <2>4, <3>1 DEF ApplyRetry
    <3>2. CASE ~Exhausted(job[c].attempts + 1)
      BY <2>1, <2>4, <3>2 DEF ApplyRetry
    <3> QED BY <3>1, <3>2
  <2>5. CASE ApplyWait(c)
    <3> DEFINE j == [job[c] EXCEPT !.state = "pending", !.delayed = FALSE]
    <3>1. job' = [job EXCEPT ![c] = j]
      BY <1>1, <2>5 DEF ApplyWait, TypeInv, TypeOK
    <3> HIDE DEF j
    <3> QED BY <2>1, <3>1
  <2> QED BY <1>2, <2>2, <2>3, <2>4, <2>5
<1>4. /\ result.taken \/ result.state = "done" => c \in measured'
      /\ ~(result.taken \/ result.state = "done") => measured' = measured
      /\ measured' \subseteq measured \cup {c}
      /\ measured \subseteq measured'
  BY <1>2
<1> QED BY <1>3, <1>4 DEF c, result

LEMMA ApplyOnce ==
  ASSUME TypeInv, OneMeasurement, NEW w \in Workers, Apply(w)
  PROVE  OneMeasurement'
<1> DEFINE c == worker[w].change
           result == worker[w].result
<1>1. c \in Changes
  BY WorkerChange DEF Apply, Active
<1>2. /\ Listed' \subseteq Listed
      /\ \A d \in Changes : d # c => (d \in Open' <=> d \in Open)
      /\ result.taken \/ result.state = "done" => c \in measured'
      /\ measured' \subseteq measured \cup {c}
      /\ measured \subseteq measured'
  BY OutcomeJobs
<1>3. UNCHANGED <<bound, receipt, runs>>
  BY DEF Apply, keptVars, history
<1>4. IF result.taken THEN c \in Kept ELSE runs[c] = 0 /\ result.state # "done"
  BY DEF OneMeasurement, WorkerKnows, Apply
<1>5. ~(result.taken \/ result.state = "done") => measured' = measured
  BY OutcomeJobs
<1>6. MeasuredJobKeepsIt'
  BY <1>2, <1>3, <1>4, <1>5 DEF OneMeasurement, MeasuredJobKeepsIt, Kept
<1>7. ASSUME NEW d \in Changes PROVE RunsRecorded(d)'
  BY <1>2, <1>3, <1>4 DEF OneMeasurement, RunsRecorded, Kept
<1>8. worker'[w].pc = "idle" /\ \A v \in Workers : v # w => worker'[v] = worker[v]
  BY DEF Apply, Off, TypeInv, TypeOK
<1>9. ASSUME NEW v \in Workers PROVE WorkerKnows(v)'
  <2>1. CASE v = w
    BY <1>8, <2>1 DEF WorkerKnows
  <2>2. CASE v # w /\ worker[v].pc \in Active
    <3>1. wlock = w /\ wlock = v
      BY <2>2, WorkerChange DEF Apply, Active
    <3> QED BY <3>1, <2>2
  <2>3. CASE v # w /\ worker[v].pc \notin Active
    BY <1>8, <2>3 DEF WorkerKnows, Active
  <2> QED BY <2>1, <2>2, <2>3
<1> QED BY <1>3, <1>6, <1>7, <1>9 DEF OneMeasurement, MeasuredOnce

LEMMA BackoffExpiresOnce ==
  ASSUME TypeInv, OneMeasurement, NEW c \in Changes, BackoffExpires(c)
  PROVE  OneMeasurement'
<1> DEFINE j == [job[c] EXCEPT !.delayed = FALSE]
<1>1. job' = [job EXCEPT ![c] = j] /\ j.state = job[c].state
  BY DEF BackoffExpires, TypeInv, TypeOK, Job
<1> HIDE DEF j
<1>2. Listed' = Listed /\ Open' = Open
  BY <1>1 DEF TypeInv, TypeOK, Listed, Open, InState
<1>3. UNCHANGED <<measured, bound, receipt, worker, runs>>
  BY DEF BackoffExpires, keptVars, history
<1> QED BY <1>2, <1>3 DEF OneMeasurement, MeasuredOnce, MeasuredJobKeepsIt, RunsRecorded,
                          WorkerKnows, Kept

LEMMA NextOnce ==
  ASSUME TypeInv, OneMeasurement, [Next]_vars
  PROVE  OneMeasurement'
<1>1. CASE Enable \/ Disable
  BY <1>1, KeptGrows DEF Enable, Disable, queueVars, keptVars, history
<1>2. CASE Reset
  BY <1>2, ResetOnce
<1>3. ASSUME NEW h \in Hooks, HookStep(h) PROVE OneMeasurement'
  <2>1. ASSUME NEW c \in Changes, NEW accepted \in BOOLEAN, NEW envelope \in BOOLEAN,
               Stop(h, c, accepted, envelope)
        PROVE  OneMeasurement'
    BY <2>1, KeptGrows DEF Stop, queueVars, keptVars, history
  <2>2. ASSUME NEW c \in Changes, ManualAssurance(h, c) PROVE OneMeasurement'
    BY <2>2, KeptGrows DEF ManualAssurance, queueVars, keptVars, history
  <2>3. CASE ReadConfig(h) \/ NotKept(h) \/ NotSettled(h) \/ HookEnds(h)
    BY <2>3, KeptGrows
       DEF ReadConfig, NotKept, NotSettled, HookEnds, queueVars, keptVars, history
  <2>4. CASE KeepInterrupted(h)
    BY <2>4, KeptGrows DEF KeepInterrupted, queueVars, history
  <2> QED BY <1>3, <2>1, <2>2, <2>3, <2>4, EnqueueOnce, KeepForJobOnce, KeepAndAdmitOnce,
             SettleOnce DEF HookStep
<1>4. ASSUME NEW w \in Workers, WorkerStep(w) PROVE OneMeasurement'
  BY <1>4, RunStartOnce, TakeOnce, ReadKeptOnce, CoreFailsOnce, CoreMeasuresOnce,
     CorrelateFailsOnce, CorrelateOnce, QueueReceiptOnce, ApplyOnce, RunEndsOnce
     DEF WorkerStep
<1>5. CASE \E c \in Changes : BackoffExpires(c)
  BY <1>5, BackoffExpiresOnce
<1>6. CASE UNCHANGED vars
  BY <1>6, KeptGrows DEF vars, queueVars, keptVars, history
<1> QED BY <1>1, <1>2, <1>3, <1>4, <1>5, <1>6 DEF Next

LEMMA OneMeasurementInvariant == Spec => []OneMeasurement
<1>1. Init => OneMeasurement
  <2>1. Off.pc = "off"
    BY DEF Off
  <2> QED BY <2>1 DEF Init, OneMeasurement, MeasuredOnce, MeasuredJobKeepsIt, RunsRecorded,
                      WorkerKnows
<1>2. TypeInv /\ OneMeasurement /\ [Next]_vars => OneMeasurement'
  BY NextOnce
<1> QED BY <1>1, <1>2, TypeInvariant, PTL DEF Spec

\* Core's measurement of a change is taken once, whatever fails, dies or is
\* retried, and whoever else measures the change (measureAndQueue, pruneWork,
\* settleJob, keepNativeMeasurement).
THEOREM CoreMeasuresOnceOnly == Spec => []MeasuredOnce
<1>1. OneMeasurement => MeasuredOnce
  BY DEF OneMeasurement
<1> QED BY <1>1, OneMeasurementInvariant, PTL

\* A listed job of a measured change still has its measurement beside it.
THEOREM MeasurementIsKept == Spec => []MeasuredJobKeepsIt
<1>1. OneMeasurement => MeasuredJobKeepsIt
  BY DEF OneMeasurement
<1> QED BY <1>1, OneMeasurementInvariant, PTL

LEMMA NextRuns ==
  ASSUME [Next]_vars
  PROVE  UNCHANGED runs \/ Reset \/ \E w \in Workers : CoreMeasures(w)
<1>1. CASE Enable \/ Disable
  BY <1>1 DEF Enable, Disable, history
<1>2. ASSUME NEW h \in Hooks, HookStep(h) PROVE UNCHANGED runs
  BY <1>2 DEF HookStep, Stop, ManualAssurance, ReadConfig, Enqueue, NotKept, KeepForJob,
              KeepAndAdmit, KeepInterrupted, Settle, NotSettled, HookEnds, history
<1>3. ASSUME NEW w \in Workers, WorkerStep(w) PROVE UNCHANGED runs \/ CoreMeasures(w)
  BY <1>3 DEF WorkerStep, RunStart, Take, ReadKept, CoreFails, CorrelateFails, Correlate,
              QueueReceipt, Apply, RunEnds, history
<1>4. CASE \E c \in Changes : BackoffExpires(c)
  BY <1>4 DEF BackoffExpires, history
<1>5. CASE UNCHANGED vars
  BY <1>5 DEF vars, history
<1> QED BY <1>1, <1>2, <1>3, <1>4, <1>5 DEF Next

\* A change recorded as measured is never run through Core again and never gets a
\* new job, whichever process presents it next (admitJob, settleJob,
\* keepNativeMeasurement, processNextJob).
THEOREM MeasuredForGood == Spec => NeverMeasuredAgain
<1>1. ASSUME TypeInv, OneMeasurement, [Next]_vars
      PROVE  [\A c \in measured : /\ runs'[c] <= runs[c]
                                  /\ c \notin Listed => c \notin Listed']_vars
  <2> SUFFICES ASSUME NEW c \in measured
               PROVE  runs'[c] <= runs[c] /\ (c \notin Listed => c \notin Listed')
    OBVIOUS
  <2>1. c \in Changes /\ runs[c] \in Nat
    BY <1>1 DEF TypeInv, TypeOK
  <2>2. runs'[c] <= runs[c]
    <3>1. CASE UNCHANGED runs
      BY <2>1, <3>1
    <3>2. CASE Reset
      BY <2>1, <3>2 DEF Reset
    <3>3. ASSUME NEW w \in Workers, CoreMeasures(w) PROVE runs'[c] <= runs[c]
      <4>1. worker[w].change # c
        BY <1>1, <3>3 DEF OneMeasurement, WorkerKnows, CoreMeasures
      <4>2. runs'[c] = runs[c]
        BY <1>1, <2>1, <3>3, <4>1 DEF CoreMeasures, TypeInv, TypeOK
      <4> QED BY <2>1, <4>2
    <3> QED BY <1>1, <3>1, <3>2, <3>3, NextRuns
  <2>3. c \notin Listed => c \notin Listed'
    <3>1. CASE Reset
      BY <3>1, ResetRecords
    <3>2. CASE RecordsStep
      BY <2>1, <3>2 DEF RecordsStep, ChangeStep, Same, Admitted, NotQueued, Settled,
                        Recorded, LeftTheList
    <3> QED BY <1>1, <3>1, <3>2, NextRecords
  <2> QED BY <2>2, <2>3
<1> QED BY <1>1, TypeInvariant, OneMeasurementInvariant, PTL DEF Spec, NeverMeasuredAgain

-----------------------------------------------------------------------------
(* The job of a working worker is its own *)

\* A job being measured is not waiting for a retry.
DueWhileMeasured == \A c \in Changes : job[c].state = "measuring" => ~job[c].delayed

\* A step that leaves the jobs being measured as they are, and starts none.
HeldJobs == \A c \in Changes : job[c].state = "measuring" => job'[c] = job[c]
NoneTaken == \A c \in Changes : job'[c].state = "measuring" => job'[c] = job[c]

\* A step keeps the jobs of the workers that take no part in it.
TheirJobs ==
  \A w \in Workers :
    worker[w].change # None /\ worker'[w] = worker[w]
      => job'[worker[w].change] = job[worker[w].change]

LEMMA HeldJobsKeepTheirs ==
  ASSUME TypeInv, DueWhileMeasured, HeldJobs, NoneTaken
  PROVE  TheirJobs /\ DueWhileMeasured'
<1>1. \A w \in Workers : worker[w].change # None =>
        worker[w].change \in Changes /\ job[worker[w].change].state = "measuring"
  BY DEF TypeInv, TypeOK, WorkerState, WorkerOwnsItsJob
<1> QED BY <1>1 DEF HeldJobs, NoneTaken, TheirJobs, DueWhileMeasured

\* One job changes, which no worker is measuring and none takes.
LEMMA OneJobHeld ==
  ASSUME TypeInv, DueWhileMeasured, NEW c \in Changes, NEW j,
         job[c].state # "measuring" \/ j = job[c],
         j.state # "measuring" \/ j = job[c],
         job' = [job EXCEPT ![c] = j]
  PROVE  TheirJobs /\ DueWhileMeasured'
<1>1. \A d \in Changes : job'[d] = IF d = c THEN j ELSE job[d]
  BY DEF TypeInv, TypeOK
<1>2. HeldJobs /\ NoneTaken
  BY <1>1 DEF HeldJobs, NoneTaken
<1> QED BY <1>2, HeldJobsKeepTheirs

LEMMA JobsHeldAlone ==
  ASSUME TypeInv, DueWhileMeasured, UNCHANGED job
  PROVE  TheirJobs /\ DueWhileMeasured'
BY DEF TheirJobs, DueWhileMeasured

\* With the worker lock free, or held by w, no other worker has a job.
LEMMA NoOtherWorker ==
  ASSUME TypeInv, NEW w \in Workers, wlock \in {None, w}
  PROVE  \A v \in Workers : v # w => worker[v].change = None
BY ConstantsAssumption DEF TypeInv, TypeOK, WorkerOwnsItsJob

LEMMA ResetHeld ==
  ASSUME TypeInv, Reset
  PROVE  TheirJobs /\ DueWhileMeasured'
<1>1. \A v \in Workers : worker[v].change = None
  BY ConstantsAssumption DEF Reset, TypeInv, TypeOK, WorkerOwnsItsJob
<1> QED BY <1>1 DEF Reset, TheirJobs, DueWhileMeasured, NoJob

LEMMA AdmitHeld ==
  ASSUME TypeInv, DueWhileMeasured, NEW c \in Changes, Admit(c)
  PROVE  TheirJobs /\ DueWhileMeasured'
<1>1. CASE UNCHANGED job
  BY <1>1, JobsHeldAlone
<1>2. CASE ~AlreadyKnown(c) /\ job' = [job EXCEPT ![c] = NewJob]
  <2>1. job[c].state # "measuring"
    BY <1>2 DEF AlreadyKnown, Listed, InState
  <2>2. NewJob.state = "pending"
    BY DEF NewJob
  <2> QED BY <1>2, <2>1, <2>2, OneJobHeld
<1> QED BY <1>1, <1>2 DEF Admit

LEMMA KeepForJobHeld ==
  ASSUME TypeInv, DueWhileMeasured, NEW h \in Hooks, KeepForJob(h)
  PROVE  TheirJobs /\ DueWhileMeasured'
<1> DEFINE c == hook[h].change
<1>1. /\ c \in Changes
      /\ job' = job \/ (job[c].state = "failed" /\ job' = [job EXCEPT ![c] = NewJob])
  BY HookChange DEF KeepForJob
<1>2. NewJob.state = "pending"
  BY DEF NewJob
<1> HIDE DEF c
<1> QED BY <1>1, <1>2, JobsHeldAlone, OneJobHeld

LEMMA SettleHeld ==
  ASSUME TypeInv, DueWhileMeasured, NEW h \in Hooks, Settle(h)
  PROVE  TheirJobs /\ DueWhileMeasured'
<1> DEFINE c == hook[h].change
<1>1. /\ c \in Changes
      /\ job' = job \/ (job[c].state # "measuring" /\ job' = [job EXCEPT ![c] = NoJob])
  BY HookChange DEF Settle, LeftToWorker, queueVars
<1>2. NoJob.state = "none"
  BY DEF NoJob
<1> HIDE DEF c
<1> QED BY <1>1, <1>2, JobsHeldAlone, OneJobHeld

LEMMA TakeHeld ==
  ASSUME TypeInv, NEW w \in Workers, NEW c \in Changes, Take(w, c)
  PROVE  TheirJobs /\ DueWhileMeasured'
<1>1. \A v \in Workers : v # w => worker[v].change = None
  BY NoOtherWorker DEF Take, LockFree
<1>2. worker'[w].pc = "kept" /\ worker[w].pc = "idle"
  BY DEF Take, TypeInv, TypeOK
<1>3. TheirJobs
  BY <1>1, <1>2 DEF TheirJobs
<1>4. \A d \in Changes : job'[d] = IF d = c
        THEN [state |-> "measuring", delayed |-> FALSE, attempts |-> AttemptsAtTake(c)]
        ELSE Recovered[d]
  BY DEF Take, Recovered
<1>5. \A d \in Changes : Recovered[d].state # "measuring"
  BY DEF Recovered, TypeInv, TypeOK, Job
<1> QED BY <1>3, <1>4, <1>5 DEF DueWhileMeasured

LEMMA ApplyHeld ==
  ASSUME TypeInv, DueWhileMeasured, NEW w \in Workers, Apply(w)
  PROVE  TheirJobs /\ DueWhileMeasured'
<1> DEFINE c == worker[w].change
<1>1. c \in Changes /\ wlock = w /\ job[c].state = "measuring" /\ c \in Listed
  BY WorkerChange DEF Apply, Active, Listed, InState
<1>2. \A v \in Workers : v # w => worker[v].change = None
  BY <1>1, NoOtherWorker
<1>3. worker'[w].pc = "idle" /\ worker[w].pc = "apply"
  BY DEF Apply, Off, TypeInv, TypeOK
<1>4. TheirJobs
  BY <1>2, <1>3 DEF TheirJobs
<1>5. \A d \in Changes : job'[d].state = "measuring" => job'[d] = job[d]
  <2> SUFFICES ASSUME NEW d \in Changes PROVE job'[d].state = "measuring" => job'[d] = job[d]
    OBVIOUS
  <2>1. /\ \/ ApplyDone(c)
           \/ Fail(c, job[c].attempts + 1)
           \/ ApplyRetry(c)
           \/ ApplyWait(c)
    BY <1>1 DEF Apply
  <2> HIDE DEF c
  <2>2. ASSUME NEW j, j.state # "measuring", job' = [job EXCEPT ![c] = j]
        PROVE  job'[d].state = "measuring" => job'[d] = job[d]
    BY <1>1, <2>2 DEF TypeInv, TypeOK
  <2>3. ASSUME NEW n, Fail(c, n)
        PROVE  job'[d].state = "measuring" => job'[d] = job[d]
    <3> DEFINE failedJob == [state |-> "failed", attempts |-> n, delayed |-> FALSE]
    <3>1. failedJob.state = "failed" /\ NoJob.state = "none"
      BY DEF NoJob
    <3>2. \/ job' = [job EXCEPT ![c] = failedJob]
          \/ \E old \in Failed \ {c} : job' = [job EXCEPT ![c] = failedJob, ![old] = NoJob]
      BY <2>3 DEF Fail
    <3> HIDE DEF failedJob
    <3>3. ASSUME NEW old \in Failed \ {c}, job' = [job EXCEPT ![c] = failedJob, ![old] = NoJob]
          PROVE  job'[d].state = "measuring" => job'[d] = job[d]
      BY <1>1, <3>1, <3>3 DEF TypeInv, TypeOK, Failed, InState
    <3> QED BY <2>2, <3>1, <3>2, <3>3
  <2>4. CASE ApplyDone(c)
    BY <2>2, <2>4 DEF ApplyDone, NoJob
  <2>5. CASE ApplyRetry(c)
    BY <2>2, <2>3, <2>5 DEF ApplyRetry
  <2>6. CASE ApplyWait(c)
    <3> DEFINE j == [job[c] EXCEPT !.state = "pending", !.delayed = FALSE]
    <3>1. job' = [job EXCEPT ![c] = j]
      BY <1>1, <2>6 DEF ApplyWait, TypeInv, TypeOK
    <3>2. j.state = "pending"
      BY <1>1 DEF TypeInv, TypeOK, Job
    <3> HIDE DEF j
    <3> QED BY <2>2, <3>1, <3>2
  <2> QED BY <2>1, <2>3, <2>4, <2>5, <2>6
<1> QED BY <1>4, <1>5 DEF DueWhileMeasured

LEMMA BackoffExpiresHeld ==
  ASSUME TypeInv, DueWhileMeasured, NEW c \in Changes, BackoffExpires(c)
  PROVE  TheirJobs /\ DueWhileMeasured'
<1> DEFINE j == [job[c] EXCEPT !.delayed = FALSE]
<1>1. job' = [job EXCEPT ![c] = j] /\ j.state = job[c].state
  BY DEF BackoffExpires, TypeInv, TypeOK, Job
<1>2. job[c].state # "measuring"
  BY DEF BackoffExpires, DueWhileMeasured
<1> HIDE DEF j
<1> QED BY <1>1, <1>2, OneJobHeld

LEMMA NextHeld ==
  ASSUME TypeInv, DueWhileMeasured, [Next]_vars
  PROVE  TheirJobs /\ DueWhileMeasured'
<1>1. CASE Enable \/ Disable
  BY <1>1, JobsHeldAlone DEF Enable, Disable, queueVars
<1>2. ASSUME NEW h \in Hooks, HookStep(h) PROVE TheirJobs /\ DueWhileMeasured'
  <2>1. ASSUME NEW c \in Changes, NEW accepted \in BOOLEAN, NEW envelope \in BOOLEAN,
               Stop(h, c, accepted, envelope)
        PROVE  UNCHANGED job
    BY <2>1 DEF Stop, queueVars
  <2>2. ASSUME NEW c \in Changes, ManualAssurance(h, c) PROVE UNCHANGED job
    BY <2>2 DEF ManualAssurance, queueVars
  <2>3. CASE ReadConfig(h) \/ NotKept(h) \/ KeepInterrupted(h) \/ NotSettled(h) \/ HookEnds(h)
    BY <2>3, JobsHeldAlone
       DEF ReadConfig, NotKept, KeepInterrupted, NotSettled, HookEnds, queueVars
  <2>4. CASE Enqueue(h)
    BY <2>4, HookChange, AdmitHeld DEF Enqueue
  <2>5. CASE KeepAndAdmit(h)
    BY <2>5, HookChange, AdmitHeld DEF KeepAndAdmit
  <2> QED BY <1>2, <2>1, <2>2, <2>3, <2>4, <2>5, JobsHeldAlone, KeepForJobHeld, SettleHeld
          DEF HookStep
<1>3. ASSUME NEW w \in Workers, WorkerStep(w) PROVE TheirJobs /\ DueWhileMeasured'
  <2>1. ASSUME NEW retryFailed \in BOOLEAN, RunStart(w, retryFailed) PROVE UNCHANGED job
    BY <2>1 DEF RunStart, queueVars
  <2>2. CASE \/ ReadKept(w) \/ CoreFails(w) \/ CoreMeasures(w) \/ CorrelateFails(w)
             \/ Correlate(w) \/ QueueReceipt(w) \/ RunEnds(w)
    BY <2>2, JobsHeldAlone
       DEF ReadKept, CoreFails, CoreMeasures, CorrelateFails, Correlate, QueueReceipt,
           RunEnds, queueVars
  <2> QED BY <1>3, <2>1, <2>2, JobsHeldAlone, TakeHeld, ApplyHeld DEF WorkerStep
<1>4. CASE \E c \in Changes : BackoffExpires(c)
  BY <1>4, BackoffExpiresHeld
<1>5. CASE UNCHANGED vars
  BY <1>5, JobsHeldAlone DEF vars, queueVars
<1>6. CASE Reset
  BY <1>6, ResetHeld
<1> QED BY <1>1, <1>2, <1>3, <1>4, <1>5, <1>6 DEF Next

\* While a worker measures outside the queue lock, no hook, command, backoff or
\* other worker changes its job on file: it finds the job as it left it
\* (processNextJob, settleWithManualAssurance, keepNativeMeasurement, reset).
THEOREM TheWorkerEndsItsJob == Spec => OnlyTheWorkerEndsIt
<1>1. Init => DueWhileMeasured
  BY DEF Init, DueWhileMeasured, NoJob
<1>2. TypeInv /\ DueWhileMeasured /\ [Next]_vars => DueWhileMeasured'
  BY NextHeld
<1>3. TypeInv /\ DueWhileMeasured /\ [Next]_vars => [TheirJobs]_vars
  BY NextHeld
<1>4. TheirJobs <=> \A w \in Workers :
                      worker[w].change # None /\ worker'[w] = worker[w]
                        => job'[worker[w].change] = job[worker[w].change]
  BY DEF TheirJobs
<1> QED BY <1>1, <1>2, <1>3, <1>4, TypeInvariant, PTL
        DEF Spec, OnlyTheWorkerEndsIt
=============================================================================
