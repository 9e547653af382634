--------------------------- MODULE Settings_proofs ---------------------------
(***************************************************************************)
(* Proofs about the parts of one project that MCProject checks under more  *)
(* than one setting, each for every value of its constants: the delivery   *)
(* queue of the Portal (extended), then the others as instances.           *)
(***************************************************************************)
EXTENDS PortalQueue, Subsequences_proofs

CONSTANTS Hooks, Acts, Profiles, Parallel, RecorderFails, StateFails, MaxUses, MaxGrants,
          MaxCalls, Sessions, Trees, Missing, Unavailable, MaxHistory, MaxCompleted,
          MaxSessions, MaxPrompts, Creds, Attempts, MaxResets, MaxWrites, ByFile, Busy,
          Turns, People, Tools, Digests, NoDigest, NoFile, Torn, Limit, MaxRuns, Made,
          OneByOne, Crashes, Shapes, MaxEvents, MaxItems, PageBytes, Lists, Memories,
          Touched, RowLimits, Portable, MaxFiles, RowPaths, RestSizes, Told, MaxWarnings,
          SnapshotBytes
VARIABLES profile, approvals, live, granter, hook, calls, grants, given, ran, regained, tree,
          session, recent, owner, named, saved, memoryLock, deleting, configures, resets, writes,
          latest, receipt, key, public, identity, pairs, store, attestation, bundle, phase,
          local, invoked, crashes, consent, entries, low, high, page, building, input, rows,
          warnings, summary, step

\* policy.mjs
Gate == INSTANCE ToolGate
\* hook.mjs, task.mjs, change-identity.mjs
Tasks == INSTANCE SessionTasks
\* portal configure, portal disconnect, reset
Enrollment == INSTANCE PortalEnrollment WITH
  identity <- named, config <- saved, lock <- memoryLock, proc <- configures
\* identity, acceptances, attestation and evidence
Attest == INSTANCE Attestation WITH
  Hooks <- Turns, Times <- MaxRuns, Alone <- OneByOne, pc <- phase, calls <- invoked
\* the building of a page of the journal
Composer == INSTANCE MemoryPage WITH
  MaxBytes <- PageBytes, events <- entries, pc <- building
\* the building of a snapshot
Snapshot == INSTANCE PortalSnapshot WITH
  Limit <- RowLimits, Rests <- RestSizes, MaxBytes <- SnapshotBytes

-----------------------------------------------------------------------------
(* The delivery queue: snapshots that wait, are sent, acknowledged or given up *)

-----------------------------------------------------------------------------
(* Lists *)

DistinctIds(s) == \A i, k \in DOMAIN s : s[i].id = s[k].id => i = k

LEMMA InsideKeeps ==
  ASSUME NEW s, NEW t, Inside(t, s)
  PROVE  /\ Elements(t) \subseteq Elements(s) /\ Ids(t) \subseteq Ids(s)
         /\ Distinct(s) => Distinct(t)
         /\ DistinctIds(s) => DistinctIds(t)
<1>1. PICK place \in [DOMAIN t -> DOMAIN s] :
        /\ \A k \in DOMAIN t : t[k] = s[place[k]]
        /\ \A j, k \in DOMAIN t : place[j] = place[k] => j = k
  BY DEF Inside
<1>2. \A k \in DOMAIN t : place[k] \in DOMAIN s
  BY <1>1
<1>3. Elements(t) \subseteq Elements(s) /\ Ids(t) \subseteq Ids(s)
  BY <1>1, <1>2 DEF Elements, Ids
<1>4. Distinct(s) => Distinct(t)
  BY <1>1, <1>2 DEF Distinct
<1>5. DistinctIds(s) => DistinctIds(t)
  BY <1>1, <1>2 DEF DistinctIds
<1> QED BY <1>3, <1>4, <1>5

LEMMA LastInside ==
  ASSUME NEW S, NEW s \in Seq(S), NEW n \in Nat
  PROVE  /\ Last(s, n) \in Seq(S) /\ Len(Last(s, n)) <= n /\ Inside(Last(s, n), s)
         /\ Len(s) <= n => Last(s, n) = s
<1>1. Len(s) \in Nat /\ DOMAIN s = 1 .. Len(s) /\ \A k \in 1 .. Len(s) : s[k] \in S
  BY ElementOfSeq
<1>2. CASE Len(s) <= n
  <2>1. Last(s, n) = s
    BY <1>1, <1>2 DEF Last
  <2> DEFINE place == [k \in DOMAIN s |-> k]
  <2>2. place \in [DOMAIN s -> DOMAIN s] /\ \A k \in DOMAIN s : place[k] = k
    OBVIOUS
  <2> HIDE DEF place
  <2>3. Inside(s, s)
    BY <2>2 DEF Inside
  <2> QED BY <1>1, <1>2, <2>1, <2>3
<1>3. CASE Len(s) > n
  <2> DEFINE m == Len(s) - n
             t == SubSeq(s, m + 1, Len(s))
             place == [k \in 1 .. n |-> k + m]
  <2>1. m \in Nat /\ m + n = Len(s) /\ Last(s, n) = t
    BY <1>1, <1>3 DEF Last
  <2>2. \A k \in (m + 1) .. Len(s) : s[k] \in S
    BY <1>1, <2>1
  <2> HIDE DEF m
  <2>3. /\ t \in Seq(S) /\ Len(t) = n
        /\ \A k \in 1 .. n : t[k] = s[k + m]
    <3>1. /\ t \in Seq(S)
          /\ Len(t) = IF m + 1 <= Len(s) THEN Len(s) - (m + 1) + 1 ELSE 0
          /\ \A k \in 1 .. Len(s) - (m + 1) + 1 : t[k] = s[(m + 1) + k - 1]
      BY <1>1, <2>1, <2>2, SubSeqProperties
    <3>2. Len(s) - (m + 1) + 1 = n
      <4>1. Len(s) \in Nat
        OBVIOUS
      <4> QED BY <2>1, <4>1
    <3>3. Len(t) = n
      <4>1. CASE m + 1 <= Len(s)
        BY <3>1, <3>2, <4>1
      <4>2. CASE ~(m + 1 <= Len(s))
        BY <1>1, <2>1, <3>1, <4>2
      <4> QED BY <4>1, <4>2
    <3>4. \A k \in 1 .. n : (m + 1) + k - 1 = k + m
      BY <2>1
    <3> QED BY <3>1, <3>2, <3>3, <3>4
  <2> HIDE DEF t
  <2>4. DOMAIN t = 1 .. n
    BY <2>3
  <2>5. place \in [1 .. n -> 1 .. Len(s)] /\ \A k \in 1 .. n : place[k] = k + m
    BY <1>1, <2>1
  <2> HIDE DEF place
  <2>6. \A j, k \in 1 .. n : place[j] = place[k] => j = k
    BY <2>1, <2>5
  <2>7. Inside(t, s)
    BY <1>1, <2>3, <2>4, <2>5, <2>6 DEF Inside
  <2> QED BY <1>1, <1>3, <2>1, <2>3, <2>7
<1> QED BY <1>1, <1>2, <1>3

LEMMA AppendIds ==
  ASSUME NEW S, NEW s \in Seq(S), NEW e \in S
  PROVE  /\ Ids(Append(s, e)) = Ids(s) \cup {e.id}
         /\ DistinctIds(s) /\ e.id \notin Ids(s) => DistinctIds(Append(s, e))
<1> DEFINE t == Append(s, e)
<1>1. /\ Len(s) \in Nat /\ DOMAIN s = 1 .. Len(s) /\ DOMAIN t = 1 .. (Len(s) + 1)
      /\ t[Len(s) + 1] = e /\ \A k \in 1 .. Len(s) : t[k] = s[k]
  OBVIOUS
<1> HIDE DEF t
<1>2. \A k \in DOMAIN t : k = Len(s) + 1 \/ (k \in DOMAIN s /\ t[k] = s[k])
  BY <1>1
<1>3. \A k \in DOMAIN s : k \in DOMAIN t /\ k # Len(s) + 1
  BY <1>1
<1>4. Len(s) + 1 \in DOMAIN t
  BY <1>1
<1>5. \A x : x \in Ids(t) <=> x \in Ids(s) \cup {e.id}
  BY <1>1, <1>2, <1>3, <1>4 DEF Ids
<1>6. DistinctIds(s) /\ e.id \notin Ids(s) => DistinctIds(t)
  BY <1>1, <1>2 DEF DistinctIds, Ids
<1> QED BY <1>5, <1>6 DEF t

\* A list whose ids differ has as many ids as entries.
LEMMA CountIds ==
  ASSUME NEW S, NEW s \in Seq(S), DistinctIds(s)
  PROVE  IsFiniteSet(Ids(s)) /\ Cardinality(Ids(s)) = Len(s)
<1> DEFINE f == [i \in 1 .. Len(s) |-> s[i].id]
<1>1. Len(s) \in Nat /\ DOMAIN s = 1 .. Len(s)
  OBVIOUS
<1>2. IsFiniteSet(1 .. Len(s)) /\ Cardinality(1 .. Len(s)) = Len(s)
  BY <1>1, FS_Interval
<1>3. f \in Surjection(1 .. Len(s), Ids(s))
  BY <1>1 DEF Surjection, Ids
<1>4. f \in Injection(1 .. Len(s), Ids(s))
  BY <1>1 DEF Injection, IsInjective, Ids, DistinctIds
<1> HIDE DEF f
<1> QED BY <1>2, <1>3, <1>4, FS_Surjection

-----------------------------------------------------------------------------
(* The files *)

LEMMA FirstBodySound ==
  ASSUME times \in Seq(Item), NEW item \in Item
  PROVE  FirstBody(item) \in Item /\ FirstBody(item).id = item.id
<1>1. CASE item.id \in Ids(times)
  <2>1. PICK i \in DOMAIN times : times[i].id = item.id
    BY <1>1 DEF Ids
  <2> DEFINE k == CHOOSE j \in DOMAIN times : times[j].id = item.id
  <2>2. k \in DOMAIN times /\ times[k].id = item.id
    BY <2>1
  <2> HIDE DEF k
  <2>3. times[k] \in Item
    BY <2>2
  <2>4. FirstBody(item) = times[k]
    BY <1>1 DEF FirstBody, Of, k
  <2> QED BY <2>2, <2>3, <2>4
<1>2. CASE item.id \notin Ids(times)
  BY <1>2 DEF FirstBody
<1> QED BY <1>1, <1>2

LEMMA OfQueue ==
  ASSUME queue \in Seq(Item), NEW id \in Ids(queue)
  PROVE  Of(queue, id) \in Item /\ Of(queue, id) \in Elements(queue) /\ Of(queue, id).id = id
<1>1. PICK i \in DOMAIN queue : queue[i].id = id
  BY DEF Ids
<1> DEFINE k == CHOOSE j \in DOMAIN queue : queue[j].id = id
<1>2. k \in DOMAIN queue /\ queue[k].id = id
  BY <1>1
<1> HIDE DEF k
<1>3. queue[k] \in Item
  BY <1>2
<1>4. Of(queue, id) = queue[k]
  BY DEF Of, k
<1> QED BY <1>2, <1>3, <1>4 DEF Elements

\* Recording a time keeps the list's type, bound and distinct ids.
TimesSound(s) == s \in Seq(Item) /\ Len(s) <= MaxTimes /\ DistinctIds(s)

LEMMA RememberSound ==
  ASSUME QueueAssumption, TimesSound(times), NEW item \in Item
  PROVE  TimesSound(Remember(item))
<1>1. CASE item.id \in Ids(times)
  BY <1>1 DEF Remember
<1>2. CASE item.id \notin Ids(times)
  <2> DEFINE t == Append(times, item)
  <2>1. t \in Seq(Item) /\ DistinctIds(t)
    BY <1>2, AppendElements, AppendIds DEF TimesSound
  <2>2. MaxTimes \in Nat
    BY DEF QueueAssumption
  <2>3. Remember(item) = Last(t, MaxTimes)
    BY <1>2 DEF Remember
  <2> HIDE DEF t
  <2>4. /\ Last(t, MaxTimes) \in Seq(Item) /\ Len(Last(t, MaxTimes)) <= MaxTimes
        /\ Inside(Last(t, MaxTimes), t)
    BY <2>1, <2>2, LastInside
  <2> QED BY <2>1, <2>3, <2>4, InsideKeeps DEF TimesSound
<1> QED BY <1>1, <1>2

LEMMA ForgetSound ==
  ASSUME QueueAssumption, TimesSound(times), NEW item \in Item
  PROVE  TimesSound(Forget(item))
<1> DEFINE I == {i \in DOMAIN times : times[i] # item}
<1>1. I \in SUBSET DOMAIN times
  OBVIOUS
<1>2. Forget(item) = Sub(times, I)
  BY DEF Forget
<1> HIDE DEF I
<1>3. Sub(times, I) \in Seq(Item) /\ Len(Sub(times, I)) <= Len(times) /\ Inside(Sub(times, I), times)
  BY <1>1, SubInside DEF TimesSound
<1>4. Len(times) \in Nat /\ Len(Sub(times, I)) \in Nat /\ MaxTimes \in Nat
  BY <1>3 DEF TimesSound, QueueAssumption
<1>5. Len(Sub(times, I)) <= MaxTimes
  BY <1>3, <1>4 DEF TimesSound
<1> QED BY <1>2, <1>3, <1>5, InsideKeeps DEF TimesSound

\* Marking keeps the marks' type, bound and distinctness, and adds one mark only.
HeldSound(s) == s \in Seq([dest : Dests, id : Snaps]) /\ Len(s) <= MaxHeld /\ Distinct(s)

LEMMA MarkHeldSound ==
  ASSUME QueueAssumption, HeldSound(held), NEW d \in Dests, NEW id \in Snaps
  PROVE  /\ HeldSound(MarkHeld(d, id))
         /\ Elements(MarkHeld(d, id)) \subseteq Elements(held) \cup {[dest |-> d, id |-> id]}
<1> DEFINE entry == [dest |-> d, id |-> id]
           I == {i \in DOMAIN held : held[i] # entry}
           s == Sub(held, I)
           t == Append(s, entry)
           Marks == [dest : Dests, id : Snaps]
<1>1. entry \in Marks /\ I \in SUBSET DOMAIN held /\ held \in Seq(Marks)
  BY DEF HeldSound
<1>2. \A i \in I : held[i] # entry
  OBVIOUS
<1>3. MarkHeld(d, id) = Last(t, MaxHeld)
  BY DEF MarkHeld
<1>a. MaxHeld \in Nat
  BY DEF QueueAssumption
<1> HIDE DEF I, Marks, entry
<1>4. s \in Seq(Marks) /\ Inside(s, held) /\ \A e \in Elements(s) : \E i \in I : e = held[i]
  BY <1>1, SubInside
<1> HIDE DEF s
<1>5. Distinct(s) /\ Elements(s) \subseteq Elements(held) /\ entry \notin Elements(s)
  BY <1>2, <1>4, InsideKeeps DEF HeldSound
<1>6. t \in Seq(Marks) /\ Distinct(t) /\ Elements(t) = Elements(s) \cup {entry}
  BY <1>1, <1>4, <1>5, AppendElements, AppendIds
<1> HIDE DEF t
<1>7. /\ Last(t, MaxHeld) \in Seq(Marks) /\ Len(Last(t, MaxHeld)) <= MaxHeld
      /\ Inside(Last(t, MaxHeld), t)
  BY <1>a, <1>6, LastInside
<1>8. Distinct(Last(t, MaxHeld)) /\ Elements(Last(t, MaxHeld)) \subseteq Elements(t)
  BY <1>6, <1>7, InsideKeeps
<1> QED BY <1>3, <1>5, <1>6, <1>7, <1>8 DEF HeldSound, Marks, entry

-----------------------------------------------------------------------------
(* The invariant: what a process has in hand is waiting or was received *)

Flushing == {"posting", "answered", "removing"}
There(d, s) == portal[d][s] # 0
Somewhere(s) == \E d \in Dests : There(d, s)

\* What holds of the state r of a process.
Sound(r) ==
  /\ r.pc = "queueing" => r.item \in Item /\ r.cfg \in Dests
  /\ r.pc \in Flushing => r.left # <<>> /\ r.cfg \in Dests
  /\ r.pc = "succeeding" => r.cfg \in Dests
  /\ r.pc = "answered" => r.answer \in Answers
  /\ \A e \in Elements(r.left) : e.id \in Ids(queue) \/ Somewhere(e.id)
  /\ r.pc = "answered" /\ r.answer \in {"ack", "conflict"} => There(r.cfg, Head(r.left).id)
  /\ r.pc = "removing" => There(r.cfg, Head(r.left).id)

\* The parts of the state a process neither reads nor writes alone.
FilesOK ==
  /\ config \in Dests \cup {None}
  /\ queue \in Seq(Item) /\ Len(queue) <= MaxQueue /\ DistinctIds(queue)
  /\ TimesSound(times)
  /\ HeldSound(held)
  /\ health \in [degraded : BOOLEAN, error : BOOLEAN]
  /\ clock \in Time
  /\ portal \in [Dests -> [Snaps -> 0..MaxClock]]
  /\ lost \subseteq Snaps
  /\ \A e \in Elements(held) : There(e.dest, e.id)
  /\ lost # {} => health.degraded

ProcsOK == proc \in [Procs -> ProcState] /\ \A p \in Procs : Sound(proc[p])

PInv == FilesOK /\ ProcsOK

\* What the Portal holds it keeps, and what leaves the queue it holds.
NothingLost ==
  /\ \A d \in Dests, s \in Snaps : There(d, s) => There(d, s)'
  /\ \A s \in Snaps : s \in Ids(queue) => s \in Ids(queue') \/ Somewhere(s)'

LEMMA HeadTail ==
  ASSUME NEW s \in Seq(Item), s # <<>>
  PROVE  /\ Head(s) \in Item /\ Head(s) \in Elements(s)
         /\ Tail(s) \in Seq(Item) /\ Elements(Tail(s)) \subseteq Elements(s)
         /\ Len(s) # 1 => Tail(s) # <<>>
<1>1. Len(s) \in Nat /\ Len(s) > 0 /\ DOMAIN s = 1 .. Len(s) /\ Head(s) = s[1]
  OBVIOUS
<1>2. /\ Tail(s) \in Seq(Item) /\ Len(Tail(s)) = Len(s) - 1
      /\ \A k \in 1 .. Len(s) - 1 : Tail(s)[k] = s[k + 1]
  BY <1>1
<1>3. DOMAIN Tail(s) = 1 .. Len(s) - 1
  BY <1>2
<1>4. \A k \in 1 .. Len(s) - 1 : k + 1 \in 1 .. Len(s)
  BY <1>1
<1>5. Elements(Tail(s)) \subseteq Elements(s)
  BY <1>1, <1>2, <1>3, <1>4 DEF Elements
<1>6. 1 \in DOMAIN s
  BY <1>1
<1>7. Head(s) \in Item /\ Head(s) \in Elements(s)
  BY <1>1, <1>6 DEF Elements
<1>8. Len(s) # 1 => Tail(s) # <<>>
  <2> DEFINE n == Len(s) - 1
  <2>1. Len(s) # 1 => 1 \in 1 .. n
    BY <1>1
  <2>2. DOMAIN Tail(s) = 1 .. n
    BY <1>3
  <2>3. DOMAIN <<>> = {}
    OBVIOUS
  <2> HIDE DEF n
  <2>4. Tail(s) = <<>> => 1 .. n = {}
    BY <2>2, <2>3
  <2> QED BY <2>1, <2>4
<1> QED BY <1>2, <1>5, <1>7, <1>8

LEMMA Empty == Elements(<<>>) = {} /\ Ids(<<>>) = {}
BY DEF Elements, Ids

LEMMA Typed ==
  ASSUME NEW s \in Seq(Item)
  PROVE  /\ Elements(s) \subseteq Item /\ Ids(s) \subseteq Snaps
         /\ \A e \in Elements(s) : e.id \in Ids(s)
         /\ \A i \in Ids(s) : \E e \in Elements(s) : e.id = i
<1>1. \A i \in DOMAIN s : s[i] \in Item
  OBVIOUS
<1>2. \A e \in Item : e.id \in Snaps
  BY DEF Item
<1> QED BY <1>1, <1>2 DEF Elements, Ids

LEMMA StaysSound ==
  ASSUME NothingLost, NEW r \in ProcState, Sound(r)
  PROVE  Sound(r)'
<1>1. r.left \in Seq(Item) /\ r.cfg \in Dests \cup {None}
  BY DEF ProcState
<1>2. \A e \in Elements(r.left) : e.id \in Snaps
  BY <1>1, Typed DEF Item
<1>3. \A e \in Elements(r.left) : e.id \in Ids(queue') \/ Somewhere(e.id)'
  BY <1>2 DEF Sound, NothingLost, Somewhere
<1>4. r.pc \in Flushing => Head(r.left).id \in Snaps /\ r.cfg \in Dests
  BY <1>1, <1>2, HeadTail DEF Sound
<1>5. /\ r.pc = "answered" /\ r.answer \in {"ack", "conflict"} => There(r.cfg, Head(r.left).id)'
      /\ r.pc = "removing" => There(r.cfg, Head(r.left).id)'
  BY <1>4 DEF Sound, NothingLost, Flushing
<1> QED BY <1>3, <1>5 DEF Sound

\* One process moves to the state R: the others stay sound.
LEMMA OneMoves ==
  ASSUME ProcsOK, NothingLost, NEW p \in Procs, NEW R \in ProcState,
         proc' = [proc EXCEPT ![p] = R], Sound(R)'
  PROVE  ProcsOK'
<1>1. proc' \in [Procs -> ProcState]
  BY DEF ProcsOK
<1>2. ASSUME NEW q \in Procs PROVE Sound(proc[q])'
  <2>1. proc[q] \in ProcState /\ Sound(proc[q])
    BY DEF ProcsOK
  <2>2. PICK r \in ProcState : r = IF q = p THEN R ELSE proc[q]
    BY <2>1
  <2>3. Sound(r)'
    BY <2>1, <2>2, StaysSound
  <2>4. proc'[q] = r
    BY <2>2 DEF ProcsOK
  <2> QED BY <2>3, <2>4 DEF Sound
<1> QED BY <1>1, <1>2 DEF ProcsOK

\* The process p waits for nothing of the Portal: it ended, or starts or returns.
Rests(p) ==
  \E R \in ProcState :
    /\ proc' = [proc EXCEPT ![p] = R]
    /\ R.pc \in {"idle", "starting", "reading", "returned"}
    /\ R.left \in {<<>>, proc[p].left}

LEMMA RestsSound ==
  ASSUME ProcsOK, NothingLost, NEW p \in Procs, Rests(p)
  PROVE  ProcsOK'
<1>1. PICK R \in ProcState :
        /\ proc' = [proc EXCEPT ![p] = R]
        /\ R.pc \in {"idle", "starting", "reading", "returned"}
        /\ R.left \in {<<>>, proc[p].left}
  BY DEF Rests
<1>2. PICK r \in ProcState : r = proc[p] /\ Sound(r)
  BY DEF ProcsOK
<1>3. Sound(r)'
  BY <1>2, StaysSound
<1>4. \A e \in Elements(R.left) : e.id \in Ids(queue') \/ Somewhere(e.id)'
  <2>1. R.left = <<>> \/ R.left = r.left
    BY <1>1, <1>2
  <2>2. \A e \in Elements(r.left) : e.id \in Ids(queue') \/ Somewhere(e.id)'
    BY <1>3 DEF Sound
  <2> QED BY <2>1, <2>2, Empty
<1>5. Sound(R)'
  BY <1>1, <1>4 DEF Sound, Flushing
<1> QED BY <1>1, <1>5, OneMoves

LEMMA FreshTyped == Fresh \in ProcState /\ Fresh.pc = "idle" /\ Fresh.left = <<>>
<1>1. <<>> \in Seq(Item)
  OBVIOUS
<1> QED BY <1>1 DEF Fresh, ProcState

LEMMA ProcFields ==
  ASSUME NEW r \in ProcState
  PROVE  /\ r.pc \in {"idle", "queueing", "starting", "reading", "posting", "answered",
                      "removing", "succeeding", "returned"}
         /\ r.kind \in Kinds \cup {None} /\ r.cfg \in Dests \cup {None}
         /\ r.item \in Item \cup {None} /\ r.reason \in Reasons \cup {None}
         /\ r.left \in Seq(Item) /\ r.answer \in Answers \cup {None} /\ r.ok \in BOOLEAN
BY DEF ProcState

LEMMA StartTyped ==
  ASSUME NEW r \in ProcState, NEW c \in Dests \cup {None}
  PROVE  [r EXCEPT !.pc = "reading", !.cfg = c,
                   !.kind = IF r.kind = None THEN "flush" ELSE r.kind] \in ProcState
<1>1. PICK k \in Kinds \cup {None} : k = IF r.kind = None THEN "flush" ELSE r.kind
  BY ProcFields DEF Kinds
<1>2. [r EXCEPT !.pc = "reading", !.cfg = c, !.kind = k] \in ProcState
  BY DEF ProcState
<1> QED BY <1>1, <1>2

LEMMA FreshRests ==
  ASSUME ProcsOK, NEW p \in Procs, proc' = [proc EXCEPT ![p] = Fresh]
  PROVE  Rests(p)
BY FreshTyped DEF Rests

LEMMA QueuedRests ==
  ASSUME ProcsOK, NEW p \in Procs, NEW reason \in Reasons, Queued(p, reason)
  PROVE  Rests(p)
<1> DEFINE r == proc[p]
           R == [r EXCEPT !.pc = "starting", !.cfg = None, !.reason = reason]
<1>1. r \in ProcState
  BY DEF ProcsOK
<1>2. CASE r.kind = "sync"
  <2>1. proc' = [proc EXCEPT ![p] = R]
    BY <1>2 DEF Queued
  <2>2. R \in ProcState /\ R.pc = "starting" /\ R.left = r.left
    BY <1>1 DEF ProcState
  <2> HIDE DEF R
  <2> QED BY <2>1, <2>2 DEF Rests
<1>3. CASE r.kind # "sync"
  <2>1. proc' = [proc EXCEPT ![p] = Fresh]
    BY <1>3 DEF Queued
  <2> QED BY <2>1, FreshRests
<1> QED BY <1>2, <1>3

LEMMA EndsRests ==
  ASSUME ProcsOK, NEW p \in Procs, NEW ok \in BOOLEAN, Ends(p, ok)
  PROVE  Rests(p)
<1> DEFINE r == proc[p]
           R == [r EXCEPT !.pc = "returned", !.ok = ok /\ r.reason # "queue-full",
                          !.left = <<>>, !.answer = None]
<1>1. r \in ProcState
  BY DEF ProcsOK
<1>2. CASE r.kind = "sync"
  <2>1. proc' = [proc EXCEPT ![p] = R]
    BY <1>2 DEF Ends
  <2>2. <<>> \in Seq(Item) /\ (ok /\ r.reason # "queue-full") \in BOOLEAN
    OBVIOUS
  <2>3. R \in ProcState /\ R.pc = "returned" /\ R.left = <<>>
    BY <1>1, <2>2 DEF ProcState
  <2> HIDE DEF R
  <2> QED BY <2>1, <2>3 DEF Rests
<1>3. CASE r.kind # "sync"
  <2>1. proc' = [proc EXCEPT ![p] = Fresh]
    BY <1>3 DEF Ends
  <2> QED BY <2>1, FreshRests
<1> QED BY <1>2, <1>3

LEMMA Alone ==
  ASSUME UNCHANGED <<queue, portal>>
  PROVE  NothingLost
BY DEF NothingLost, There

-----------------------------------------------------------------------------
(* Every step keeps the invariant *)

LEMMA BuildSound ==
  ASSUME QueueAssumption, PInv, NEW p \in Procs,
         NEW kind \in {"hook", "sync", "retained"}, NEW s \in Snaps, Build(p, kind, s)
  PROVE  PInv'
<1> DEFINE R == [Fresh EXCEPT !.pc = "queueing", !.kind = kind, !.cfg = config, !.item = Built(s)]
<1>1. Built(s) \in Item /\ config \in Dests /\ kind \in Kinds
  BY DEF Build, Built, PInv, FilesOK, Item, Time, Kinds
<1>2. R \in ProcState /\ R.pc = "queueing" /\ R.item \in Item /\ R.cfg \in Dests /\ R.left = <<>>
  BY <1>1, FreshTyped DEF ProcState, Fresh
<1>3. proc' = [proc EXCEPT ![p] = R]
  BY DEF Build
<1> HIDE DEF R
<1>4. PICK r \in ProcState : r = R
  BY <1>2
<1>5. Sound(r)'
  BY <1>2, <1>4, Empty DEF Sound, Flushing
<1>6. UNCHANGED <<config, queue, times, held, health, portal, lost>>
  BY DEF Build, files
<1>7. ProcsOK'
  BY <1>3, <1>4, <1>5, <1>6, Alone, OneMoves DEF PInv
<1>8. clock' \in Time
  BY DEF Build, PInv, FilesOK, Time, QueueAssumption
<1>9. FilesOK'
  BY <1>6, <1>8 DEF PInv, FilesOK, There, TimesSound, HeldSound
<1> QED BY <1>7, <1>9 DEF PInv

\* A step of one process that leaves the files alone.
LEMMA RestsAlone ==
  ASSUME PInv, NEW p \in Procs, Rests(p), UNCHANGED <<config, files, clock, portal, lost>>
  PROVE  PInv'
<1>1. UNCHANGED <<config, queue, times, held, health, clock, portal, lost>>
  BY DEF files
<1>2. ProcsOK'
  BY <1>1, Alone, RestsSound DEF PInv
<1>3. FilesOK'
  BY <1>1 DEF PInv, FilesOK, There, TimesSound, HeldSound
<1> QED BY <1>2, <1>3 DEF PInv

LEMMA NotConfiguredSound ==
  ASSUME PInv, NEW p \in Procs, NotConfigured(p)
  PROVE  PInv'
<1> DEFINE R == [Fresh EXCEPT !.pc = "starting", !.kind = "sync", !.reason = "not-configured"]
<1>1. R \in ProcState /\ R.pc = "starting" /\ R.left = <<>>
  BY FreshTyped DEF ProcState, Fresh, Kinds, Reasons
<1>2. proc' = [proc EXCEPT ![p] = R] /\ UNCHANGED <<config, files, clock, portal, lost>>
  BY DEF NotConfigured
<1> HIDE DEF R
<1>3. Rests(p)
  BY <1>1, <1>2 DEF Rests
<1> QED BY <1>2, <1>3, RestsAlone

LEMMA StartFlushSound ==
  ASSUME PInv, NEW p \in Procs, StartFlush(p)
  PROVE  PInv'
<1> DEFINE r == proc[p]
           R == [r EXCEPT !.pc = "reading", !.cfg = config, !.kind = IF r.kind = None THEN "flush" ELSE r.kind]
<1>1. r \in ProcState /\ config \in Dests \cup {None}
  BY DEF PInv, ProcsOK, FilesOK
<1>2. R \in ProcState /\ R.pc = "reading" /\ R.left = r.left
  BY <1>1 DEF ProcState, Kinds
<1>3. proc' = [proc EXCEPT ![p] = R] /\ UNCHANGED <<config, files, clock, portal, lost>>
  BY DEF StartFlush
<1> HIDE DEF R
<1>4. Rests(p)
  BY <1>2, <1>3 DEF Rests
<1> QED BY <1>3, <1>4, RestsAlone

\* Steps that end, or start again, and change no file.
LEMMA QuietSound ==
  ASSUME PInv, NEW p \in Procs, RefuseHeld(p) \/ NotEnrolled(p) \/ Return(p) \/ Stops(p)
  PROVE  PInv'
<1>1. ProcsOK
  BY DEF PInv
<1>2. CASE RefuseHeld(p)
  BY <1>1, <1>2, QueuedRests, RestsAlone DEF RefuseHeld, Reasons
<1>3. CASE NotEnrolled(p)
  BY <1>1, <1>3, EndsRests, RestsAlone DEF NotEnrolled
<1>4. CASE Return(p)
  BY <1>1, <1>4, FreshRests, RestsAlone DEF Return
<1>5. CASE Stops(p)
  BY <1>1, <1>5, FreshRests, RestsAlone DEF Stops
<1> QED BY <1>2, <1>3, <1>4, <1>5

LEMMA RefuseDuplicateSound ==
  ASSUME QueueAssumption, PInv, NEW p \in Procs, RefuseDuplicate(p)
  PROVE  PInv'
<1>1. ProcsOK /\ TimesSound(times) /\ queue \in Seq(Item)
  BY DEF PInv, FilesOK
<1>2. TimesSound(times')
  <2>1. Of(queue, proc[p].item.id) \in Item
    BY <1>1, OfQueue DEF RefuseDuplicate
  <2> QED BY <1>1, <2>1, RememberSound DEF RefuseDuplicate
<1>3. UNCHANGED <<config, queue, held, health, clock, portal, lost>>
  BY DEF RefuseDuplicate
<1>4. Rests(p)
  BY <1>1, QueuedRests DEF RefuseDuplicate, Reasons
<1>5. ProcsOK'
  BY <1>1, <1>3, <1>4, Alone, RestsSound
<1>6. FilesOK'
  BY <1>2, <1>3 DEF PInv, FilesOK, There, HeldSound
<1> QED BY <1>5, <1>6 DEF PInv

LEMMA RefuseFullSound ==
  ASSUME PInv, NEW p \in Procs, RefuseFull(p)
  PROVE  PInv'
<1>1. ProcsOK
  BY DEF PInv
<1>2. UNCHANGED <<config, queue, times, held, clock, portal>>
  BY DEF RefuseFull
<1>3. Rests(p)
  BY <1>1, QueuedRests DEF RefuseFull, Reasons
<1>4. ProcsOK'
  BY <1>1, <1>2, <1>3, Alone, RestsSound
<1>5. /\ health' \in [degraded : BOOLEAN, error : BOOLEAN] /\ lost' \subseteq Snaps
      /\ lost' # {} => health'.degraded
  <2>1. proc[p].item.id \in Snaps
    <3>1. proc[p].item \in Item
      BY DEF RefuseFull, PInv, ProcsOK, Sound
    <3> QED BY <3>1 DEF Item
  <2>2. CASE proc[p].kind = "retained"
    BY <2>2 DEF RefuseFull, PInv, FilesOK
  <2>3. CASE proc[p].kind # "retained"
    <3>1. health' = [degraded |-> TRUE, error |-> TRUE] /\ lost' = lost \cup {proc[p].item.id}
      BY <2>3 DEF RefuseFull
    <3>2. lost \subseteq Snaps
      BY DEF PInv, FilesOK
    <3> QED BY <2>1, <3>1, <3>2
  <2> QED BY <2>2, <2>3
<1>6. FilesOK'
  BY <1>2, <1>5 DEF PInv, FilesOK, There, TimesSound, HeldSound
<1> QED BY <1>4, <1>6 DEF PInv

LEMMA AcceptSound ==
  ASSUME QueueAssumption, PInv, NEW p \in Procs, Accept(p)
  PROVE  /\ PInv'
         /\ proc[p].item.id \in Snaps /\ Ids(queue') = Ids(queue) \cup {proc[p].item.id}
<1> DEFINE item == proc[p].item
           body == FirstBody(item)
<1>1. ProcsOK /\ TimesSound(times) /\ queue \in Seq(Item) /\ times \in Seq(Item)
  BY DEF PInv, FilesOK, TimesSound
<1>2. item \in Item
  BY DEF Accept, Accepts, PInv, ProcsOK, Sound
<1>3. UNCHANGED <<config, held, health, clock, portal, lost>>
  BY DEF Accept
<1>4. TimesSound(times')
  BY <1>1, <1>2, RememberSound DEF Accept
<1>5. body \in Item /\ body.id = item.id
  BY <1>1, <1>2, FirstBodySound
<1>6. item.id \in Snaps /\ item.id \notin Ids(queue) /\ Len(queue) < MaxQueue /\ queue' = Append(queue, body)
  BY <1>2 DEF Accept, Accepts, Item
<1> HIDE DEF body, item
<1>7. /\ queue' \in Seq(Item) /\ Len(queue') = Len(queue) + 1 /\ Ids(queue') = Ids(queue) \cup {item.id}
      /\ DistinctIds(queue')
  BY <1>1, <1>5, <1>6, AppendElements, AppendIds DEF PInv, FilesOK
<1>8. Len(queue') <= MaxQueue
  BY <1>1, <1>6, <1>7 DEF QueueAssumption
<1>9. NothingLost
  BY <1>3, <1>7 DEF NothingLost, There
<1>10. Rests(p)
  BY <1>1, QueuedRests DEF Accept, Reasons
<1>11. ProcsOK'
  BY <1>1, <1>9, <1>10, RestsSound
<1>12. FilesOK'
  BY <1>3, <1>4, <1>7, <1>8 DEF PInv, FilesOK, There, HeldSound
<1> QED BY <1>6, <1>7, <1>11, <1>12 DEF PInv, item

LEMMA CommitInterruptedSound ==
  ASSUME QueueAssumption, PInv, NEW p \in Procs, CommitInterrupted(p)
  PROVE  PInv'
<1>1. ProcsOK /\ TimesSound(times)
  BY DEF PInv, FilesOK
<1>2. proc[p].item \in Item
  BY DEF CommitInterrupted, Accepts, PInv, ProcsOK, Sound
<1>3. TimesSound(times') /\ UNCHANGED <<config, queue, held, health, clock, portal, lost>>
  BY <1>1, <1>2, RememberSound DEF CommitInterrupted
<1>4. ProcsOK'
  BY <1>1, <1>3, Alone, FreshRests, RestsSound DEF CommitInterrupted
<1>5. FilesOK'
  BY <1>3 DEF PInv, FilesOK, There, HeldSound
<1> QED BY <1>4, <1>5 DEF PInv

LEMMA ReadQueueSound ==
  ASSUME PInv, NEW p \in Procs, ReadQueue(p)
  PROVE  PInv'
<1> DEFINE r == proc[p]
           R == [r EXCEPT !.left = queue, !.pc = IF queue = <<>> THEN "succeeding" ELSE "posting"]
<1>1. r \in ProcState /\ queue \in Seq(Item) /\ r.cfg \in Dests
  BY ProcFields DEF ReadQueue, PInv, ProcsOK, FilesOK
<1>2. /\ R \in ProcState /\ R.cfg \in Dests /\ R.left = queue
      /\ R.pc \in {"succeeding", "posting"} /\ (R.pc = "posting" => queue # <<>>)
  BY <1>1 DEF ProcState
<1>3. proc' = [proc EXCEPT ![p] = R] /\ UNCHANGED <<config, queue, times, held, health, clock, portal, lost>>
  BY DEF ReadQueue, files
<1> HIDE DEF R
<1>4. PICK s \in ProcState : s = R
  BY <1>2
<1>5. \A e \in Elements(s.left) : e.id \in Ids(queue')
  BY <1>1, <1>2, <1>3, <1>4, Typed
<1>6. Sound(s)'
  BY <1>2, <1>4, <1>5 DEF Sound, Flushing
<1>7. ProcsOK'
  BY <1>3, <1>4, <1>6, Alone, OneMoves DEF PInv
<1>8. FilesOK'
  BY <1>3 DEF PInv, FilesOK, There, TimesSound, HeldSound
<1> QED BY <1>7, <1>8 DEF PInv

\* The head of what a flush has left.
LEMMA HeadSound ==
  ASSUME PInv, NEW p \in Procs, proc[p].pc \in Flushing
  PROVE  /\ Head(proc[p].left) \in Item /\ Head(proc[p].left).id \in Snaps
         /\ Head(proc[p].left).time \in Time /\ proc[p].cfg \in Dests
         /\ Head(proc[p].left).id \in Ids(queue) \/ Somewhere(Head(proc[p].left).id)
<1>1. /\ proc[p] \in ProcState /\ proc[p].left # <<>> /\ proc[p].cfg \in Dests
      /\ \A e \in Elements(proc[p].left) : e.id \in Ids(queue) \/ Somewhere(e.id)
  BY DEF PInv, ProcsOK, Sound
<1>2. Head(proc[p].left) \in Item /\ Head(proc[p].left) \in Elements(proc[p].left)
  BY <1>1, ProcFields, HeadTail
<1> QED BY <1>1, <1>2 DEF Item

\* A process learns the answer to its post.
LEMMA AnsweredSound ==
  ASSUME ProcsOK, NothingLost, NEW p \in Procs, NEW r \in ProcState, r = proc[p], r.pc = "posting",
         NEW answer \in Answers, Answered(p, answer),
         answer \in {"ack", "conflict"} => There(r.cfg, Head(r.left).id)'
  PROVE  ProcsOK'
<1>1. Sound(r)
  BY DEF ProcsOK
<1>2. PICK R \in ProcState : R = [r EXCEPT !.pc = "answered", !.answer = answer]
  BY DEF ProcState
<1>3. R.pc = "answered" /\ R.answer = answer /\ R.left = r.left /\ R.cfg = r.cfg
  BY <1>2 DEF ProcState
<1>4. proc' = [proc EXCEPT ![p] = R]
  BY <1>2 DEF Answered
<1>5. Sound(r)'
  BY <1>1, StaysSound
<1>6. r.left # <<>> /\ r.cfg \in Dests
  BY <1>1 DEF Sound, Flushing
<1>7. \A e \in Elements(R.left) : e.id \in Ids(queue') \/ Somewhere(e.id)'
  BY <1>3, <1>5 DEF Sound
<1>8. Sound(R)'
  BY <1>3, <1>6, <1>7 DEF Sound, Flushing
<1> QED BY <1>4, <1>8, OneMoves

\* A process whose head was received goes on to remove it.
LEMMA RemovingSound ==
  ASSUME ProcsOK, NothingLost, NEW p \in Procs, proc[p].pc = "answered",
         proc[p].answer \in {"ack", "conflict"}, Removing(p)
  PROVE  ProcsOK'
<1>1. PICK r \in ProcState : r = proc[p] /\ Sound(r)
  BY DEF ProcsOK
<1>2. PICK R \in ProcState : R = [r EXCEPT !.pc = "removing", !.answer = None]
  BY DEF ProcState
<1>3. R.pc = "removing" /\ R.left = r.left /\ R.cfg = r.cfg
  BY <1>2 DEF ProcState
<1>4. proc' = [proc EXCEPT ![p] = R]
  BY <1>1, <1>2 DEF Removing, ProcsOK
<1>5. Sound(r)'
  BY <1>1, StaysSound
<1>6. r.left # <<>> /\ r.cfg \in Dests
  BY <1>1 DEF Sound, Flushing
<1>7. \A e \in Elements(R.left) : e.id \in Ids(queue') \/ Somewhere(e.id)'
  BY <1>3, <1>5 DEF Sound
<1>8. There(R.cfg, Head(R.left).id)'
  BY <1>1, <1>3, <1>5 DEF Sound
<1>9. Sound(R)'
  BY <1>3, <1>6, <1>7, <1>8 DEF Sound, Flushing
<1> QED BY <1>4, <1>9, OneMoves

\* A step of a flush that waits for the Portal leaves the files alone.
LEMMA PostAcceptedSound ==
  ASSUME QueueAssumption, PInv, NEW p \in Procs, NEW answer \in {"ack", "other", "error"},
         PostAccepted(p, answer)
  PROVE  /\ PInv'
         /\ \E d \in Dests, s \in Snaps :
              /\ s \in Ids(queue) \/ Somewhere(s)
              /\ There(d, s)'
              /\ \A c \in Dests, i \in Snaps : There(c, i)' <=> There(c, i) \/ (c = d /\ i = s)
<1>1. PICK r \in ProcState : r = proc[p] /\ r.pc = "posting"
  BY DEF PostAccepted, PInv, ProcsOK
<1>2. PICK d \in Dests, item \in Item : d = r.cfg /\ item = Head(r.left)
  BY <1>1, HeadSound DEF Flushing
<1>3. item.id \in Snaps /\ item.time \in Time /\ (item.id \in Ids(queue) \/ Somewhere(item.id))
  BY <1>1, <1>2, HeadSound DEF Flushing
<1>4. /\ Holds(d, item) /\ portal' = Stored(d, item) /\ Answered(p, answer)
      /\ UNCHANGED <<config, queue, times, held, health, clock, lost>>
  BY <1>1, <1>2 DEF PostAccepted, files
<1>5. /\ portal \in [Dests -> [Snaps -> 0..MaxClock]] /\ MaxClock \in Nat
  BY DEF PInv, FilesOK, QueueAssumption
<1>6. /\ portal' \in [Dests -> [Snaps -> 0..MaxClock]]
      /\ \A c \in Dests, i \in Snaps : portal'[c][i] = IF c = d /\ i = item.id THEN item.time ELSE portal[c][i]
  <2>1. item.time \in 0..MaxClock
    BY <1>3, <1>5 DEF Time
  <2>2. CASE portal[d][item.id] = 0
    <3>1. portal' = [portal EXCEPT ![d][item.id] = item.time]
      BY <1>4, <2>2 DEF Stored
    <3> QED BY <1>3, <1>5, <2>1, <3>1
  <2>3. CASE portal[d][item.id] # 0
    BY <1>3, <1>4, <1>5, <2>3 DEF Stored, Holds
  <2> QED BY <2>2, <2>3
<1>7. There(d, item.id)' /\ item.time # 0
  BY <1>3, <1>6 DEF There, Time
<1>8. \A c \in Dests, i \in Snaps : There(c, i)' <=> There(c, i) \/ (c = d /\ i = item.id)
  BY <1>6, <1>7 DEF There
<1>9. NothingLost
  BY <1>4, <1>8 DEF NothingLost
<1>10. ProcsOK'
  BY <1>1, <1>2, <1>4, <1>7, <1>9, AnsweredSound DEF PInv, Answers
<1>11. \A e \in Elements(held) : e.dest \in Dests /\ e.id \in Snaps
  <2>1. held \in Seq([dest : Dests, id : Snaps])
    BY DEF PInv, FilesOK, HeldSound
  <2>2. Elements(held) \subseteq [dest : Dests, id : Snaps]
    BY <2>1, ElementsTyped
  <2> QED BY <2>2
<1>12. FilesOK'
  BY <1>4, <1>6, <1>8, <1>11 DEF PInv, FilesOK, TimesSound, HeldSound
<1> QED BY <1>3, <1>7, <1>8, <1>10, <1>12 DEF PInv

LEMMA PostRefusedSound ==
  ASSUME PInv, NEW p \in Procs,
         PostFails(p) \/ \E answer \in {"conflict", "error"} : PostConflicts(p, answer)
  PROVE  PInv'
<1>1. PICK r \in ProcState : r = proc[p] /\ r.pc = "posting"
  BY DEF PostFails, PostConflicts, PInv, ProcsOK
<1>2. UNCHANGED <<config, queue, times, held, health, clock, portal, lost>>
  BY DEF PostFails, PostConflicts, files
<1>3. PICK answer \in Answers : /\ Answered(p, answer)
                                /\ answer \in {"ack", "conflict"} => ~Holds(r.cfg, Head(r.left))
  BY <1>1 DEF PostFails, PostConflicts, Answers
<1>4. ~Holds(r.cfg, Head(r.left)) => There(r.cfg, Head(r.left).id)'
  BY <1>2 DEF Holds, There
<1>5. ProcsOK'
  BY <1>1, <1>2, <1>3, <1>4, Alone, AnsweredSound DEF PInv
<1>6. FilesOK'
  BY <1>2 DEF PInv, FilesOK, There, TimesSound, HeldSound
<1> QED BY <1>5, <1>6 DEF PInv

LEMMA AcknowledgedSound ==
  ASSUME QueueAssumption, PInv, NEW p \in Procs, Acknowledged(p)
  PROVE  PInv'
<1>1. proc[p].pc = "answered" /\ proc[p].answer = "ack" /\ Removing(p)
  BY DEF Acknowledged, Acknowledges
<1>2. TimesSound(times') /\ UNCHANGED <<config, queue, held, health, clock, portal, lost>>
  BY <1>1, HeadSound, RememberSound DEF Acknowledged, PInv, FilesOK, Flushing
<1>3. ProcsOK'
  BY <1>1, <1>2, Alone, RemovingSound DEF PInv
<1>4. FilesOK'
  BY <1>2 DEF PInv, FilesOK, There, HeldSound
<1> QED BY <1>3, <1>4 DEF PInv

\* The mark of a conflict is about a snapshot the Portal holds.
LEMMA MarkTrue ==
  ASSUME QueueAssumption, PInv, NEW p \in Procs, proc[p].pc = "answered",
         proc[p].answer = "conflict", UNCHANGED portal,
         held' = MarkHeld(proc[p].cfg, Head(proc[p].left).id)
  PROVE  HeldSound(held') /\ \A e \in Elements(held') : There(e.dest, e.id)'
<1>1. PICK d \in Dests, s \in Snaps : d = proc[p].cfg /\ s = Head(proc[p].left).id
  BY HeadSound DEF Flushing
<1>2. There(d, s)
  BY <1>1 DEF PInv, ProcsOK, Sound
<1>3. held' = MarkHeld(d, s)
  BY <1>1
<1>4. HeldSound(held') /\ Elements(held') \subseteq Elements(held) \cup {[dest |-> d, id |-> s]}
  BY <1>3, MarkHeldSound DEF PInv, FilesOK
<1>5. \A e \in Elements(held') : There(e.dest, e.id)
  BY <1>2, <1>4 DEF PInv, FilesOK
<1> QED BY <1>4, <1>5 DEF There

LEMMA ConflictSound ==
  ASSUME QueueAssumption, PInv, NEW p \in Procs, Conflict(p) \/ ConflictInterrupted(p)
  PROVE  PInv'
<1>1. proc[p].pc = "answered" /\ proc[p].answer = "conflict"
  BY DEF Conflict, ConflictInterrupted
<1>2. UNCHANGED <<config, queue, health, clock, portal, lost>>
  BY DEF Conflict, ConflictInterrupted
<1>3. HeldSound(held') /\ \A e \in Elements(held') : There(e.dest, e.id)'
  BY <1>1, <1>2, MarkTrue DEF Conflict, ConflictInterrupted
<1>4. TimesSound(times')
  BY <1>1, HeadSound, ForgetSound DEF Conflict, ConflictInterrupted, PInv, FilesOK, Flushing
<1>5. ProcsOK'
  <2>1. ProcsOK
    BY DEF PInv
  <2>2. CASE Conflict(p)
    BY <1>1, <1>2, <2>1, <2>2, Alone, RemovingSound DEF Conflict
  <2>3. CASE ConflictInterrupted(p)
    BY <1>2, <2>1, <2>3, Alone, FreshRests, RestsSound DEF ConflictInterrupted
  <2> QED BY <2>2, <2>3
<1>6. FilesOK'
  BY <1>2, <1>3, <1>4 DEF PInv, FilesOK
<1> QED BY <1>5, <1>6 DEF PInv

\* A flush that fails or succeeds writes the health file only.
LEMMA FlushEndsSound ==
  ASSUME PInv, NEW p \in Procs, Fails(p) \/ Succeed(p)
  PROVE  PInv'
<1>1. UNCHANGED <<config, queue, times, held, clock, portal, lost>>
  BY DEF Fails, Succeed
<1>2. health' \in [degraded : BOOLEAN, error : BOOLEAN] /\ health'.degraded = health.degraded
  BY DEF Fails, Succeed, Recovered, PInv, FilesOK
<1>3. Rests(p)
  BY EndsRests DEF Fails, Succeed, PInv
<1>4. ProcsOK'
  BY <1>1, <1>3, Alone, RestsSound DEF PInv
<1>5. FilesOK'
  BY <1>1, <1>2 DEF PInv, FilesOK, There, TimesSound, HeldSound
<1> QED BY <1>4, <1>5 DEF PInv

\* Only a snapshot the Portal received leaves the queue.
LEMMA RemoveSound ==
  ASSUME QueueAssumption, PInv, NEW p \in Procs, Remove(p)
  PROVE  /\ PInv'
         /\ \E s \in Snaps : Ids(queue') = Ids(queue) \ {s} /\ Somewhere(s)
<1>1. PICK r \in ProcState : r = proc[p] /\ Sound(r) /\ r.pc = "removing"
  BY DEF Remove, PInv, ProcsOK
<1>2. PICK s \in Snaps : s = Head(r.left).id
  BY <1>1, HeadSound DEF Flushing
<1>3. r.left # <<>> /\ r.left \in Seq(Item) /\ r.cfg \in Dests /\ There(r.cfg, s)
  BY <1>1, <1>2, ProcFields DEF Sound, Flushing
<1>4. UNCHANGED <<config, times, held, health, clock, portal, lost>>
  BY DEF Remove
<1> DEFINE I == {i \in DOMAIN queue : queue[i].id # s}
<1>5. queue \in Seq(Item) /\ I \in SUBSET DOMAIN queue /\ queue' = Sub(queue, I)
  BY <1>1, <1>2 DEF Remove, PInv, FilesOK
<1>6. /\ \A i \in I : queue[i].id # s
      /\ \A i \in DOMAIN queue : queue[i].id # s => i \in I
  OBVIOUS
<1> HIDE DEF I
<1>7. /\ queue' \in Seq(Item) /\ Len(queue') <= Len(queue) /\ Inside(queue', queue)
      /\ \A i \in I : queue[i] \in Elements(queue')
      /\ \A e \in Elements(queue') : \E i \in I : e = queue[i]
  BY <1>5, SubInside
<1>8. Ids(queue') = Ids(queue) \ {s}
  <2>1. \A i \in Ids(queue) \ {s} : i \in Ids(queue')
    BY <1>6, <1>7, Typed DEF Ids
  <2>2. \A i \in Ids(queue') : i \in Ids(queue) /\ i # s
    <3>1. \A e \in Elements(queue') : e.id # s
      BY <1>6, <1>7
    <3>2. Ids(queue') \subseteq Ids(queue)
      BY <1>7, InsideKeeps
    <3>3. \A i \in Ids(queue') : \E e \in Elements(queue') : e.id = i
      BY <1>7, Typed
    <3> QED BY <3>1, <3>2, <3>3
  <2> QED BY <2>1, <2>2
<1>9. NothingLost
  BY <1>3, <1>4, <1>8 DEF NothingLost, Somewhere, There
<1>10. ProcsOK'
  <2>1. PICK R \in ProcState : R = [r EXCEPT !.left = Tail(r.left),
                                            !.pc = IF Len(r.left) = 1 THEN "succeeding" ELSE "posting"]
    BY <1>3, HeadTail DEF ProcState
  <2>2. /\ R.left = Tail(r.left) /\ R.cfg = r.cfg /\ R.pc \in {"succeeding", "posting"}
        /\ R.pc = "posting" => Len(r.left) # 1
    BY <2>1 DEF ProcState
  <2>3. proc' = [proc EXCEPT ![p] = R]
    BY <1>1, <2>1 DEF Remove
  <2>4. Sound(r)'
    BY <1>1, <1>9, StaysSound
  <2>5. \A e \in Elements(R.left) : e.id \in Ids(queue') \/ Somewhere(e.id)'
    BY <1>3, <2>2, <2>4, HeadTail DEF Sound
  <2>6. R.pc = "posting" => R.left # <<>>
    BY <1>3, <2>2, HeadTail
  <2>7. Sound(R)'
    BY <1>3, <2>2, <2>5, <2>6 DEF Sound, Flushing
  <2> QED BY <1>9, <2>3, <2>7, OneMoves DEF PInv
<1>11. Len(queue') <= MaxQueue /\ DistinctIds(queue')
  <2>1. DistinctIds(queue')
    BY <1>7, InsideKeeps DEF PInv, FilesOK
  <2>2. Len(queue) \in Nat /\ Len(queue') \in Nat /\ MaxQueue \in Nat /\ Len(queue) <= MaxQueue
    BY <1>5, <1>7 DEF PInv, FilesOK, QueueAssumption
  <2> QED BY <1>7, <2>1, <2>2
<1>12. FilesOK'
  BY <1>4, <1>7, <1>11 DEF PInv, FilesOK, There, TimesSound, HeldSound
<1> QED BY <1>3, <1>8, <1>10, <1>12 DEF PInv, Somewhere

LEMMA EnrollSound ==
  ASSUME PInv, NEW d \in Dests \cup {None}, Enroll(d)
  PROVE  PInv'
<1>1. UNCHANGED <<queue, times, held, health, clock, proc, portal, lost>> /\ config' = d
  BY DEF Enroll, files
<1>2. FilesOK'
  BY <1>1 DEF PInv, FilesOK, There, TimesSound, HeldSound
<1>3. ProcsOK'
  BY <1>1 DEF PInv, ProcsOK, Sound, Somewhere, There
<1> QED BY <1>2, <1>3 DEF PInv

LEMMA StutterSound ==
  ASSUME PInv, UNCHANGED vars
  PROVE  PInv'
<1>1. UNCHANGED <<config, queue, times, held, health, clock, proc, portal, lost>>
  BY DEF vars, files
<1>2. FilesOK'
  BY <1>1 DEF PInv, FilesOK, There, TimesSound, HeldSound
<1>3. ProcsOK'
  BY <1>1 DEF PInv, ProcsOK, Sound, Somewhere, There
<1> QED BY <1>2, <1>3 DEF PInv

LEMMA InitSound ==
  ASSUME QueueAssumption, Init
  PROVE  PInv
<1>1. Ids(<<>>) = {} /\ Elements(<<>>) = {} /\ Len(<<>>) = 0
  BY Empty
<1>2. DistinctIds(<<>>) /\ Distinct(<<>>) /\ \A S : <<>> \in Seq(S)
  BY DEF DistinctIds, Distinct
<1>3. MaxQueue >= 0 /\ MaxTimes >= 0 /\ MaxHeld >= 0 /\ 2 \in Time
  BY DEF QueueAssumption, Time
<1>4. portal \in [Dests -> [Snaps -> 0..MaxClock]]
  <2>1. 0 \in 0..MaxClock /\ 1 \in 0..MaxClock
    BY DEF QueueAssumption
  <2>2. \A d \in Dests : portal[d] \in [Snaps -> {0, 1}]
    BY DEF Init
  <2>3. \A d \in Dests : portal[d] \in [Snaps -> 0..MaxClock]
    BY <2>1, <2>2
  <2> QED BY <2>3 DEF Init
<1>5. FilesOK
  BY <1>1, <1>2, <1>3, <1>4 DEF Init, FilesOK, TimesSound, HeldSound
<1>6. Sound(Fresh)
  BY <1>1, FreshTyped DEF Sound, Flushing
<1>7. ProcsOK
  BY <1>6, FreshTyped DEF ProcsOK, Init
<1> QED BY <1>5, <1>7 DEF PInv

LEMMA NextSound ==
  ASSUME QueueAssumption, PInv, [Next]_vars
  PROVE  PInv'
<1>1. CASE UNCHANGED vars
  BY <1>1, StutterSound
<1>2. CASE \E d \in Dests \cup {None} : Enroll(d)
  BY <1>2, EnrollSound
<1>3. ASSUME NEW p \in Procs, NEW kind \in {"hook", "sync", "retained"}, NEW s \in Snaps,
             Build(p, kind, s)
      PROVE  PInv'
  BY <1>3, BuildSound
<1>4. ASSUME NEW p \in Procs, NotConfigured(p) \/ Queues(p) \/ CommitInterrupted(p)
      PROVE  PInv'
  BY <1>4, NotConfiguredSound, QuietSound, RefuseDuplicateSound, RefuseFullSound, AcceptSound,
     CommitInterruptedSound DEF Queues
<1>5. ASSUME NEW p \in Procs, Flushes(p) \/ ConflictInterrupted(p)
      PROVE  PInv'
  BY <1>5, StartFlushSound, QuietSound, ReadQueueSound, AcknowledgedSound, ConflictSound,
     FlushEndsSound, RemoveSound DEF Flushes
<1>6. ASSUME NEW p \in Procs, PostFails(p) \/ \E answer \in {"conflict", "error"} : PostConflicts(p, answer)
      PROVE  PInv'
  BY <1>6, PostRefusedSound
<1>7. ASSUME NEW p \in Procs, NEW answer \in {"ack", "other", "error"}, PostAccepted(p, answer)
      PROVE  PInv'
  BY <1>7, PostAcceptedSound
<1>8. ASSUME NEW p \in Procs, Return(p) \/ Stops(p)
      PROVE  PInv'
  BY <1>8, QuietSound
<1> QED BY <1>1, <1>2, <1>3, <1>4, <1>5, <1>6, <1>7, <1>8 DEF Next

THEOREM Invariance ==
  ASSUME QueueAssumption
  PROVE  Spec => []PInv
<1>1. Init => PInv
  BY InitSound
<1>2. PInv /\ [Next]_vars => PInv'
  BY NextSound
<1> QED BY <1>1, <1>2, PTL DEF Spec

-----------------------------------------------------------------------------
(* What follows from the invariant *)

\* Every file and every process is what the code writes, whoever runs, stops,
\* or enrolls.
THEOREM TypeCorrect ==
  ASSUME QueueAssumption
  PROVE  Spec => []TypeOK
<1>1. PInv => TypeOK
  BY DEF PInv, FilesOK, ProcsOK, TimesSound, HeldSound, TypeOK
<1> QED BY <1>1, Invariance, PTL

LEMMA FilesTrue ==
  ASSUME PInv
  PROVE  NoDoubles /\ HeldIsThere /\ HealthyMeansComplete
<1>1. Cardinality(Ids(queue)) = Len(queue) /\ Cardinality(Ids(times)) = Len(times)
  BY CountIds DEF PInv, FilesOK, TimesSound
<1>2. NoDoubles
  BY <1>1 DEF PInv, FilesOK, HeldSound, Distinct, NoDoubles
<1>3. HeldIsThere
  BY DEF PInv, FilesOK, Elements, There, HeldIsThere
<1>4. HealthyMeansComplete
  BY DEF PInv, FilesOK, Healthy, HealthyMeansComplete
<1> QED BY <1>2, <1>3, <1>4

-----------------------------------------------------------------------------
(* At-least-once delivery: each step accepts, receives or drops, or stutters *)

Received == UNION {{s \in DOMAIN portal[d] : portal[d][s] # 0} : d \in DOMAIN portal}

LEMMA ReceivedThere ==
  ASSUME portal \in [Dests -> [Snaps -> 0..MaxClock]], NEW s
  PROVE  s \in Received <=> s \in Snaps /\ \E d \in Dests : portal[d][s] # 0
BY DEF Received

LEMMA StepDelivers ==
  ASSUME QueueAssumption, PInv, [Next]_vars
  PROVE  Delivery!ALOStep
<1>1. /\ portal \in [Dests -> [Snaps -> 0..MaxClock]]
      /\ portal' \in [Dests -> [Snaps -> 0..MaxClock]]
  BY NextSound DEF PInv, FilesOK
<1>2. ASSUME UNCHANGED <<queue, portal>>
      PROVE  Delivery!ALOStep
  BY <1>2 DEF Delivery!ALOStep, Received
<1>3. ASSUME NEW p \in Procs, Accept(p)
      PROVE  Delivery!ALOStep
  <2>1. /\ proc[p].item.id \in Snaps /\ Ids(queue') = Ids(queue) \cup {proc[p].item.id}
        /\ UNCHANGED portal
    BY <1>3, AcceptSound DEF Accept
  <2> QED BY <2>1 DEF Delivery!ALOStep, Delivery!ALONext, Delivery!AcceptOne
<1>4. ASSUME NEW p \in Procs, Remove(p)
      PROVE  Delivery!ALOStep
  <2>1. PICK s \in Snaps : Ids(queue') = Ids(queue) \ {s} /\ Somewhere(s) /\ UNCHANGED portal
    BY <1>4, RemoveSound DEF Remove
  <2>2. s \in Received
    BY <1>1, <2>1, ReceivedThere DEF Somewhere, There
  <2>3. CASE s \in Ids(queue)
    BY <2>1, <2>2, <2>3 DEF Delivery!ALOStep, Delivery!ALONext, Delivery!DropOne, Received
  <2>4. CASE s \notin Ids(queue)
    BY <2>1, <2>4 DEF Delivery!ALOStep
  <2> QED BY <2>3, <2>4
<1>5. ASSUME NEW p \in Procs, NEW answer \in {"ack", "other", "error"}, PostAccepted(p, answer)
      PROVE  Delivery!ALOStep
  <2>1. PICK d \in Dests, s \in Snaps :
          /\ s \in Ids(queue) \/ Somewhere(s)
          /\ There(d, s)'
          /\ \A c \in Dests, i \in Snaps : There(c, i)' <=> There(c, i) \/ (c = d /\ i = s)
    BY <1>5, PostAcceptedSound
  <2>2. UNCHANGED queue
    BY <1>5 DEF PostAccepted, files
  <2>3. \A i : i \in Received' <=> i \in Snaps /\ \E c \in Dests : There(c, i)'
    BY <1>1 DEF Received, There
  <2>4. \A i : i \in Received <=> i \in Snaps /\ \E c \in Dests : There(c, i)
    BY <1>1 DEF Received, There
  <2>5. Received' = Received \cup {s}
    BY <2>1, <2>3, <2>4
  <2>6. CASE s \in Ids(queue)
    BY <2>2, <2>5, <2>6 DEF Delivery!ALOStep, Delivery!ALONext, Delivery!ReceiveOne, Received
  <2>7. CASE s \notin Ids(queue)
    <3>1. Received' = Received
      BY <2>1, <2>4, <2>5, <2>7 DEF Somewhere
    <3> QED BY <2>2, <3>1 DEF Delivery!ALOStep, Received
  <2> QED BY <2>6, <2>7
<1>6. CASE UNCHANGED vars
  BY <1>2, <1>6 DEF vars, files
<1>7. CASE Next
  BY <1>2, <1>3, <1>4, <1>5, <1>7
  DEF Next, Build, NotConfigured, Queues, RefuseHeld, RefuseDuplicate, RefuseFull,
      CommitInterrupted, ConflictInterrupted, Flushes, StartFlush, NotEnrolled, ReadQueue,
      Acknowledged, Conflict, Fails, Succeed, PostFails, PostConflicts, Return, Stops, Enroll, files
<1> QED BY <1>6, <1>7

\* The queue implements at-least-once delivery: an accepted snapshot leaves it
\* only after some destination has received it.
THEOREM DeliversAtLeastOnce ==
  ASSUME QueueAssumption
  PROVE  Spec => ImplementsAtLeastOnce
<1>1. Init => Delivery!ALOInit
  <2>1. ASSUME Init PROVE portal \in [Dests -> [Snaps -> 0..MaxClock]] /\ Ids(queue) = {}
    BY <2>1, InitSound, Empty DEF PInv, FilesOK, Init
  <2> QED BY <2>1, ReceivedThere DEF Delivery!ALOInit, Received
<1>2. PInv /\ [Next]_vars => [Delivery!ALONext]_<<Ids(queue), Received>>
  BY StepDelivers DEF Delivery!ALOStep, Received
<1> QED BY <1>1, <1>2, Invariance, PTL DEF Spec, ImplementsAtLeastOnce, Delivery!ALOSpec, Received

-----------------------------------------------------------------------------
(* One body: while no recorded time is dropped, every body this client alone    *)
(* sends is the one recorded                                                     *)

AllRecorded == IsFiniteSet(Snaps) /\ Cardinality(Snaps) <= MaxTimes

\* Entries of the list s this client alone may have sent are entries of t.
Kept(s, t) == \A e \in Elements(s) : e.id \notin Older => e \in Elements(t)

BodyInv ==
  /\ Kept(queue, times)
  /\ \A p \in Procs : Kept(proc[p].left, times)
  /\ \A d \in Dests, s \in Snaps \ Older :
       There(d, s) => [id |-> s, time |-> portal[d][s]] \in Elements(times)
  /\ \A p \in Procs : proc[p].pc = "answered" /\ proc[p].answer = "conflict"
                        => Head(proc[p].left).id \in Older

\* With room for every snapshot, recording a time drops none.
LEMMA RememberKeeps ==
  ASSUME QueueAssumption, AllRecorded, TimesSound(times), NEW item \in Item
  PROVE  /\ Elements(times) \subseteq Elements(Remember(item))
         /\ FirstBody(item) \in Elements(Remember(item))
<1>1. times \in Seq(Item) /\ Ids(times) \subseteq Snaps /\ item.id \in Snaps /\ MaxTimes \in Nat
  BY Typed DEF TimesSound, Item, QueueAssumption
<1>2. CASE item.id \in Ids(times)
  <2>1. PICK i \in DOMAIN times : times[i].id = item.id
    BY <1>2 DEF Ids
  <2> DEFINE k == CHOOSE j \in DOMAIN times : times[j].id = item.id
  <2>2. k \in DOMAIN times
    BY <2>1
  <2>3. FirstBody(item) = times[k]
    BY <1>2 DEF FirstBody, Of
  <2> HIDE DEF k
  <2> QED BY <1>2, <2>2, <2>3 DEF Remember, Elements
<1>3. CASE item.id \notin Ids(times)
  <2> DEFINE t == Append(times, item)
  <2>1. t \in Seq(Item) /\ Len(t) = Len(times) + 1 /\ Elements(t) = Elements(times) \cup {item}
    BY <1>1, AppendElements, AppendIds
  <2>2. Len(t) <= MaxTimes
    <3>1. IsFiniteSet(Ids(times)) /\ Cardinality(Ids(times)) = Len(times)
      BY <1>1, CountIds DEF TimesSound
    <3>2. Ids(times) # Snaps
      BY <1>1, <1>3
    <3>3. Cardinality(Ids(times)) <= Cardinality(Snaps) /\ Cardinality(Ids(times)) # Cardinality(Snaps)
      BY <1>1, <3>2, FS_Subset DEF AllRecorded
    <3>4. Cardinality(Snaps) \in Nat /\ Len(times) \in Nat
      BY <1>1, FS_CardinalityType DEF AllRecorded
    <3> QED BY <1>1, <2>1, <3>1, <3>3, <3>4 DEF AllRecorded
  <2>3. Remember(item) = Last(t, MaxTimes) /\ FirstBody(item) = item
    BY <1>3 DEF Remember, FirstBody
  <2> HIDE DEF t
  <2>4. Last(t, MaxTimes) = t
    BY <1>1, <2>1, <2>2, LastInside
  <2> QED BY <2>1, <2>3, <2>4
<1> QED BY <1>2, <1>3

\* Forgetting the time of a snapshot an older client may have sent.
LEMMA ForgetKeeps ==
  ASSUME TimesSound(times), NEW item \in Item, item.id \in Older
  PROVE  Kept(times, Forget(item))
<1> DEFINE I == {i \in DOMAIN times : times[i] # item}
<1>1. I \in SUBSET DOMAIN times /\ times \in Seq(Item)
  BY DEF TimesSound
<1>2. \A i \in I : times[i] \in Elements(Sub(times, I))
  BY <1>1, SubInside
<1>3. Forget(item) = Sub(times, I)
  BY DEF Forget
<1>4. ASSUME NEW i \in DOMAIN times, times[i].id \notin Older PROVE times[i] \in Elements(Sub(times, I))
  BY <1>2, <1>4
<1> HIDE DEF I
<1> QED BY <1>3, <1>4 DEF Kept, Elements

\* A step of p that keeps the recorded times, and neither queues, holds nor
\* delivers an unrecorded body.
LEMMA BodyMoves ==
  ASSUME BodyInv, NEW p \in Procs, Kept(times, times'),
         \A e \in Elements(queue') : e \in Elements(queue) \/ e \in Elements(times'),
         \A q \in Procs \ {p} : proc'[q] = proc[q],
         \A e \in Elements(proc'[p].left) : e \in Elements(proc[p].left) \/ e \in Elements(queue),
         \A d \in Dests, s \in Snaps \ Older :
           portal'[d][s] = portal[d][s]
           \/ [id |-> s, time |-> portal'[d][s]] \in Elements(proc[p].left),
         proc'[p].pc = "answered" /\ proc'[p].answer = "conflict" => Head(proc'[p].left).id \in Older
  PROVE  BodyInv'
<1>1. \A s : Kept(s, times) => Kept(s, times')
  BY DEF Kept
<1>2. Kept(queue', times')
  BY <1>1 DEF Kept, BodyInv
<1>3. ASSUME NEW q \in Procs PROVE Kept(proc'[q].left, times')
  <2>1. CASE q = p
    BY <1>1, <2>1 DEF Kept, BodyInv
  <2>2. CASE q # p
    BY <1>1, <2>2 DEF BodyInv
  <2> QED BY <2>1, <2>2
<1>4. ASSUME NEW d \in Dests, NEW s \in Snaps \ Older, portal'[d][s] # 0
      PROVE  [id |-> s, time |-> portal'[d][s]] \in Elements(times')
  <2>1. [id |-> s, time |-> portal'[d][s]].id \notin Older
    OBVIOUS
  <2>2. CASE portal'[d][s] = portal[d][s]
    <3>1. [id |-> s, time |-> portal'[d][s]] \in Elements(times)
      BY <1>4, <2>2 DEF BodyInv, There
    <3> QED BY <2>1, <3>1 DEF Kept
  <2>3. CASE [id |-> s, time |-> portal'[d][s]] \in Elements(proc[p].left)
    <3>1. [id |-> s, time |-> portal'[d][s]] \in Elements(times)
      BY <2>1, <2>3 DEF BodyInv, Kept
    <3> QED BY <2>1, <3>1 DEF Kept
  <2> QED BY <2>2, <2>3
<1>5. ASSUME NEW q \in Procs, proc'[q].pc = "answered", proc'[q].answer = "conflict"
      PROVE  Head(proc'[q].left).id \in Older
  BY <1>5 DEF BodyInv
<1> QED BY <1>2, <1>3, <1>4, <1>5 DEF BodyInv, There

LEMMA KeptSelf == ASSUME NEW s PROVE Kept(s, s)
BY DEF Kept

LEMMA RestsBody ==
  ASSUME PInv, BodyInv, NEW p \in Procs, Rests(p), UNCHANGED portal, Kept(times, times'),
         \A e \in Elements(queue') : e \in Elements(queue) \/ e \in Elements(times')
  PROVE  BodyInv'
<1>1. PICK R \in ProcState :
        /\ proc' = [proc EXCEPT ![p] = R]
        /\ R.pc \in {"idle", "starting", "reading", "returned"}
        /\ R.left \in {<<>>, proc[p].left}
  BY DEF Rests
<1>2. proc'[p] = R /\ \A q \in Procs \ {p} : proc'[q] = proc[q]
  BY <1>1 DEF PInv, ProcsOK
<1>3. \A e \in Elements(proc'[p].left) : e \in Elements(proc[p].left)
  BY <1>1, <1>2, Empty
<1>4. proc'[p].pc # "answered"
  BY <1>1, <1>2
<1> QED BY <1>2, <1>3, <1>4, BodyMoves

LEMMA QueuesBody ==
  ASSUME QueueAssumption, AllRecorded, PInv, BodyInv, NEW p \in Procs,
         Queues(p) \/ CommitInterrupted(p)
  PROVE  BodyInv'
<1>1. ProcsOK /\ TimesSound(times) /\ times \in Seq(Item) /\ queue \in Seq(Item)
  BY DEF PInv, FilesOK, TimesSound
<1>2. proc[p].item \in Item /\ UNCHANGED portal
  BY DEF Queues, RefuseHeld, RefuseDuplicate, RefuseFull, Accept, Accepts, CommitInterrupted,
         files, PInv, ProcsOK, Sound
<1>3. Rests(p)
  BY <1>1, QueuedRests, FreshRests
  DEF Queues, RefuseHeld, RefuseDuplicate, RefuseFull, Accept, CommitInterrupted, Reasons
<1>4. CASE RefuseHeld(p) \/ RefuseFull(p)
  <2>1. UNCHANGED <<queue, times>>
    BY <1>4 DEF RefuseHeld, RefuseFull, files
  <2> QED BY <1>2, <1>3, <2>1, KeptSelf, RestsBody
<1>5. CASE RefuseDuplicate(p)
  <2>1. PICK item \in Item : times' = Remember(item) /\ UNCHANGED queue
    BY <1>1, <1>5, OfQueue DEF RefuseDuplicate
  <2>2. Kept(times, times')
    BY <1>1, <2>1, RememberKeeps DEF Kept
  <2> QED BY <1>2, <1>3, <2>1, <2>2, RestsBody
<1>6. CASE CommitInterrupted(p)
  <2>1. times' = Remember(proc[p].item) /\ UNCHANGED queue
    BY <1>6 DEF CommitInterrupted
  <2>2. Kept(times, times')
    BY <1>1, <1>2, <2>1, RememberKeeps DEF Kept
  <2> QED BY <1>2, <1>3, <2>1, <2>2, RestsBody
<1>7. CASE Accept(p)
  <2>1. times' = Remember(proc[p].item) /\ queue' = Append(queue, FirstBody(proc[p].item))
    BY <1>7 DEF Accept
  <2>2. Kept(times, times') /\ FirstBody(proc[p].item) \in Elements(times')
    BY <1>1, <1>2, <2>1, RememberKeeps DEF Kept
  <2>3. Elements(queue') = Elements(queue) \cup {FirstBody(proc[p].item)}
    BY <1>1, <1>2, <2>1, FirstBodySound, AppendElements, AppendIds
  <2> QED BY <1>2, <1>3, <2>2, <2>3, RestsBody
<1> QED BY <1>4, <1>5, <1>6, <1>7 DEF Queues

\* A flush goes on with what it has, or less.
LEMMA FlushBody ==
  ASSUME PInv, BodyInv, NEW p \in Procs, NEW R \in ProcState, proc' = [proc EXCEPT ![p] = R],
         Elements(R.left) \subseteq Elements(proc[p].left) \cup Elements(queue),
         ~(R.pc = "answered" /\ R.answer = "conflict"),
         UNCHANGED portal, Kept(times, times'), Elements(queue') \subseteq Elements(queue)
  PROVE  BodyInv'
<1>1. proc'[p] = R /\ \A q \in Procs \ {p} : proc'[q] = proc[q]
  BY DEF PInv, ProcsOK
<1> QED BY <1>1, BodyMoves

LEMMA RemovingBody ==
  ASSUME PInv, BodyInv, NEW p \in Procs, Removing(p), UNCHANGED <<queue, portal>>, Kept(times, times')
  PROVE  BodyInv'
<1>1. PICK r \in ProcState : r = proc[p]
  BY DEF PInv, ProcsOK
<1>2. PICK R \in ProcState : R = [r EXCEPT !.pc = "removing", !.answer = None]
  BY DEF ProcState
<1>3. proc' = [proc EXCEPT ![p] = R] /\ R.pc = "removing" /\ R.left = r.left
  BY <1>1, <1>2 DEF Removing, PInv, ProcsOK, ProcState
<1> QED BY <1>1, <1>3, FlushBody

LEMMA PostBody ==
  ASSUME QueueAssumption, PInv, BodyInv, NEW p \in Procs,
         \/ PostFails(p)
         \/ \E answer \in {"conflict", "error"} : PostConflicts(p, answer)
         \/ \E answer \in {"ack", "other", "error"} : PostAccepted(p, answer)
  PROVE  BodyInv'
<1>1. PICK r \in ProcState : r = proc[p] /\ r.pc = "posting"
  BY DEF PostFails, PostConflicts, PostAccepted, PInv, ProcsOK
<1>2. PICK d \in Dests, item \in Item : d = r.cfg /\ item = Head(r.left)
  BY <1>1, HeadSound DEF Flushing
<1>3. item \in Elements(r.left) /\ item.id \in Snaps
  <2>1. r.left # <<>> /\ r.left \in Seq(Item)
    BY <1>1, ProcFields DEF PInv, ProcsOK, Sound, Flushing
  <2> QED BY <1>2, <2>1, HeadTail DEF Item
<1>4. UNCHANGED <<queue, times>>
  BY DEF PostFails, PostConflicts, PostAccepted, files
<1>5. PICK answer \in Answers :
        /\ Answered(p, answer)
        /\ answer = "conflict" => ~Holds(d, item)
        /\ portal' = portal \/ (Holds(d, item) /\ portal' = Stored(d, item))
  BY <1>1, <1>2 DEF PostFails, PostConflicts, PostAccepted, Answers
<1>6. PICK R \in ProcState : R = [r EXCEPT !.pc = "answered", !.answer = answer]
  BY DEF ProcState
<1>7. /\ proc'[p] = R /\ \A q \in Procs \ {p} : proc'[q] = proc[q]
      /\ R.answer = answer /\ R.left = r.left
  BY <1>1, <1>5, <1>6 DEF Answered, PInv, ProcsOK, ProcState
<1>8. \A c \in Dests, s \in Snaps \ Older :
        portal'[c][s] = portal[c][s] \/ [id |-> s, time |-> portal'[c][s]] \in Elements(r.left)
  <2>1. CASE portal' = portal
    BY <2>1
  <2>2. CASE portal' = [portal EXCEPT ![d][item.id] = item.time]
    <3>1. \A c \in Dests, s \in Snaps :
            portal'[c][s] = IF c = d /\ s = item.id THEN item.time ELSE portal[c][s]
      BY <1>3, <2>2 DEF PInv, FilesOK
    <3>2. item = [id |-> item.id, time |-> item.time]
      BY DEF Item
    <3> QED BY <1>3, <3>1, <3>2
  <2> QED BY <1>5, <2>1, <2>2 DEF Stored
<1>9. ASSUME answer = "conflict", item.id \notin Older
      PROVE  FALSE
  <2>1. portal[d][item.id] # 0 /\ portal[d][item.id] # item.time
    BY <1>5, <1>9 DEF Holds
  <2>2. item \in Elements(times) /\ [id |-> item.id, time |-> portal[d][item.id]] \in Elements(times)
    BY <1>1, <1>3, <1>9, <2>1 DEF BodyInv, Kept, There
  <2>3. DistinctIds(times)
    BY DEF PInv, FilesOK, TimesSound
  <2>4. \A e, f \in Elements(times) : e.id = f.id => e = f
    BY <2>3 DEF DistinctIds, Elements
  <2> QED BY <2>1, <2>2, <2>4
<1>10. \A e \in Elements(proc'[p].left) : e \in Elements(proc[p].left)
  BY <1>1, <1>7
<1>11. proc'[p].pc = "answered" /\ proc'[p].answer = "conflict" => Head(proc'[p].left).id \in Older
  BY <1>2, <1>7, <1>9
<1> QED BY <1>1, <1>4, <1>7, <1>8, <1>10, <1>11, KeptSelf, BodyMoves

LEMMA FlushesBody ==
  ASSUME QueueAssumption, AllRecorded, PInv, BodyInv, NEW p \in Procs,
         Flushes(p) \/ ConflictInterrupted(p)
  PROVE  BodyInv'
<1>1. PICK r \in ProcState : r = proc[p]
  BY DEF PInv, ProcsOK
<1>2. ProcsOK /\ TimesSound(times) /\ UNCHANGED portal
  BY DEF PInv, FilesOK, Flushes, StartFlush, NotEnrolled, ReadQueue, Acknowledged, Conflict,
         ConflictInterrupted, Fails, Remove, Succeed, files
<1>3. CASE StartFlush(p)
  <2>1. PICK R \in ProcState : R = [r EXCEPT !.pc = "reading", !.cfg = config,
                                             !.kind = IF r.kind = None THEN "flush" ELSE r.kind]
    BY StartTyped DEF PInv, FilesOK
  <2>2. /\ proc' = [proc EXCEPT ![p] = R] /\ R.pc = "reading" /\ R.left = r.left
        /\ UNCHANGED <<queue, times>>
    BY <1>1, <1>3, <2>1 DEF StartFlush, ProcState, files
  <2> QED BY <1>1, <1>2, <2>2, KeptSelf, FlushBody
<1>4. CASE ReadQueue(p)
  <2>1. PICK R \in ProcState :
          R = [r EXCEPT !.left = queue, !.pc = IF queue = <<>> THEN "succeeding" ELSE "posting"]
    BY DEF PInv, FilesOK, ProcState
  <2>2. /\ proc' = [proc EXCEPT ![p] = R] /\ R.pc # "answered" /\ R.left = queue
        /\ UNCHANGED <<queue, times>>
    BY <1>1, <1>4, <2>1 DEF ReadQueue, ProcState, files
  <2> QED BY <1>2, <2>2, KeptSelf, FlushBody
<1>5. CASE NotEnrolled(p) \/ Fails(p) \/ Succeed(p)
  <2>1. Rests(p) /\ UNCHANGED <<queue, times>>
    BY <1>2, <1>5, EndsRests DEF NotEnrolled, Fails, Succeed, files
  <2> QED BY <1>2, <2>1, KeptSelf, RestsBody
<1>6. CASE Acknowledged(p)
  <2>1. PICK item \in Item : item = Head(proc[p].left)
    BY <1>6, HeadSound DEF Acknowledged, Flushing
  <2>2. times' = Remember(item) /\ Removing(p) /\ UNCHANGED queue
    BY <1>6, <2>1 DEF Acknowledged
  <2>3. Kept(times, times')
    BY <1>2, <2>2, RememberKeeps DEF Kept
  <2> QED BY <1>2, <2>2, <2>3, RemovingBody
<1>7. CASE Conflict(p)
  <2>1. PICK item \in Item : item = Head(proc[p].left) /\ item.id \in Older
    BY <1>7, HeadSound DEF Conflict, Flushing, BodyInv
  <2>2. times' = Forget(item) /\ Removing(p) /\ UNCHANGED queue
    BY <1>7, <2>1 DEF Conflict
  <2>3. Kept(times, times')
    BY <1>2, <2>1, <2>2, ForgetKeeps
  <2> QED BY <1>2, <2>2, <2>3, RemovingBody
<1>8. CASE ConflictInterrupted(p)
  <2>1. Rests(p) /\ UNCHANGED <<queue, times>>
    BY <1>2, <1>8, FreshRests DEF ConflictInterrupted
  <2> QED BY <1>2, <2>1, KeptSelf, RestsBody
<1>9. CASE Remove(p)
  <2>1. r.left # <<>> /\ r.left \in Seq(Item)
    BY <1>1, <1>9, ProcFields DEF Remove, PInv, ProcsOK, Sound, Flushing
  <2>2. PICK R \in ProcState : R = [r EXCEPT !.left = Tail(r.left),
                                            !.pc = IF Len(r.left) = 1 THEN "succeeding" ELSE "posting"]
    BY <2>1, HeadTail DEF ProcState
  <2>3. /\ proc' = [proc EXCEPT ![p] = R] /\ R.pc # "answered" /\ R.left = Tail(r.left)
        /\ UNCHANGED times
    BY <1>1, <1>9, <2>2 DEF Remove, ProcState
  <2>4. Elements(R.left) \subseteq Elements(proc[p].left)
    BY <1>1, <2>1, <2>3, HeadTail
  <2>5. Elements(queue') \subseteq Elements(queue)
    <3> DEFINE I == {i \in DOMAIN queue : queue[i].id # Head(proc[p].left).id}
    <3>1. queue \in Seq(Item) /\ I \in SUBSET DOMAIN queue /\ queue' = Sub(queue, I)
      BY <1>9 DEF Remove, PInv, FilesOK
    <3> HIDE DEF I
    <3> QED BY <3>1, SubInside, InsideKeeps
  <2> QED BY <1>2, <2>3, <2>4, <2>5, KeptSelf, FlushBody
<1> QED BY <1>3, <1>4, <1>5, <1>6, <1>7, <1>8, <1>9 DEF Flushes

LEMMA NextBody ==
  ASSUME QueueAssumption, AllRecorded, PInv, BodyInv, [Next]_vars
  PROVE  BodyInv'
<1>1. CASE UNCHANGED <<queue, times, proc, portal>>
  BY <1>1 DEF BodyInv, There, Kept
<1>2. ASSUME NEW p \in Procs, NEW kind \in {"hook", "sync", "retained"}, NEW s \in Snaps,
             Build(p, kind, s)
      PROVE  BodyInv'
  <2>1. PICK R \in ProcState : R = [Fresh EXCEPT !.pc = "queueing", !.kind = kind, !.cfg = config,
                                                 !.item = Built(s)]
    <3>1. Built(s) \in Item /\ config \in Dests /\ kind \in Kinds
      BY <1>2 DEF Build, Built, PInv, FilesOK, Item, Time, Kinds
    <3> QED BY <3>1, FreshTyped DEF ProcState, Fresh
  <2>2. proc' = [proc EXCEPT ![p] = R] /\ R.pc = "queueing" /\ R.left = <<>>
    BY <1>2, <2>1, FreshTyped DEF Build, Fresh
  <2>3. UNCHANGED <<queue, times, portal>>
    BY <1>2 DEF Build, files
  <2> QED BY <2>2, <2>3, Empty, KeptSelf, FlushBody
<1>3. ASSUME NEW p \in Procs, NotConfigured(p) PROVE BodyInv'
  <2>1. PICK R \in ProcState :
          R = [Fresh EXCEPT !.pc = "starting", !.kind = "sync", !.reason = "not-configured"]
    BY FreshTyped DEF ProcState, Fresh, Kinds, Reasons
  <2>2. proc' = [proc EXCEPT ![p] = R] /\ R.pc = "starting" /\ R.left = <<>>
    BY <1>3, <2>1, FreshTyped DEF NotConfigured, Fresh
  <2>3. UNCHANGED <<queue, times, portal>>
    BY <1>3 DEF NotConfigured, files
  <2> QED BY <2>2, <2>3, Empty, KeptSelf, FlushBody
<1>4. ASSUME NEW p \in Procs, Return(p) \/ Stops(p) PROVE BodyInv'
  <2>1. Rests(p) /\ UNCHANGED <<queue, times, portal>>
    BY <1>4, FreshRests DEF Return, Stops, files, PInv
  <2> QED BY <2>1, KeptSelf, RestsBody
<1>5. CASE UNCHANGED vars \/ \E d \in Dests \cup {None} : Enroll(d)
  BY <1>1, <1>5 DEF vars, files, Enroll
<1> QED BY <1>2, <1>3, <1>4, <1>5, QueuesBody, FlushesBody, PostBody DEF Next

LEMMA InitBody ==
  ASSUME Init
  PROVE  BodyInv
BY Empty, FreshTyped DEF Init, BodyInv, Kept, There

LEMMA AtMostOne ==
  ASSUME NEW S, \A a, b \in S : a = b
  PROVE  Cardinality(S) <= 1
<1>1. CASE S = {}
  BY <1>1, FS_EmptySet
<1>2. CASE S # {}
  <2>1. PICK a \in S : S = {a}
    BY <1>2
  <2> QED BY <2>1, FS_Singleton
<1> QED BY <1>1, <1>2

LEMMA BodyIsOne ==
  ASSUME PInv, BodyInv
  PROVE  OneBody
<1>1. ASSUME NEW s \in Snaps \ Older
      PROVE  \A b \in Bodies(s) : \E e \in Elements(times) : e.id = s /\ e.time = b
  <2>1. ASSUME NEW i \in DOMAIN queue, queue[i].id = s
        PROVE  queue[i] \in Elements(times)
    BY <2>1 DEF BodyInv, Kept, Elements
  <2>2. ASSUME NEW p \in Procs, NEW i \in DOMAIN proc[p].left, proc[p].left[i].id = s
        PROVE  proc[p].left[i] \in Elements(times)
    BY <2>2 DEF BodyInv, Kept, Elements
  <2>3. ASSUME NEW d \in Dests, portal[d][s] # 0
        PROVE  [id |-> s, time |-> portal[d][s]] \in Elements(times)
    BY <2>3 DEF BodyInv, There
  <2> QED BY <2>1, <2>2, <2>3 DEF Bodies
<1>2. \A e, f \in Elements(times) : e.id = f.id => e = f
  BY DEF PInv, FilesOK, TimesSound, DistinctIds, Elements
<1>3. ASSUME NEW s \in Snaps \ Older, NEW a \in Bodies(s), NEW b \in Bodies(s)
      PROVE  a = b
  BY <1>1, <1>2
<1> QED BY <1>3, AtMostOne DEF OneBody

-----------------------------------------------------------------------------
(* One enrollment: what `portal sync` reports                                   *)

\* The snapshot s waits, or the enrolled destination holds it.
OnItsWay(s) == s \in Ids(queue) \/ There(config, s)

\* What holds of a process in the state r that queued its snapshot, or found it
\* queued or held: until the flush has read the queue it is on its way, then it
\* is among what the flush has left or was received.
SyncSound(r) ==
  /\ r.pc = "idle" => r.item = None
  /\ r.pc \notin {"idle", "starting"} => r.cfg = config
  /\ r.item # None /\ r.reason # "queue-full" =>
       /\ r.pc \in {"starting", "reading"} => OnItsWay(r.item.id)
       /\ r.pc \in Flushing => r.item.id \in Ids(r.left) \/ There(config, r.item.id)
       /\ r.pc = "succeeding" => There(config, r.item.id)
  /\ r.pc = "returned" /\ r.ok /\ r.item # None => There(config, r.item.id)

SyncInv ==
  /\ config \in Dests
  /\ \A e \in Elements(held) : e.dest = config
  /\ \A p \in Procs : SyncSound(proc[p])

\* Nothing is lost on its way to the one destination.
NoneLost ==
  /\ config' = config
  /\ \A s \in Snaps : There(config, s) => There(config, s)'
  /\ \A s \in Snaps : s \in Ids(queue) => s \in Ids(queue') \/ There(config, s)'

LEMMA StaysSync ==
  ASSUME NoneLost, NEW r \in ProcState, SyncSound(r)
  PROVE  SyncSound(r)'
<1>1. r.item # None => r.item.id \in Snaps
  BY ProcFields DEF Item
<1>2. r.item # None /\ OnItsWay(r.item.id) => OnItsWay(r.item.id)'
  BY <1>1 DEF NoneLost, OnItsWay
<1>3. r.item # None /\ There(config, r.item.id) => There(config, r.item.id)'
  BY <1>1 DEF NoneLost
<1> QED BY <1>2, <1>3 DEF SyncSound, NoneLost

LEMMA SyncMoves ==
  ASSUME ProcsOK, SyncInv, NoneLost, NEW p \in Procs, NEW R \in ProcState,
         proc' = [proc EXCEPT ![p] = R], SyncSound(R)',
         \A e \in Elements(held') : e.dest = config
  PROVE  SyncInv'
<1>1. ASSUME NEW q \in Procs PROVE SyncSound(proc[q])'
  <2>1. proc[q] \in ProcState /\ SyncSound(proc[q])
    BY DEF ProcsOK, SyncInv
  <2>2. PICK r \in ProcState : r = IF q = p THEN R ELSE proc[q]
    BY <2>1
  <2>3. SyncSound(r)'
    BY <2>1, <2>2, StaysSync
  <2>4. proc'[q] = r
    BY <2>2 DEF ProcsOK
  <2> QED BY <2>3, <2>4 DEF SyncSound
<1> QED BY <1>1 DEF SyncInv, NoneLost

\* Steps that leave the queue, the marks and the server alone.
LEMMA SyncAlone ==
  ASSUME PInv, SyncInv, NEW p \in Procs, NEW R \in ProcState, proc' = [proc EXCEPT ![p] = R],
         UNCHANGED <<config, queue, held, portal>>, SyncSound(R)
  PROVE  SyncInv'
<1>1. NoneLost
  BY DEF NoneLost, There
<1>2. SyncSound(R)'
  BY <1>1, StaysSync
<1> QED BY <1>1, <1>2, SyncMoves DEF PInv, SyncInv

LEMMA FreshSync ==
  ASSUME NEW r, r = Fresh
  PROVE  SyncSound(r)
BY DEF Fresh, SyncSound, Flushing

\* A step that ends a process and changes neither queue, marks nor server.
LEMMA FreshAlone ==
  ASSUME PInv, SyncInv, NEW p \in Procs, proc' = [proc EXCEPT ![p] = Fresh],
         UNCHANGED <<config, queue, held, portal>>
  PROVE  SyncInv'
<1>1. PICK R \in ProcState : R = Fresh
  BY FreshTyped
<1> QED BY <1>1, FreshSync, SyncAlone

\* A process that queued its snapshot, or found it queued or held.
LEMMA QueuedSync ==
  ASSUME QueueAssumption, PInv, SyncInv, NoneLost, NEW p \in Procs, proc[p].pc = "queueing",
         NEW reason \in Reasons, Queued(p, reason), UNCHANGED held,
         NEW s \in Snaps, proc[p].item.id = s,
         reason # "queue-full" => OnItsWay(s)' \/ There(config, s)
  PROVE  SyncInv'
<1>1. PICK r \in ProcState : r = proc[p]
  BY DEF PInv, ProcsOK
<1>2. CASE r.kind # "sync"
  <2>1. PICK R \in ProcState : R = Fresh
    BY FreshTyped
  <2>2. proc' = [proc EXCEPT ![p] = R]
    BY <1>1, <1>2, <2>1 DEF Queued
  <2>3. SyncSound(R)'
    BY <2>1, FreshSync, StaysSync
  <2> QED BY <2>2, <2>3, SyncMoves DEF PInv, SyncInv
<1>3. CASE r.kind = "sync"
  <2>1. PICK R \in ProcState : R = [r EXCEPT !.pc = "starting", !.cfg = None, !.reason = reason]
    BY DEF ProcState
  <2>2. proc' = [proc EXCEPT ![p] = R]
    BY <1>1, <1>3, <2>1 DEF Queued
  <2>3. R.pc = "starting" /\ R.reason = reason /\ R.item = r.item
    BY <2>1 DEF ProcState
  <2>4. r.item.id = s
    BY <1>1
  <2>5. reason # "queue-full" => OnItsWay(s)'
    BY DEF NoneLost, OnItsWay
  <2>6. SyncSound(R)'
    BY <2>3, <2>4, <2>5 DEF SyncSound, Flushing
  <2> QED BY <2>2, <2>6, SyncMoves DEF PInv, SyncInv
<1> QED BY <1>2, <1>3

LEMMA QueuesSync ==
  ASSUME QueueAssumption, PInv, SyncInv, NEW p \in Procs, Queues(p) \/ CommitInterrupted(p)
  PROVE  SyncInv'
<1>1. PICK r \in ProcState : r = proc[p]
  BY DEF PInv, ProcsOK
<1>2. proc[p].pc = "queueing" /\ UNCHANGED <<config, held, portal>>
  BY DEF Queues, RefuseHeld, RefuseDuplicate, RefuseFull, Accept, Accepts, CommitInterrupted, files
<1>3. PICK s \in Snaps : s = proc[p].item.id
  BY <1>2 DEF PInv, ProcsOK, Sound, Item
<1>4. CASE RefuseHeld(p)
  <2>1. NoneLost
    BY <1>4 DEF RefuseHeld, NoneLost, There, files
  <2>2. proc[p].cfg = config
    BY <1>2 DEF SyncInv, SyncSound
  <2>3. PICK i \in DOMAIN held : held[i] = [dest |-> proc[p].cfg, id |-> s]
    BY <1>3, <1>4 DEF RefuseHeld, HeldBy
  <2>4. There(config, s)
    <3>1. held[i] \in Elements(held) /\ held[i].dest = config /\ held[i].id = s
      BY <2>2, <2>3 DEF Elements
    <3> QED BY <3>1 DEF PInv, FilesOK
  <2> QED BY <1>2, <1>3, <1>4, <2>1, <2>4, QueuedSync DEF RefuseHeld, Reasons
<1>5. CASE RefuseDuplicate(p)
  <2>1. NoneLost
    BY <1>5 DEF RefuseDuplicate, NoneLost, There
  <2>2. OnItsWay(s)'
    BY <1>3, <1>5 DEF RefuseDuplicate, OnItsWay
  <2> QED BY <1>2, <1>3, <1>5, <2>1, <2>2, QueuedSync DEF RefuseDuplicate, Reasons
<1>6. CASE RefuseFull(p)
  <2>1. NoneLost
    BY <1>6 DEF RefuseFull, NoneLost, There
  <2> QED BY <1>2, <1>3, <1>6, <2>1, QueuedSync DEF RefuseFull, Reasons
<1>7. CASE Accept(p)
  <2>1. Ids(queue') = Ids(queue) \cup {s}
    BY <1>3, <1>7, AcceptSound
  <2>2. NoneLost
    BY <1>2, <2>1 DEF NoneLost, There
  <2>3. OnItsWay(s)'
    BY <2>1 DEF OnItsWay
  <2> QED BY <1>2, <1>3, <1>7, <2>2, <2>3, QueuedSync DEF Accept, Reasons
<1>8. CASE CommitInterrupted(p)
  BY <1>8, FreshAlone DEF CommitInterrupted
<1> QED BY <1>4, <1>5, <1>6, <1>7, <1>8 DEF Queues

LEMMA PostSync ==
  ASSUME QueueAssumption, PInv, SyncInv, NEW p \in Procs,
         \/ PostFails(p)
         \/ \E answer \in {"conflict", "error"} : PostConflicts(p, answer)
         \/ \E answer \in {"ack", "other", "error"} : PostAccepted(p, answer)
  PROVE  SyncInv'
<1>1. PICK r \in ProcState : r = proc[p] /\ r.pc = "posting" /\ SyncSound(r)
  BY DEF PostFails, PostConflicts, PostAccepted, PInv, ProcsOK, SyncInv
<1>2. PICK answer \in Answers : Answered(p, answer)
  BY DEF PostFails, PostConflicts, PostAccepted, Answers
<1>3. PICK R \in ProcState : R = [r EXCEPT !.pc = "answered", !.answer = answer]
  BY DEF ProcState
<1>4. /\ proc' = [proc EXCEPT ![p] = R] /\ R.pc = "answered"
      /\ R.left = r.left /\ R.item = r.item /\ R.cfg = r.cfg /\ R.reason = r.reason
  BY <1>1, <1>2, <1>3 DEF Answered, ProcState
<1>5. UNCHANGED <<config, queue, held>>
  BY DEF PostFails, PostConflicts, PostAccepted, files
<1>6. \A s \in Snaps : There(config, s) => There(config, s)'
  <2>1. CASE UNCHANGED portal
    BY <1>5, <2>1 DEF There
  <2>2. CASE \E a \in {"ack", "other", "error"} : PostAccepted(p, a)
    BY <1>5, <2>2, PostAcceptedSound DEF SyncInv, There
  <2> QED BY <2>1, <2>2 DEF PostFails, PostConflicts
<1>7. NoneLost
  BY <1>5, <1>6 DEF NoneLost
<1>8. SyncSound(R)
  BY <1>1, <1>4 DEF SyncSound, Flushing
<1>9. SyncSound(R)'
  BY <1>7, <1>8, StaysSync
<1> QED BY <1>4, <1>5, <1>7, <1>9, SyncMoves DEF PInv, SyncInv

\* A flush that marks its head or removes it next keeps what it has left.
LEMMA RemovingSync ==
  ASSUME PInv, SyncInv, NEW p \in Procs, proc[p].pc = "answered", Removing(p),
         UNCHANGED <<config, queue, portal>>, \A e \in Elements(held') : e.dest = config
  PROVE  SyncInv'
<1>1. PICK r \in ProcState : r = proc[p] /\ r.pc = "answered" /\ SyncSound(r)
  BY DEF PInv, ProcsOK, SyncInv
<1>2. PICK R \in ProcState : R = [r EXCEPT !.pc = "removing", !.answer = None]
  BY DEF ProcState
<1>3. /\ proc' = [proc EXCEPT ![p] = R] /\ R.pc = "removing"
      /\ R.left = r.left /\ R.item = r.item /\ R.cfg = r.cfg /\ R.reason = r.reason
  BY <1>1, <1>2 DEF Removing, PInv, ProcsOK, ProcState
<1>4. NoneLost
  BY DEF NoneLost, There
<1>5. SyncSound(R)
  BY <1>1, <1>3 DEF SyncSound, Flushing
<1>6. SyncSound(R)'
  BY <1>4, <1>5, StaysSync
<1> QED BY <1>3, <1>4, <1>6, SyncMoves DEF PInv

\* The mark of a conflict is about the one destination.
LEMMA MarkOne ==
  ASSUME QueueAssumption, PInv, SyncInv, NEW p \in Procs, proc[p].pc = "answered",
         held' = MarkHeld(proc[p].cfg, Head(proc[p].left).id)
  PROVE  \A e \in Elements(held') : e.dest = config
<1>1. PICK d \in Dests, s \in Snaps : d = proc[p].cfg /\ s = Head(proc[p].left).id
  BY HeadSound DEF Flushing
<1>2. d = config
  BY <1>1 DEF SyncInv, SyncSound
<1>3. Elements(held') \subseteq Elements(held) \cup {[dest |-> d, id |-> s]}
  BY <1>1, MarkHeldSound DEF PInv, FilesOK
<1> QED BY <1>2, <1>3 DEF SyncInv

\* Removing takes out no other snapshot than the head.
LEMMA RemoveDropsHead ==
  ASSUME PInv, NEW p \in Procs, Remove(p)
  PROVE  \A i \in Ids(queue) : i \in Ids(queue') \/ i = Head(proc[p].left).id
<1> DEFINE I == {i \in DOMAIN queue : queue[i].id # Head(proc[p].left).id}
<1>1. queue \in Seq(Item) /\ I \in SUBSET DOMAIN queue /\ queue' = Sub(queue, I)
  BY DEF Remove, PInv, FilesOK
<1>2. \A i \in DOMAIN queue : queue[i].id # Head(proc[p].left).id => i \in I
  OBVIOUS
<1> HIDE DEF I
<1>3. queue' \in Seq(Item) /\ \A i \in I : queue[i] \in Elements(queue')
  BY <1>1, SubInside
<1>4. \A e \in Elements(queue') : e.id \in Ids(queue')
  BY <1>3, Typed
<1>5. \A i \in DOMAIN queue : queue[i].id \in Ids(queue') \/ queue[i].id = Head(proc[p].left).id
  BY <1>2, <1>3, <1>4
<1>6. \A i \in Ids(queue) : \E k \in DOMAIN queue : i = queue[k].id
  BY DEF Ids
<1> QED BY <1>5, <1>6

LEMMA HeadTailIds ==
  ASSUME NEW s \in Seq(Item), s # <<>>
  PROVE  /\ Ids(s) \subseteq Ids(Tail(s)) \cup {Head(s).id}
         /\ Len(s) = 1 => Ids(s) \subseteq {Head(s).id}
<1>1. Len(s) \in Nat /\ Len(s) > 0 /\ DOMAIN s = 1 .. Len(s) /\ Head(s) = s[1]
  OBVIOUS
<1>2. Len(Tail(s)) = Len(s) - 1 /\ \A k \in 1 .. Len(s) - 1 : Tail(s)[k] = s[k + 1]
  BY <1>1
<1>3. Tail(s) \in Seq(Item)
  BY HeadTail
<1>4. DOMAIN Tail(s) = 1 .. Len(s) - 1
  BY <1>2, <1>3
<1>5. ASSUME NEW k \in DOMAIN s, k # 1 PROVE s[k].id \in Ids(Tail(s))
  <2>1. k - 1 \in 1 .. Len(s) - 1 /\ (k - 1) + 1 = k
    BY <1>1, <1>5
  <2>2. Tail(s)[k - 1] = s[k] /\ k - 1 \in DOMAIN Tail(s)
    BY <1>2, <1>4, <2>1
  <2> QED BY <2>2 DEF Ids
<1>6. Len(s) = 1 => \A k \in DOMAIN s : k = 1
  BY <1>1
<1> QED BY <1>1, <1>5, <1>6 DEF Ids

LEMMA EndsSync ==
  ASSUME PInv, SyncInv, NEW p \in Procs, proc[p].pc \in {"answered", "succeeding"},
         NEW ok \in BOOLEAN, Ends(p, ok), ok => proc[p].pc = "succeeding",
         UNCHANGED <<config, queue, held, portal>>
  PROVE  SyncInv'
<1>1. PICK r \in ProcState : r = proc[p] /\ SyncSound(r)
  BY DEF PInv, ProcsOK, SyncInv
<1>2. CASE r.kind # "sync"
  <2>1. proc' = [proc EXCEPT ![p] = Fresh]
    BY <1>1, <1>2 DEF Ends
  <2> QED BY <2>1, FreshAlone
<1>3. CASE r.kind = "sync"
  <2>1. PICK R \in ProcState : R = [r EXCEPT !.pc = "returned", !.ok = ok /\ r.reason # "queue-full",
                                             !.left = <<>>, !.answer = None]
    <3>1. <<>> \in Seq(Item) /\ (ok /\ r.reason # "queue-full") \in BOOLEAN
      OBVIOUS
    <3> QED BY <3>1 DEF ProcState
  <2>2. /\ proc' = [proc EXCEPT ![p] = R]
        /\ R.pc = "returned" /\ (R.ok => ok /\ r.reason # "queue-full")
        /\ R.item = r.item /\ R.cfg = r.cfg
    BY <1>1, <1>3, <2>1 DEF Ends, ProcState
  <2>3. SyncSound(R)
    BY <1>1, <2>2 DEF SyncSound, Flushing
  <2> QED BY <2>2, <2>3, SyncAlone
<1> QED BY <1>2, <1>3

LEMMA FlushesSync ==
  ASSUME QueueAssumption, PInv, SyncInv, NEW p \in Procs, Flushes(p) \/ ConflictInterrupted(p)
  PROVE  SyncInv'
<1>1. PICK r \in ProcState : r = proc[p] /\ SyncSound(r)
  BY DEF PInv, ProcsOK, SyncInv
<1>2. CASE StartFlush(p)
  <2>1. PICK R \in ProcState : R = [r EXCEPT !.pc = "reading", !.cfg = config,
                                             !.kind = IF r.kind = None THEN "flush" ELSE r.kind]
    BY StartTyped DEF PInv, FilesOK
  <2>2. /\ proc' = [proc EXCEPT ![p] = R] /\ R.pc = "reading" /\ R.cfg = config
        /\ R.item = r.item /\ R.reason = r.reason
        /\ UNCHANGED <<config, queue, held, portal>> /\ r.pc \in {"idle", "starting"}
    BY <1>1, <1>2, <2>1 DEF StartFlush, ProcState, files
  <2>3. r.pc = "idle" => r.item = None
    BY <1>1 DEF SyncSound
  <2>4. SyncSound(R)
    BY <1>1, <2>2, <2>3 DEF SyncSound, Flushing
  <2> QED BY <2>2, <2>4, SyncAlone
<1>3. CASE NotEnrolled(p)
  BY <1>1, <1>3 DEF NotEnrolled, SyncInv, SyncSound, QueueAssumption
<1>4. CASE ReadQueue(p)
  <2>1. PICK R \in ProcState :
          R = [r EXCEPT !.left = queue, !.pc = IF queue = <<>> THEN "succeeding" ELSE "posting"]
    BY DEF PInv, FilesOK, ProcState
  <2>2. /\ proc' = [proc EXCEPT ![p] = R] /\ R.left = queue /\ R.cfg = r.cfg
        /\ R.item = r.item /\ R.reason = r.reason /\ R.pc \in {"succeeding", "posting"}
        /\ (R.pc = "succeeding" => queue = <<>>)
        /\ UNCHANGED <<config, queue, held, portal>> /\ r.pc = "reading"
    BY <1>1, <1>4, <2>1 DEF ReadQueue, ProcState, files
  <2>3. queue = <<>> => Ids(queue) = {}
    BY Empty
  <2>4. SyncSound(R)
    BY <1>1, <2>2, <2>3 DEF SyncSound, Flushing, OnItsWay
  <2> QED BY <2>2, <2>4, SyncAlone
<1>5. CASE Acknowledged(p)
  BY <1>5, RemovingSync DEF Acknowledged, SyncInv
<1>6. CASE Conflict(p)
  <2>1. \A e \in Elements(held') : e.dest = config
    BY <1>6, MarkOne DEF Conflict
  <2> QED BY <1>6, <2>1, RemovingSync DEF Conflict
<1>7. CASE ConflictInterrupted(p)
  <2>1. \A e \in Elements(held') : e.dest = config
    BY <1>7, MarkOne DEF ConflictInterrupted
  <2>2. NoneLost
    BY <1>7 DEF ConflictInterrupted, NoneLost, There
  <2>3. PICK R \in ProcState : R = Fresh
    BY FreshTyped
  <2>4. proc' = [proc EXCEPT ![p] = R] /\ SyncSound(R)'
    BY <1>7, <2>2, <2>3, FreshSync, StaysSync DEF ConflictInterrupted
  <2> QED BY <2>1, <2>2, <2>4, SyncMoves DEF PInv
<1>8. CASE Fails(p)
  BY <1>8, EndsSync DEF Fails
<1>9. CASE Succeed(p)
  BY <1>9, EndsSync DEF Succeed
<1>10. CASE Remove(p)
  <2>1. r.pc = "removing" /\ r.left # <<>> /\ r.left \in Seq(Item) /\ r.cfg = config
    BY <1>1, <1>10, ProcFields DEF Remove, PInv, ProcsOK, Sound, Flushing, SyncSound
  <2>2. PICK s \in Snaps : s = Head(r.left).id /\ There(config, s)
    BY <1>1, <2>1, HeadSound DEF PInv, ProcsOK, Sound, Flushing
  <2>3. UNCHANGED <<config, held, portal>>
    BY <1>10 DEF Remove
  <2>4. \A i \in Snaps : i \in Ids(queue) => i \in Ids(queue') \/ i = s
    BY <1>1, <1>10, <2>2, RemoveDropsHead
  <2>5. NoneLost
    BY <2>2, <2>3, <2>4 DEF NoneLost, There
  <2>6. PICK R \in ProcState : R = [r EXCEPT !.left = Tail(r.left),
                                            !.pc = IF Len(r.left) = 1 THEN "succeeding" ELSE "posting"]
    BY <2>1, HeadTail DEF ProcState
  <2>7. /\ proc' = [proc EXCEPT ![p] = R] /\ R.left = Tail(r.left) /\ R.cfg = r.cfg
        /\ R.item = r.item /\ R.reason = r.reason /\ R.pc \in {"succeeding", "posting"}
        /\ (R.pc = "succeeding" => Len(r.left) = 1)
    BY <1>1, <1>10, <2>6 DEF Remove, ProcState
  <2>8. /\ Ids(r.left) \subseteq Ids(Tail(r.left)) \cup {s}
        /\ Len(r.left) = 1 => Ids(r.left) \subseteq {s}
    BY <2>1, <2>2, HeadTailIds
  <2>9. SyncSound(R)
    BY <1>1, <2>1, <2>2, <2>7, <2>8 DEF SyncSound, Flushing
  <2>10. SyncSound(R)'
    BY <2>5, <2>9, StaysSync
  <2> QED BY <2>3, <2>5, <2>7, <2>10, SyncMoves DEF PInv, SyncInv
<1> QED BY <1>2, <1>3, <1>4, <1>5, <1>6, <1>7, <1>8, <1>9, <1>10 DEF Flushes

LEMMA NextSync ==
  ASSUME QueueAssumption, ~Reconfigure, PInv, SyncInv, [Next]_vars
  PROVE  SyncInv'
<1>1. CASE UNCHANGED vars
  BY <1>1 DEF vars, files, SyncInv, SyncSound, OnItsWay, There
<1>2. ASSUME NEW d \in Dests \cup {None}, Enroll(d) PROVE FALSE
  BY <1>2 DEF Enroll
<1>3. ASSUME NEW p \in Procs, NEW kind \in {"hook", "sync", "retained"}, NEW s \in Snaps,
             Build(p, kind, s)
      PROVE  SyncInv'
  <2>1. PICK R \in ProcState : R = [Fresh EXCEPT !.pc = "queueing", !.kind = kind, !.cfg = config,
                                                 !.item = Built(s)]
    <3>1. Built(s) \in Item /\ config \in Dests /\ kind \in Kinds
      BY <1>3 DEF Build, Built, PInv, FilesOK, Item, Time, Kinds
    <3> QED BY <3>1, FreshTyped DEF ProcState, Fresh
  <2>2. /\ proc' = [proc EXCEPT ![p] = R] /\ R.pc = "queueing" /\ R.cfg = config
        /\ UNCHANGED <<config, queue, held, portal>>
    BY <1>3, <2>1 DEF Build, Fresh, files
  <2>3. SyncSound(R)
    BY <2>2 DEF SyncSound, Flushing
  <2> QED BY <2>2, <2>3, SyncAlone
<1>4. ASSUME NEW p \in Procs, NotConfigured(p) PROVE FALSE
  BY <1>4 DEF NotConfigured, SyncInv, QueueAssumption
<1>5. ASSUME NEW p \in Procs, Return(p) \/ Stops(p) PROVE SyncInv'
  BY <1>5, FreshAlone DEF Return, Stops, files
<1> QED BY <1>1, <1>2, <1>3, <1>4, <1>5, QueuesSync, FlushesSync, PostSync DEF Next

LEMMA InitSync ==
  ASSUME Init
  PROVE  SyncInv
<1>1. \A p \in Procs : SyncSound(proc[p])
  BY FreshSync DEF Init
<1> QED BY <1>1, Empty DEF Init, SyncInv

LEMMA SyncTold ==
  ASSUME PInv, SyncInv
  PROVE  SyncOkDelivered
<1>1. ASSUME NEW p \in Procs, proc[p].pc = "returned", proc[p].ok, proc[p].item # None
      PROVE  portal[proc[p].cfg][proc[p].item.id] # 0
  BY <1>1 DEF SyncInv, SyncSound, There
<1> QED BY <1>1 DEF SyncOkDelivered

-----------------------------------------------------------------------------
(* The whole *)

DeliveryInv == PInv /\ (AllRecorded => BodyInv) /\ (~Reconfigure => SyncInv)

\* The delivery queue tells the truth: no file names a thing twice, a mark of a
\* snapshot held is true, "healthy" hides no loss, a body is always the same
\* while every time is recorded, and, while the enrollment does not change, a
\* `portal sync` that reports success left its snapshot at the Portal.
THEOREM DeliveryToldTruly ==
  ASSUME QueueAssumption, IsFiniteSet(Snaps)
  PROVE  Spec => []DeliveryIsTrue
<1>1. Init => DeliveryInv
  BY InitSound, InitBody, InitSync DEF DeliveryInv
<1>2. DeliveryInv /\ [Next]_vars => DeliveryInv'
  BY NextSound, NextBody, NextSync DEF DeliveryInv, AllRecorded
<1>3. DeliveryInv => DeliveryIsTrue
  BY FilesTrue, BodyIsOne, SyncTold DEF DeliveryInv, AllRecorded, DeliveryIsTrue
<1> QED BY <1>1, <1>2, <1>3, PTL DEF Spec

-----------------------------------------------------------------------------
(* The policy gate, for any hooks, calls, profiles and bounds, and for        *)
(* processes that read and write back the approvals at once: a blocked call   *)
(* is let through at most as often as it was granted and as writes of an      *)
(* older file gave uses back, and under the strict profile a hook that        *)
(* answers denies what was not recorded.                                      *)

-----------------------------------------------------------------------------
(* Types *)

Effects == {"allow", "observe", "ask", "deny"}
GatePcs == {"idle", "consume", "record", "check", "state", "answered", "threw"}
HookType == [pc : GatePcs, act : Acts \cup {Gate!AnyAct}, profile : Profiles, checked : Profiles,
             seen : [Acts -> 0..MaxUses], approved : BOOLEAN, decision : Effects, recorded : BOOLEAN]
GranterType == [pc : {"idle", "write"}, act : Acts \cup {Gate!AnyAct}, uses : 0..MaxUses,
                seen : [Acts -> 0..MaxUses]]

\* The types of the files and of the processes; a process at work has a call.
TypeInv ==
  /\ profile \in Profiles /\ approvals \in [Acts -> 0..MaxUses] /\ live \subseteq Acts
  /\ hook \in [Hooks -> HookType] /\ granter \in GranterType
  /\ calls \in [Hooks -> Nat] /\ grants \in Nat
  /\ given \in [Acts -> Nat] /\ ran \in [Acts -> Nat] /\ regained \in [Acts -> Nat]
  /\ \A h \in Hooks : hook[h].pc # "idle" => hook[h].act \in Acts
  /\ \A h \in Hooks : Gate!At(h, "consume") /\ hook[h].approved => hook[h].seen[hook[h].act] > 0
  /\ granter.pc = "write" => granter.act \in Acts

LEMMA BuiltinEffects == \A r \in DOMAIN Gate!Builtin : Gate!Builtin[r].effect \in Effects
  BY DEF Gate!Builtin, Gate!Rule, Effects

LEMMA MatchedRules == \A a \in DOMAIN Gate!Matches : Gate!Matches[a] \subseteq DOMAIN Gate!Builtin
  BY DEF Gate!Builtin, Gate!Matches

LEMMA ProfileEffectType ==
  ASSUME NEW p, NEW r \in DOMAIN Gate!Builtin
  PROVE  Gate!ProfileEffect(p, Gate!Builtin[r]) \in Effects
  BY BuiltinEffects DEF Gate!ProfileEffect, Effects

\* Of a set of effects that is not empty, one has the greatest weight.
LEMMA GreatestWeight ==
  ASSUME NEW S, S \subseteq Effects, S # {}
  PROVE  \E e \in S : \A f \in S : Gate!Weight[f] <= Gate!Weight[e]
<1>1. /\ Gate!Weight["allow"] = 0 /\ Gate!Weight["observe"] = 1 /\ Gate!Weight["ask"] = 2 /\ Gate!Weight["deny"] = 3
  BY DEF Gate!Weight
<1>2. CASE "deny" \in S
  BY <1>1, <1>2 DEF Effects
<1>3. CASE "deny" \notin S /\ "ask" \in S
  BY <1>1, <1>3 DEF Effects
<1>4. CASE "deny" \notin S /\ "ask" \notin S /\ "observe" \in S
  BY <1>1, <1>4 DEF Effects
<1>5. CASE "deny" \notin S /\ "ask" \notin S /\ "observe" \notin S
  <2>1. S = {"allow"}
    BY <1>5 DEF Effects
  <2> QED BY <1>1, <2>1
<1> QED BY <1>2, <1>3, <1>4, <1>5

LEMMA StrongestType ==
  ASSUME Gate!ToolGateAssumption, NEW p, NEW a \in Acts
  PROVE  Gate!Strongest(p, a) \in Effects
<1> DEFINE S == {Gate!ProfileEffect(p, Gate!Builtin[r]) : r \in Gate!Matches[a]}
<1>1. S \subseteq Effects
  BY MatchedRules, ProfileEffectType DEF Gate!ToolGateAssumption
<1>2. S # {} => \E e \in S : \A f \in S : Gate!Weight[f] <= Gate!Weight[e]
  BY <1>1, GreatestWeight
<1>3. S # {} => (CHOOSE e \in S : \A f \in S : Gate!Weight[f] <= Gate!Weight[e]) \in S
  BY <1>2
<1>4. Gate!Strongest(p, a) = IF S = {} THEN "allow" ELSE CHOOSE e \in S : \A f \in S : Gate!Weight[f] <= Gate!Weight[e]
  BY DEF Gate!Strongest
<1> HIDE DEF S
<1> QED BY <1>1, <1>3, <1>4 DEF Effects

-----------------------------------------------------------------------------
(* Steps *)

\* One case for each action.
LEMMA GateStepCases ==
  ASSUME [Gate!Next]_Gate!vars, NEW P,
         UNCHANGED Gate!vars => P,
         \A h \in Hooks : (\E a \in Acts : Gate!Call(h, a)) => P,
         \A h \in Hooks : Gate!Consume(h) => P,
         \A h \in Hooks : Gate!Record(h) => P,
         \A h \in Hooks : Gate!Check(h) => P,
         \A h \in Hooks : Gate!UpdateState(h) \/ Gate!StateThrows(h) \/ Gate!Return(h) => P,
         (\E a \in Acts, n \in 1..MaxUses : Gate!GrantReads(a, n)) => P,
         Gate!GrantWrites => P,
         (\E a \in Acts : Gate!Expire(a)) \/ (\E p \in Profiles : Gate!InitPolicy(p)) => P
  PROVE  P
  BY DEF Gate!Next

\* The fields of a hook that a step changes.
LEMMA GateChanged ==
  ASSUME NEW r \in HookType, NEW pc \in GatePcs
  PROVE  /\ [r EXCEPT !.pc = pc] \in HookType
         /\ \A s \in [Acts -> 0..MaxUses] : [r EXCEPT !.pc = pc, !.seen = s] \in HookType
         /\ \A b \in BOOLEAN : [r EXCEPT !.pc = pc, !.recorded = b] \in HookType
         /\ \A d \in Effects : [r EXCEPT !.pc = pc, !.decision = d] \in HookType
         /\ \A p \in Profiles, d \in Effects : [r EXCEPT !.pc = pc, !.checked = p, !.decision = d] \in HookType
  BY DEF HookType

\* A hook at work has a call, and an approval it is about to use has a use left.
GateSound(r) == /\ r.pc # "idle" => r.act \in Acts
                /\ r.pc = "consume" /\ r.approved => r.seen[r.act] > 0

\* A step that changes one hook.
LEMMA OneHook ==
  ASSUME TypeInv, NEW h \in Hooks, NEW r \in HookType, Gate!Becomes(h, r), GateSound(r),
         UNCHANGED <<granter, grants>>, profile' \in Profiles, approvals' \in [Acts -> 0..MaxUses],
         live' \subseteq Acts, calls' \in [Hooks -> Nat], given' \in [Acts -> Nat], ran' \in [Acts -> Nat],
         regained' \in [Acts -> Nat]
  PROVE  TypeInv'
<1>1. hook' \in [Hooks -> HookType]
  BY DEF TypeInv, Gate!Becomes
<1>2. \A k \in Hooks : hook'[k] = IF k = h THEN r ELSE hook[k]
  BY DEF TypeInv, Gate!Becomes
<1> QED BY <1>1, <1>2 DEF TypeInv, GateSound, Gate!At

\* What a call reads and decides.
LEMMA CallReads ==
  ASSUME Gate!ToolGateAssumption, TypeInv, NEW h \in Hooks, NEW a \in Acts, Gate!Call(h, a)
  PROVE  \E pc \in {"consume", "record"}, seen \in [Acts -> 0..MaxUses], d \in Effects :
           /\ hook' = [hook EXCEPT ![h] =
                [pc |-> pc, act |-> a, profile |-> profile, checked |-> "balanced", seen |-> seen,
                 approved |-> Gate!Usable(a), recorded |-> FALSE, decision |-> d]]
           /\ pc = "consume" => seen = approvals
           /\ Gate!Usable(a) => pc = "consume" /\ seen[a] > 0
           /\ d \in {"allow", "observe"} /\ Gate!Blocked(profile, a) => Gate!Usable(a)
<1> DEFINE pc == IF approvals[a] > 0 THEN "consume" ELSE "record"
           seen == IF approvals[a] > 0 THEN approvals ELSE Gate!None0
           d == IF Gate!Usable(a) /\ Gate!Blocked(profile, a) THEN "allow" ELSE Gate!Strongest(profile, a)
<1>1. hook' = [hook EXCEPT ![h] =
                [pc |-> pc, act |-> a, profile |-> profile, checked |-> "balanced", seen |-> seen,
                 approved |-> Gate!Usable(a), recorded |-> FALSE, decision |-> d]]
  BY DEF Gate!Call, Gate!Becomes
<1>2. d \in Effects
  BY StrongestType DEF Effects
<1>3. seen \in [Acts -> 0..MaxUses]
  BY DEF TypeInv, Gate!None0, Gate!ToolGateAssumption
<1>4. pc = "consume" => seen = approvals
  OBVIOUS
<1>5. Gate!Usable(a) => pc = "consume" /\ seen[a] > 0
  BY DEF Gate!Usable
<1>6. d \in {"allow", "observe"} /\ Gate!Blocked(profile, a) => Gate!Usable(a)
  BY DEF Gate!Blocked
<1>7. pc \in {"consume", "record"}
  OBVIOUS
<1> HIDE DEF pc, seen, d
<1> WITNESS pc \in {"consume", "record"}, seen \in [Acts -> 0..MaxUses], d \in Effects
<1> QED BY <1>1, <1>4, <1>5, <1>6

\* What writing back an older file gives back makes up for what it says more.
LEMMA BackType ==
  ASSUME Gate!ToolGateAssumption, TypeInv, NEW read \in [Acts -> 0..MaxUses], NEW a \in Acts
  PROVE  Gate!GivenBack(read, a) \in Nat /\ read[a] <= approvals[a] + Gate!GivenBack(read, a)
<1>1. read[a] \in Nat /\ approvals[a] \in Nat
  BY DEF TypeInv, Gate!ToolGateAssumption
<1> QED BY <1>1 DEF Gate!GivenBack

LEMMA TypeInit == ASSUME Gate!ToolGateAssumption, Gate!Init PROVE TypeInv
<1>1. Gate!None0 \in [Acts -> 0..MaxUses] /\ Gate!None0 \in [Acts -> Nat]
  BY DEF Gate!None0, Gate!ToolGateAssumption
<1>2. Gate!NoHook \in HookType /\ Gate!NoHook.pc = "idle"
  BY <1>1 DEF Gate!NoHook, HookType, GatePcs, Effects, Gate!ToolGateAssumption
<1>3. granter \in GranterType /\ granter.pc = "idle"
  BY <1>1 DEF Gate!Init, GranterType, Gate!NoHook, Gate!ToolGateAssumption
<1> QED BY <1>1, <1>2, <1>3 DEF Gate!Init, TypeInv, Gate!At, Gate!ToolGateAssumption

LEMMA TypeStep == ASSUME Gate!ToolGateAssumption, TypeInv, [Gate!Next]_Gate!vars PROVE TypeInv'
<1>1. ASSUME UNCHANGED Gate!vars PROVE TypeInv'
  BY <1>1 DEF Gate!vars, TypeInv, Gate!At
<1>2. ASSUME NEW h \in Hooks, NEW a \in Acts, Gate!Call(h, a) PROVE TypeInv'
  <2>1. PICK pc \in {"consume", "record"}, seen \in [Acts -> 0..MaxUses], d \in Effects :
           /\ hook' = [hook EXCEPT ![h] =
                [pc |-> pc, act |-> a, profile |-> profile, checked |-> "balanced", seen |-> seen,
                 approved |-> Gate!Usable(a), recorded |-> FALSE, decision |-> d]]
           /\ Gate!Usable(a) => seen[a] > 0
    BY <1>2, CallReads
  <2> DEFINE r == [pc |-> pc, act |-> a, profile |-> profile, checked |-> "balanced", seen |-> seen,
                   approved |-> Gate!Usable(a), recorded |-> FALSE, decision |-> d]
  <2>2. r \in HookType /\ GateSound(r)
    BY <2>1 DEF HookType, GatePcs, GateSound, Gate!Usable, Gate!ToolGateAssumption, TypeInv
  <2>3. calls' \in [Hooks -> Nat]
    BY <1>2 DEF Gate!Call, TypeInv
  <2>4. Gate!Becomes(h, r)
    BY <2>1 DEF Gate!Becomes
  <2> HIDE DEF r
  <2> QED BY <1>2, <2>2, <2>3, <2>4, OneHook DEF Gate!Call, TypeInv
<1>3. ASSUME NEW h \in Hooks, Gate!Consume(h) PROVE TypeInv'
  <2> DEFINE r == [hook[h] EXCEPT !.pc = "record", !.seen = Gate!None0]
  <2>1. hook[h] \in HookType /\ hook[h].act \in Acts /\ (hook[h].approved => hook[h].seen[hook[h].act] > 0)
    BY <1>3 DEF Gate!Consume, TypeInv, Gate!At
  <2>2. Gate!AfterUse(h) \in [Acts -> 0..MaxUses]
    BY <2>1 DEF Gate!AfterUse, HookType, Gate!ToolGateAssumption
  <2>3. Gate!None0 \in [Acts -> 0..MaxUses] /\ "record" \in GatePcs
    BY DEF Gate!None0, Gate!ToolGateAssumption, GatePcs
  <2>4. r \in HookType
    BY <2>1, <2>3, GateChanged
  <2>5. r.pc = "record" /\ r.act = hook[h].act
    BY <2>1 DEF HookType
  <2>6. GateSound(r) /\ Gate!Becomes(h, r)
    BY <1>3, <2>1, <2>5 DEF Gate!Consume, GateSound
  <2>7. regained' \in [Acts -> Nat]
    <3>1. \A a \in Acts : regained[a] \in Nat /\ Gate!GivenBack(hook[h].seen, a) \in Nat
      BY <2>1, BackType DEF TypeInv, HookType
    <3> QED BY <1>3, <3>1 DEF Gate!Consume
  <2> HIDE DEF r
  <2> QED BY <1>3, <2>2, <2>4, <2>6, <2>7, OneHook DEF Gate!Consume, TypeInv
<1>4. ASSUME NEW h \in Hooks, Gate!Record(h) PROVE TypeInv'
  <2>1. PICK ok \in BOOLEAN : Gate!Becomes(h, [hook[h] EXCEPT !.pc = "check", !.recorded = ok])
    BY <1>4 DEF Gate!Record, Gate!ToolGateAssumption
  <2>2. hook[h] \in HookType /\ hook[h].act \in Acts
    BY <1>4 DEF Gate!Record, TypeInv, Gate!At
  <2> DEFINE r == [hook[h] EXCEPT !.pc = "check", !.recorded = ok]
  <2>3. r \in HookType
    BY <2>2, GateChanged DEF GatePcs
  <2>4. r.pc = "check" /\ r.act = hook[h].act
    BY <2>2 DEF HookType
  <2>5. GateSound(r)
    BY <2>2, <2>4 DEF GateSound
  <2> HIDE DEF r
  <2> QED BY <1>4, <2>1, <2>3, <2>5, OneHook DEF Gate!Record, TypeInv, r
<1>5. ASSUME NEW h \in Hooks, Gate!Check(h) PROVE TypeInv'
  <2> DEFINE d == IF Gate!Denies(h) THEN "deny" ELSE hook[h].decision
             r == [hook[h] EXCEPT !.pc = "state", !.checked = profile, !.decision = d]
  <2>1. hook[h] \in HookType /\ hook[h].act \in Acts
    BY <1>5 DEF Gate!Check, TypeInv, Gate!At
  <2>2. d \in Effects
    BY <2>1 DEF HookType, Effects
  <2>3. Gate!Becomes(h, r)
    BY <1>5 DEF Gate!Check
  <2> HIDE DEF d
  <2>4. r \in HookType
    BY <2>1, <2>2, GateChanged DEF GatePcs, TypeInv
  <2>5. r.pc = "state" /\ r.act = hook[h].act
    BY <2>1 DEF HookType
  <2>6. GateSound(r)
    BY <2>1, <2>5 DEF GateSound
  <2> HIDE DEF r
  <2> QED BY <1>5, <2>3, <2>4, <2>6, OneHook DEF Gate!Check, TypeInv
<1>6. ASSUME NEW h \in Hooks, Gate!UpdateState(h) \/ Gate!StateThrows(h) \/ Gate!Return(h) PROVE TypeInv'
  <2>1. hook[h] \in HookType /\ (~ Gate!Return(h) => hook[h].act \in Acts)
    BY <1>6 DEF Gate!UpdateState, Gate!StateThrows, TypeInv, Gate!At
  <2>2. PICK r \in HookType : Gate!Becomes(h, r) /\ GateSound(r)
    <3>1. CASE Gate!UpdateState(h)
      <4>1. hook[h].act \in Acts /\ "answered" \in GatePcs
        BY <2>1, <3>1 DEF Gate!UpdateState, Gate!Return, Gate!At, GatePcs
      <4> DEFINE r == [hook[h] EXCEPT !.pc = "answered"]
      <4>2. r \in HookType /\ r.pc = "answered" /\ r.act = hook[h].act
        BY <2>1, <4>1, GateChanged DEF HookType
      <4>3. Gate!Becomes(h, r)
        BY <3>1 DEF Gate!UpdateState
      <4> HIDE DEF r
      <4> QED BY <4>1, <4>2, <4>3 DEF GateSound
    <3>2. CASE Gate!StateThrows(h)
      <4>1. hook[h].act \in Acts /\ "threw" \in GatePcs /\ "allow" \in Effects
        BY <2>1, <3>2 DEF Gate!StateThrows, Gate!Return, Gate!At, GatePcs, Effects
      <4> DEFINE r == [hook[h] EXCEPT !.pc = "threw", !.decision = "allow"]
      <4>2. r \in HookType /\ r.pc = "threw" /\ r.act = hook[h].act
        BY <2>1, <4>1, GateChanged DEF HookType
      <4>3. Gate!Becomes(h, r)
        BY <3>2 DEF Gate!StateThrows
      <4> HIDE DEF r
      <4> QED BY <4>1, <4>2, <4>3 DEF GateSound
    <3>3. CASE Gate!Return(h)
      <4>1. Gate!NoHook \in HookType /\ Gate!NoHook.pc = "idle"
        BY DEF Gate!NoHook, HookType, GatePcs, Effects, Gate!None0, Gate!ToolGateAssumption
      <4> QED BY <3>3, <4>1 DEF Gate!Return, GateSound
    <3> QED BY <1>6, <3>1, <3>2, <3>3
  <2>3. ran' \in [Acts -> Nat]
    BY <1>6 DEF Gate!UpdateState, Gate!StateThrows, Gate!Return, TypeInv
  <2> QED BY <1>6, <2>2, <2>3, OneHook DEF Gate!UpdateState, Gate!StateThrows, Gate!Return, TypeInv
<1>7. ASSUME NEW a \in Acts, NEW n \in 1..MaxUses, Gate!GrantReads(a, n) PROVE TypeInv'
  BY <1>7 DEF Gate!GrantReads, GranterType, TypeInv, Gate!At
<1>8. ASSUME Gate!GrantWrites PROVE TypeInv'
  <2>1. granter \in GranterType /\ granter.act \in Acts
    BY <1>8 DEF Gate!GrantWrites, TypeInv
  <2>2. Gate!None0 \in [Acts -> 0..MaxUses]
    BY DEF Gate!None0, Gate!ToolGateAssumption
  <2>3. granter' \in GranterType /\ granter'.pc = "idle"
    BY <1>8, <2>1, <2>2 DEF Gate!GrantWrites, GranterType
  <2>4. /\ approvals' \in [Acts -> 0..MaxUses] /\ live' \subseteq Acts
        /\ given' \in [Acts -> Nat] /\ ran' \in [Acts -> Nat]
    BY <1>8, <2>1 DEF Gate!GrantWrites, GranterType, TypeInv
  <2>5. regained' \in [Acts -> Nat]
    <3>1. \A a \in Acts : regained[a] \in Nat /\ Gate!GivenBack(granter.seen, a) \in Nat
      BY <2>1, BackType DEF TypeInv, GranterType
    <3> QED BY <1>8, <3>1 DEF Gate!GrantWrites
  <2> QED BY <1>8, <2>3, <2>4, <2>5 DEF Gate!GrantWrites, TypeInv, Gate!At
<1>9. ASSUME (\E a \in Acts : Gate!Expire(a)) \/ (\E p \in Profiles : Gate!InitPolicy(p)) PROVE TypeInv'
  BY <1>9 DEF Gate!Expire, Gate!InitPolicy, TypeInv, Gate!At
<1> QED BY <1>1, <1>2, <1>3, <1>4, <1>5, <1>6, <1>7, <1>8, <1>9, GateStepCases

LEMMA Types == Gate!ToolGateAssumption => (Gate!Spec => []TypeInv)
<1> SUFFICES ASSUME Gate!ToolGateAssumption PROVE Gate!Spec => []TypeInv
  OBVIOUS
<1> QED BY TypeInit, TypeStep, PTL DEF Gate!Spec

\* The hook that acts: the only one a step changes.
LEMMA Acting ==
  ASSUME TypeInv, NEW h \in Hooks, NEW r, Gate!Becomes(h, r)
  PROVE  \A k \in Hooks : hook'[k] = IF k = h THEN r ELSE hook[k]
  BY DEF TypeInv, Gate!Becomes

-----------------------------------------------------------------------------
(* What is let through was paid for *)

\* A hook on its way to its answer that has used an approval, and those for a call.
InFlight(h, a) == hook[h].pc \in {"record", "check", "state"} /\ hook[h].approved /\ hook[h].act = a
Flying(a) == {h \in Hooks : InFlight(h, a)}

\* It passes a blocked call only because it has used one.
Earned(h) == /\ hook[h].pc \in {"consume", "record", "check", "state"}
             /\ hook[h].decision \in {"allow", "observe"} /\ Gate!Blocked(hook[h].profile, hook[h].act)
             => hook[h].approved

\* Every use granted or given back is left, in use or was spent.
PaidFor(a) == ran[a] + approvals[a] + Cardinality(Flying(a)) <= given[a] + regained[a]
PaidInv == /\ \A h \in Hooks : Earned(h)
           /\ \A a \in Acts : IsFiniteSet(Flying(a)) /\ PaidFor(a)

\* One hook moves: it takes off, lands, or neither.
LEMMA OneFlies ==
  ASSUME NEW a, IsFiniteSet(Flying(a)), NEW h \in Hooks, \A k \in Hooks : k # h => hook'[k] = hook[k]
  PROVE  /\ IsFiniteSet(Flying(a)') /\ Cardinality(Flying(a)) \in Nat
         /\ (InFlight(h, a)' <=> InFlight(h, a)) => Cardinality(Flying(a)') = Cardinality(Flying(a))
         /\ InFlight(h, a)' /\ ~InFlight(h, a) => Cardinality(Flying(a)') = Cardinality(Flying(a)) + 1
         /\ ~(InFlight(h, a)') /\ InFlight(h, a) => Cardinality(Flying(a)') = Cardinality(Flying(a)) - 1
<1>1. \A k \in Hooks : k # h => (InFlight(k, a)' <=> InFlight(k, a))
  BY DEF InFlight
<1>2. h \in Flying(a) <=> InFlight(h, a)
  BY DEF Flying
<1>3. (InFlight(h, a)' <=> InFlight(h, a)) => Flying(a)' = Flying(a)
  BY <1>1 DEF Flying
<1>4. InFlight(h, a)' /\ ~InFlight(h, a) => Flying(a)' = Flying(a) \cup {h}
  BY <1>1 DEF Flying
<1>5. ~(InFlight(h, a)') /\ InFlight(h, a) => Flying(a)' = Flying(a) \ {h}
  BY <1>1 DEF Flying
<1>6. Cardinality(Flying(a)) \in Nat
  BY FS_CardinalityType
<1>7. /\ IsFiniteSet(Flying(a) \cup {h}) /\ IsFiniteSet(Flying(a) \ {h})
      /\ h \notin Flying(a) => Cardinality(Flying(a) \cup {h}) = Cardinality(Flying(a)) + 1
      /\ h \in Flying(a) => Cardinality(Flying(a) \ {h}) = Cardinality(Flying(a)) - 1
  BY FS_AddElement, FS_RemoveElement
<1> HIDE DEF InFlight, Flying
<1> QED BY <1>2, <1>3, <1>4, <1>5, <1>6, <1>7

LEMMA PaidInit == ASSUME Gate!ToolGateAssumption, Gate!Init PROVE PaidInv
<1>1. \A h \in Hooks : Earned(h)
  BY DEF Gate!Init, Gate!NoHook, Earned
<1>2. \A a \in Acts : Flying(a) = {}
  BY DEF Gate!Init, Gate!NoHook, Flying, InFlight
<1>3. \A a \in Acts : ran[a] = 0 /\ approvals[a] = 0 /\ given[a] = 0 /\ regained[a] = 0
  BY DEF Gate!Init, Gate!None0
<1> QED BY <1>1, <1>2, <1>3, FS_EmptySet DEF PaidInv, PaidFor

\* What a step of one hook has to show for each call.
LEMMA PaidKept ==
  ASSUME PaidInv, NEW h \in Hooks, \A k \in Hooks : k # h => hook'[k] = hook[k], Earned(h)',
         \A a \in Acts : IsFiniteSet(Flying(a)') => PaidFor(a)'
  PROVE  PaidInv'
<1>1. \A k \in Hooks : Earned(k)'
  BY DEF PaidInv, Earned
<1>2. \A a \in Acts : IsFiniteSet(Flying(a)')
  BY OneFlies DEF PaidInv
<1> QED BY <1>1, <1>2 DEF PaidInv

\* A step that uses and grants nothing.
LEMMA NothingPaid ==
  ASSUME PaidInv, NEW h \in Hooks, \A k \in Hooks : k # h => hook'[k] = hook[k], Earned(h)',
         \A a \in Acts : InFlight(h, a)' <=> InFlight(h, a), UNCHANGED <<approvals, given, ran, regained>>
  PROVE  PaidInv'
<1>1. \A a \in Acts : PaidFor(a)'
  <2> TAKE a \in Acts
  <2>1. Cardinality(Flying(a)') = Cardinality(Flying(a))
    BY OneFlies DEF PaidInv
  <2> QED BY <2>1 DEF PaidInv, PaidFor
<1> QED BY <1>1, PaidKept

\* The numbers of one call.
LEMMA PaidTypes ==
  ASSUME Gate!ToolGateAssumption, TypeInv, PaidInv, NEW a \in Acts
  PROVE  /\ ran[a] \in Nat /\ approvals[a] \in Nat /\ given[a] \in Nat /\ regained[a] \in Nat
         /\ Cardinality(Flying(a)) \in Nat /\ PaidFor(a)
  BY FS_CardinalityType DEF TypeInv, PaidInv, Gate!ToolGateAssumption

\* A use becomes one in flight; what the file that is written back says more was given back.
LEMMA ConsumePays ==
  ASSUME Gate!ToolGateAssumption, TypeInv, PaidInv, NEW h \in Hooks, Gate!Consume(h)
  PROVE  PaidInv'
<1> DEFINE r == [hook[h] EXCEPT !.pc = "record", !.seen = Gate!None0]
<1>1. \A k \in Hooks : hook'[k] = IF k = h THEN r ELSE hook[k]
  BY Acting DEF Gate!Consume
<1>2. /\ hook[h] \in HookType /\ hook[h].act \in Acts /\ hook[h].pc = "consume"
      /\ hook[h].approved => hook[h].seen[hook[h].act] > 0
  BY DEF Gate!Consume, TypeInv, Gate!At
<1>3. /\ r.pc = "record" /\ r.approved = hook[h].approved /\ r.act = hook[h].act
      /\ r.decision = hook[h].decision /\ r.profile = hook[h].profile
  BY <1>2 DEF HookType
<1> HIDE DEF r
<1>4. hook'[h] = r /\ \A k \in Hooks : k # h => hook'[k] = hook[k]
  BY <1>1
<1>5. Earned(h)'
  BY <1>2, <1>3, <1>4 DEF PaidInv, Earned
<1>6. ASSUME NEW a \in Acts PROVE PaidFor(a)'
  <2>1. hook[h].seen \in [Acts -> 0..MaxUses] /\ hook[h].seen[a] \in Nat
    BY <1>2 DEF HookType, Gate!ToolGateAssumption
  <2>2. Gate!GivenBack(hook[h].seen, a) \in Nat /\ hook[h].seen[a] <= approvals[a] + Gate!GivenBack(hook[h].seen, a)
    BY <2>1, BackType
  <2>3. UNCHANGED <<given, ran>> /\ ~InFlight(h, a)
    BY <1>2 DEF Gate!Consume, InFlight
  <2>4. CASE a = hook[h].act /\ hook[h].approved
    <3>1. approvals'[a] = hook[h].seen[a] - 1 /\ regained'[a] = regained[a] + Gate!GivenBack(hook[h].seen, a)
      BY <2>1, <2>4 DEF Gate!Consume, Gate!AfterUse
    <3>2. InFlight(h, a)'
      BY <1>3, <1>4, <2>4 DEF InFlight
    <3>3. Cardinality(Flying(a)') = Cardinality(Flying(a)) + 1
      BY <1>4, <2>3, <3>2, OneFlies DEF PaidInv
    <3> QED BY <2>1, <2>2, <2>3, <3>1, <3>3, PaidTypes DEF PaidFor
  <2>5. CASE a = hook[h].act /\ ~hook[h].approved
    <3>1. approvals'[a] = 0 /\ regained'[a] = regained[a]
      BY <2>1, <2>5 DEF Gate!Consume, Gate!AfterUse
    <3>2. ~(InFlight(h, a)')
      BY <1>3, <1>4, <2>5 DEF InFlight
    <3>3. Cardinality(Flying(a)') = Cardinality(Flying(a))
      BY <1>4, <2>3, <3>2, OneFlies DEF PaidInv
    <3> QED BY <2>3, <3>1, <3>3, PaidTypes DEF PaidFor
  <2>6. CASE a # hook[h].act
    <3>1. approvals'[a] = hook[h].seen[a] /\ regained'[a] = regained[a] + Gate!GivenBack(hook[h].seen, a)
      BY <2>1, <2>6 DEF Gate!Consume, Gate!AfterUse
    <3>2. ~(InFlight(h, a)')
      BY <1>3, <1>4, <2>6 DEF InFlight
    <3>3. Cardinality(Flying(a)') = Cardinality(Flying(a))
      BY <1>4, <2>3, <3>2, OneFlies DEF PaidInv
    <3> QED BY <2>1, <2>2, <2>3, <3>1, <3>3, PaidTypes DEF PaidFor
  <2> QED BY <2>4, <2>5, <2>6
<1> QED BY <1>4, <1>5, <1>6, PaidKept

\* A use in flight is spent, or not needed.
LEMMA AnswerPays ==
  ASSUME Gate!ToolGateAssumption, TypeInv, PaidInv, NEW h \in Hooks,
         Gate!UpdateState(h) \/ Gate!StateThrows(h) \/ Gate!Return(h)
  PROVE  PaidInv'
<1>1. /\ \A k \in Hooks : k # h => hook'[k] = hook[k]
      /\ hook'[h].pc \in {"answered", "threw", "idle"} /\ UNCHANGED <<approvals, given, regained>>
  <2>1. hook[h] \in HookType
    BY DEF TypeInv
  <2>2. CASE Gate!UpdateState(h)
    <3>1. \A k \in Hooks : hook'[k] = IF k = h THEN [hook[h] EXCEPT !.pc = "answered"] ELSE hook[k]
      BY <2>2, Acting DEF Gate!UpdateState
    <3> QED BY <2>1, <2>2, <3>1 DEF Gate!UpdateState, HookType
  <2>3. CASE Gate!StateThrows(h)
    <3>1. \A k \in Hooks : hook'[k] = IF k = h THEN [hook[h] EXCEPT !.pc = "threw", !.decision = "allow"] ELSE hook[k]
      BY <2>3, Acting DEF Gate!StateThrows
    <3> QED BY <2>1, <2>3, <3>1 DEF Gate!StateThrows, HookType
  <2>4. CASE Gate!Return(h)
    <3>1. \A k \in Hooks : hook'[k] = IF k = h THEN Gate!NoHook ELSE hook[k]
      BY <2>4, Acting DEF Gate!Return
    <3> QED BY <2>4, <3>1 DEF Gate!Return, Gate!NoHook
  <2> QED BY <2>2, <2>3, <2>4
<1>2. Earned(h)' /\ \A a \in Acts : ~(InFlight(h, a)')
  BY <1>1 DEF Earned, InFlight
<1>3. ASSUME NEW a \in Acts PROVE PaidFor(a)'
  <2>1. /\ InFlight(h, a) => Cardinality(Flying(a)') = Cardinality(Flying(a)) - 1
        /\ ~InFlight(h, a) => Cardinality(Flying(a)') = Cardinality(Flying(a))
    BY <1>1, <1>2, OneFlies DEF PaidInv
  <2>2. CASE Gate!UpdateState(h) /\ Gate!LetsThrough(h) /\ a = hook[h].act
    <3>1. InFlight(h, a)
      BY <2>2 DEF Gate!UpdateState, Gate!LetsThrough, Gate!At, PaidInv, Earned, InFlight
    <3>2. ran'[a] = ran[a] + 1
      BY <2>2 DEF Gate!UpdateState, TypeInv
    <3> QED BY <1>1, <2>1, <3>1, <3>2, PaidTypes DEF PaidFor
  <2>3. CASE ~(Gate!UpdateState(h) /\ Gate!LetsThrough(h) /\ a = hook[h].act)
    <3>1. ran'[a] = ran[a]
      BY <2>3 DEF Gate!UpdateState, Gate!StateThrows, Gate!Return, TypeInv
    <3> QED BY <1>1, <2>1, <3>1, PaidTypes DEF PaidFor
  <2> QED BY <2>2, <2>3
<1> QED BY <1>1, <1>2, <1>3, PaidKept

LEMMA PaidStep ==
  ASSUME Gate!ToolGateAssumption, TypeInv, PaidInv, [Gate!Next]_Gate!vars
  PROVE  PaidInv'
<1>1. ASSUME UNCHANGED <<approvals, hook, given, ran, regained>> PROVE PaidInv'
  BY <1>1 DEF PaidInv, PaidFor, Flying, InFlight, Earned
<1>2. ASSUME NEW h \in Hooks, NEW a \in Acts, Gate!Call(h, a) PROVE PaidInv'
  <2>1. PICK pc \in {"consume", "record"}, seen \in [Acts -> 0..MaxUses], d \in Effects :
           /\ hook' = [hook EXCEPT ![h] =
                [pc |-> pc, act |-> a, profile |-> profile, checked |-> "balanced", seen |-> seen,
                 approved |-> Gate!Usable(a), recorded |-> FALSE, decision |-> d]]
           /\ Gate!Usable(a) => pc = "consume"
           /\ d \in {"allow", "observe"} /\ Gate!Blocked(profile, a) => Gate!Usable(a)
    BY <1>2, CallReads
  <2> DEFINE r == [pc |-> pc, act |-> a, profile |-> profile, checked |-> "balanced", seen |-> seen,
                   approved |-> Gate!Usable(a), recorded |-> FALSE, decision |-> d]
  <2>2. \A k \in Hooks : hook'[k] = IF k = h THEN r ELSE hook[k]
    <3>1. Gate!Becomes(h, r)
      BY <2>1 DEF Gate!Becomes
    <3> HIDE DEF r
    <3> QED BY <3>1, Acting
  <2>3. r.pc = pc /\ r.profile = profile /\ r.act = a /\ r.decision = d /\ r.approved = Gate!Usable(a)
    OBVIOUS
  <2> HIDE DEF r
  <2>4. hook'[h] = r /\ \A k \in Hooks : k # h => hook'[k] = hook[k]
    BY <2>2
  <2>5. Earned(h)'
    BY <2>1, <2>3, <2>4 DEF Earned
  <2>6. \A b \in Acts : ~(InFlight(h, b)') /\ ~InFlight(h, b)
    BY <1>2, <2>1, <2>3, <2>4 DEF InFlight, Gate!Call, Gate!At
  <2>7. UNCHANGED <<approvals, given, ran, regained>>
    BY <1>2 DEF Gate!Call
  <2> QED BY <2>4, <2>5, <2>6, <2>7, NothingPaid
<1>3. ASSUME NEW h \in Hooks, Gate!Consume(h) PROVE PaidInv'
  BY <1>3, ConsumePays
<1>4. ASSUME NEW h \in Hooks, Gate!Record(h) PROVE PaidInv'
  <2>1. PICK ok \in BOOLEAN : Gate!Becomes(h, [hook[h] EXCEPT !.pc = "check", !.recorded = ok])
    BY <1>4 DEF Gate!Record, Gate!ToolGateAssumption
  <2>2. \A k \in Hooks : hook'[k] = IF k = h THEN [hook[h] EXCEPT !.pc = "check", !.recorded = ok] ELSE hook[k]
    BY <2>1, Acting
  <2>3. hook[h] \in HookType /\ hook[h].pc = "record" /\ UNCHANGED <<approvals, given, ran, regained>>
    BY <1>4 DEF Gate!Record, TypeInv, Gate!At
  <2>4. /\ hook'[h].pc = "check" /\ hook'[h].approved = hook[h].approved /\ hook'[h].act = hook[h].act
        /\ hook'[h].decision = hook[h].decision /\ hook'[h].profile = hook[h].profile
    BY <2>2, <2>3 DEF HookType
  <2>5. \A k \in Hooks : k # h => hook'[k] = hook[k]
    BY <2>2
  <2>6. Earned(h)' /\ \A a \in Acts : InFlight(h, a)' <=> InFlight(h, a)
    BY <2>3, <2>4 DEF PaidInv, Earned, InFlight
  <2> QED BY <2>3, <2>5, <2>6, NothingPaid
<1>5. ASSUME NEW h \in Hooks, Gate!Check(h) PROVE PaidInv'
  <2> DEFINE d == IF Gate!Denies(h) THEN "deny" ELSE hook[h].decision
             r == [hook[h] EXCEPT !.pc = "state", !.checked = profile, !.decision = d]
  <2>1. \A k \in Hooks : hook'[k] = IF k = h THEN r ELSE hook[k]
    BY <1>5, Acting DEF Gate!Check
  <2>2. hook[h] \in HookType /\ hook[h].pc = "check" /\ UNCHANGED <<approvals, given, ran, regained>>
    BY <1>5 DEF Gate!Check, TypeInv, Gate!At
  <2>3. d \in {"allow", "observe"} => d = hook[h].decision
    OBVIOUS
  <2> HIDE DEF d
  <2>4. /\ hook'[h].pc = "state" /\ hook'[h].approved = hook[h].approved /\ hook'[h].act = hook[h].act
        /\ hook'[h].decision = d /\ hook'[h].profile = hook[h].profile
    BY <2>1, <2>2 DEF HookType
  <2>5. \A k \in Hooks : k # h => hook'[k] = hook[k]
    BY <2>1
  <2>6. Earned(h)' /\ \A a \in Acts : InFlight(h, a)' <=> InFlight(h, a)
    BY <2>2, <2>3, <2>4 DEF PaidInv, Earned, InFlight
  <2> QED BY <2>2, <2>5, <2>6, NothingPaid
<1>6. ASSUME NEW h \in Hooks, Gate!UpdateState(h) \/ Gate!StateThrows(h) \/ Gate!Return(h) PROVE PaidInv'
  BY <1>6, AnswerPays
<1>7. ASSUME NEW a \in Acts, NEW n \in 1..MaxUses, Gate!GrantReads(a, n) PROVE PaidInv'
  BY <1>1, <1>7 DEF Gate!GrantReads
<1>8. ASSUME Gate!GrantWrites PROVE PaidInv'
  <2>1. granter \in GranterType /\ granter.seen \in [Acts -> 0..MaxUses] /\ UNCHANGED <<hook, ran>>
    BY <1>8 DEF Gate!GrantWrites, TypeInv, GranterType
  <2>2. \A h \in Hooks : Earned(h)'
    BY <2>1 DEF PaidInv, Earned
  <2>3. ASSUME NEW a \in Acts PROVE IsFiniteSet(Flying(a)') /\ PaidFor(a)'
    <3>1. Flying(a)' = Flying(a)
      BY <2>1 DEF Flying, InFlight
    <3>2. granter.uses \in Nat /\ granter.seen[a] \in Nat
      BY <2>1 DEF GranterType, Gate!ToolGateAssumption
    <3>3. Gate!GivenBack(granter.seen, a) \in Nat /\ granter.seen[a] <= approvals[a] + Gate!GivenBack(granter.seen, a)
      BY <2>1, BackType
    <3>4. CASE a = granter.act
      <4>1. approvals'[a] = granter.uses /\ given'[a] = given[a] + granter.uses /\ regained'[a] = regained[a]
        BY <1>8, <2>1, <3>4 DEF Gate!GrantWrites, TypeInv
      <4> QED BY <2>1, <3>1, <3>2, <4>1, PaidTypes DEF PaidFor, PaidInv
    <3>5. CASE a # granter.act
      <4>1. /\ approvals'[a] = granter.seen[a] /\ given'[a] = given[a]
            /\ regained'[a] = regained[a] + Gate!GivenBack(granter.seen, a)
        BY <1>8, <2>1, <3>5 DEF Gate!GrantWrites, TypeInv
      <4> QED BY <2>1, <3>1, <3>2, <3>3, <4>1, PaidTypes DEF PaidFor, PaidInv
    <3> QED BY <3>4, <3>5
  <2> QED BY <2>2, <2>3 DEF PaidInv
<1>9. ASSUME (\E a \in Acts : Gate!Expire(a)) \/ (\E p \in Profiles : Gate!InitPolicy(p)) PROVE PaidInv'
  BY <1>1, <1>9 DEF Gate!Expire, Gate!InitPolicy
<1>10. UNCHANGED Gate!vars => PaidInv'
  BY <1>1 DEF Gate!vars
<1> QED BY <1>2, <1>3, <1>4, <1>5, <1>6, <1>7, <1>8, <1>9, <1>10, GateStepCases

-----------------------------------------------------------------------------
(* Processes that touch the approvals one at a time *)

\* One process is at work, and what it read of the approvals is what they are.
OneAtWork ==
  /\ \A h, k \in Hooks : hook[h].pc # "idle" /\ hook[k].pc # "idle" => h = k
  /\ granter.pc = "write" => granter.seen = approvals /\ \A h \in Hooks : hook[h].pc = "idle"
  /\ \A h \in Hooks : hook[h].pc = "consume" => hook[h].seen = approvals
  /\ regained = Gate!None0

\* Writing back what is there gives no use back.
LEMMA NothingGivenBack ==
  ASSUME Gate!ToolGateAssumption, TypeInv, NEW a \in Acts
  PROVE  Gate!GivenBack(approvals, a) = 0
  BY DEF Gate!GivenBack, Gate!ToolGateAssumption, TypeInv

\* A hook that is at work goes on, or ends.
LEMMA OneGoesOn ==
  ASSUME TypeInv, OneAtWork, NEW h \in Hooks, hook[h].pc # "idle", \A k \in Hooks : k # h => hook'[k] = hook[k],
         hook'[h].pc # "consume", regained' = regained, granter' = granter
  PROVE  OneAtWork'
<1>1. granter'.pc # "write"
  BY DEF OneAtWork
<1>2. \A k \in Hooks : k # h => hook'[k].pc = "idle"
  BY DEF OneAtWork
<1> QED BY <1>1, <1>2 DEF OneAtWork

LEMMA OneStep ==
  ASSUME Gate!ToolGateAssumption, ~Parallel, TypeInv, OneAtWork, [Gate!Next]_Gate!vars
  PROVE  OneAtWork'
<1>1. ASSUME UNCHANGED <<approvals, granter, hook, regained>> PROVE OneAtWork'
  BY <1>1 DEF OneAtWork
<1>2. ASSUME NEW h \in Hooks, NEW a \in Acts, Gate!Call(h, a) PROVE OneAtWork'
  <2>1. PICK pc \in {"consume", "record"}, seen \in [Acts -> 0..MaxUses], d \in Effects :
           /\ hook' = [hook EXCEPT ![h] =
                [pc |-> pc, act |-> a, profile |-> profile, checked |-> "balanced", seen |-> seen,
                 approved |-> Gate!Usable(a), recorded |-> FALSE, decision |-> d]]
           /\ pc = "consume" => seen = approvals
    BY <1>2, CallReads
  <2>2. /\ granter.pc = "idle" /\ \A k \in Hooks : hook[k].pc = "idle"
        /\ UNCHANGED <<approvals, granter, regained>>
    BY <1>2 DEF Gate!Call, Gate!MayStart, Gate!Quiet, Gate!At
  <2>3. /\ hook'[h].pc = "consume" => hook'[h].seen = approvals
        /\ \A k \in Hooks : k # h => hook'[k] = hook[k]
    BY <2>1 DEF TypeInv
  <2> QED BY <2>2, <2>3 DEF OneAtWork
<1>3. ASSUME NEW h \in Hooks, Gate!Consume(h) PROVE OneAtWork'
  <2>1. \A k \in Hooks : hook'[k] = IF k = h THEN [hook[h] EXCEPT !.pc = "record", !.seen = Gate!None0] ELSE hook[k]
    BY <1>3, Acting DEF Gate!Consume
  <2>2. hook'[h].pc = "record" /\ hook[h].pc = "consume" /\ hook[h].seen = approvals /\ granter' = granter
    BY <1>3, <2>1 DEF TypeInv, HookType, OneAtWork, Gate!Consume, Gate!At
  <2>3. \A a \in Acts : regained[a] = 0 /\ regained[a] + Gate!GivenBack(hook[h].seen, a) = 0
    BY <2>2, NothingGivenBack DEF OneAtWork, Gate!None0
  <2>4. regained' = [a \in Acts |-> 0]
    BY <1>3, <2>3 DEF Gate!Consume
  <2>5. regained' = regained
    BY <2>4 DEF OneAtWork, Gate!None0
  <2> QED BY <2>1, <2>2, <2>5, OneGoesOn
<1>4. ASSUME NEW h \in Hooks, Gate!Record(h) \/ Gate!Check(h) PROVE OneAtWork'
  <2>1. PICK r : Gate!Becomes(h, r) /\ r.pc \in {"check", "state"}
    <3>1. hook[h] \in HookType
      BY DEF TypeInv
    <3>2. CASE Gate!Record(h)
      <4>1. PICK ok : Gate!Becomes(h, [hook[h] EXCEPT !.pc = "check", !.recorded = ok])
        BY <3>2 DEF Gate!Record
      <4>2. [hook[h] EXCEPT !.pc = "check", !.recorded = ok].pc = "check"
        BY <3>1 DEF HookType
      <4> QED BY <4>1, <4>2
    <3>3. CASE Gate!Check(h)
      <4>1. PICK d : Gate!Becomes(h, [hook[h] EXCEPT !.pc = "state", !.checked = profile, !.decision = d])
        BY <3>3 DEF Gate!Check
      <4>2. [hook[h] EXCEPT !.pc = "state", !.checked = profile, !.decision = d].pc = "state"
        BY <3>1 DEF HookType
      <4> QED BY <4>1, <4>2
    <3> QED BY <1>4, <3>2, <3>3
  <2>2. /\ hook[h].pc # "idle" /\ UNCHANGED <<granter, regained>>
        /\ hook'[h].pc \in {"check", "state"} /\ \A k \in Hooks : k # h => hook'[k] = hook[k]
    BY <1>4, <2>1, Acting DEF Gate!Record, Gate!Check, Gate!At
  <2> QED BY <2>2, OneGoesOn
<1>5. ASSUME NEW h \in Hooks, Gate!UpdateState(h) \/ Gate!StateThrows(h) \/ Gate!Return(h) PROVE OneAtWork'
  <2>1. PICK r : Gate!Becomes(h, r) /\ r.pc \in {"answered", "threw", "idle"}
    <3>1. hook[h] \in HookType
      BY DEF TypeInv
    <3>2. CASE Gate!UpdateState(h)
      <4>1. [hook[h] EXCEPT !.pc = "answered"].pc = "answered"
        BY <3>1 DEF HookType
      <4> QED BY <3>2, <4>1 DEF Gate!UpdateState
    <3>3. CASE Gate!StateThrows(h)
      <4>1. [hook[h] EXCEPT !.pc = "threw", !.decision = "allow"].pc = "threw"
        BY <3>1 DEF HookType
      <4> QED BY <3>3, <4>1 DEF Gate!StateThrows
    <3>4. CASE Gate!Return(h)
      <4>1. Gate!NoHook.pc = "idle"
        BY DEF Gate!NoHook
      <4> QED BY <3>4, <4>1 DEF Gate!Return
    <3> QED BY <1>5, <3>2, <3>3, <3>4
  <2>2. /\ hook[h].pc # "idle" /\ UNCHANGED <<granter, regained>>
        /\ hook'[h].pc \in {"answered", "threw", "idle"} /\ \A k \in Hooks : k # h => hook'[k] = hook[k]
    BY <1>5, <2>1, Acting DEF Gate!UpdateState, Gate!StateThrows, Gate!Return, Gate!At
  <2> QED BY <2>2, OneGoesOn
<1>6. ASSUME NEW a \in Acts, NEW n \in 1..MaxUses, Gate!GrantReads(a, n) PROVE OneAtWork'
  BY <1>6 DEF Gate!GrantReads, Gate!MayStart, Gate!Quiet, Gate!At, OneAtWork
<1>7. ASSUME Gate!GrantWrites PROVE OneAtWork'
  <2>1. granter.seen = approvals /\ (\A h \in Hooks : hook[h].pc = "idle") /\ hook' = hook /\ granter'.pc = "idle"
    BY <1>7 DEF Gate!GrantWrites, OneAtWork, TypeInv, GranterType
  <2>2. \A a \in Acts : regained[a] = 0 /\ regained[a] + Gate!GivenBack(granter.seen, a) = 0
    BY <2>1, NothingGivenBack DEF OneAtWork, Gate!None0
  <2>3. regained' = [a \in Acts |-> 0]
    BY <1>7, <2>2 DEF Gate!GrantWrites
  <2> QED BY <2>1, <2>3 DEF OneAtWork, Gate!None0
<1>8. ASSUME (\E a \in Acts : Gate!Expire(a)) \/ (\E p \in Profiles : Gate!InitPolicy(p)) PROVE OneAtWork'
  BY <1>1, <1>8 DEF Gate!Expire, Gate!InitPolicy
<1>9. UNCHANGED Gate!vars => OneAtWork'
  BY <1>1 DEF Gate!vars
<1> QED BY <1>2, <1>3, <1>4, <1>5, <1>6, <1>7, <1>8, <1>9, GateStepCases

\* A call that the policy asks about or denies is answered with a pass at most as
\* often as uses were granted for it and as processes that read and wrote the
\* unlocked approvals file at once gave uses back, for any number of hooks and
\* approvals in parallel, any profiles, grants that expire and writes that fail.
\* Nothing else gives a use back: with one process at a time, none is.
THEOREM GrantsBoundBlockedRuns ==
  ASSUME Gate!ToolGateAssumption
  PROVE  Gate!Spec => []Gate!BlockedRunsArePaidFor /\ [](~Parallel => regained = Gate!None0)
<1>1. TypeInv /\ PaidInv => Gate!BlockedRunsArePaidFor
  <2> SUFFICES ASSUME TypeInv, PaidInv, NEW a \in Acts PROVE ran[a] <= given[a] + regained[a]
    BY DEF Gate!BlockedRunsArePaidFor
  <2> QED BY PaidTypes DEF PaidFor
<1>2. Gate!Spec => []TypeInv
  BY Types
<1> DEFINE OneInv == ~Parallel => OneAtWork
<1>3. Gate!Init => OneInv
  BY DEF Gate!Init, Gate!NoHook, OneAtWork
<1>4. TypeInv /\ OneInv /\ [Gate!Next]_Gate!vars => OneInv'
  BY OneStep
<1>5. OneInv => (~Parallel => regained = Gate!None0)
  BY DEF OneAtWork
<1> HIDE DEF OneInv
<1> QED BY <1>1, <1>2, <1>3, <1>4, <1>5, PaidInit, PaidStep, PTL DEF Gate!Spec

-----------------------------------------------------------------------------
(* The strict profile *)

\* From the check on: what was not recorded is denied, unless the hook throws.
ClosedInv == \A h \in Hooks :
  /\ hook[h].pc \in {"state", "answered"} /\ hook[h].checked = "strict"
  /\ Gate!Mutating(hook[h].act) /\ ~hook[h].recorded
  => hook[h].decision = "deny"

LEMMA ClosedStep ==
  ASSUME Gate!ToolGateAssumption, TypeInv, ClosedInv, [Gate!Next]_Gate!vars
  PROVE  ClosedInv'
<1>1. ASSUME UNCHANGED Gate!vars PROVE ClosedInv'
  BY <1>1 DEF Gate!vars, ClosedInv
<1>2. ASSUME NEW h \in Hooks, NEW a \in Acts, Gate!Call(h, a) PROVE ClosedInv'
  <2>1. PICK pc \in {"consume", "record"}, seen \in [Acts -> 0..MaxUses], d \in Effects :
           hook' = [hook EXCEPT ![h] =
                [pc |-> pc, act |-> a, profile |-> profile, checked |-> "balanced", seen |-> seen,
                 approved |-> Gate!Usable(a), recorded |-> FALSE, decision |-> d]]
    BY <1>2, CallReads
  <2>2. hook'[h].pc \notin {"state", "answered"} /\ \A k \in Hooks : k # h => hook'[k] = hook[k]
    BY <2>1 DEF TypeInv
  <2> QED BY <2>2 DEF ClosedInv
<1>3. ASSUME NEW h \in Hooks, Gate!Consume(h) PROVE ClosedInv'
  <2>1. \A k \in Hooks : hook'[k] = IF k = h THEN [hook[h] EXCEPT !.pc = "record", !.seen = Gate!None0] ELSE hook[k]
    BY <1>3, Acting DEF Gate!Consume
  <2>2. hook'[h].pc = "record"
    BY <2>1 DEF TypeInv, HookType
  <2> QED BY <2>1, <2>2 DEF ClosedInv
<1>4. ASSUME NEW h \in Hooks, Gate!Record(h) PROVE ClosedInv'
  <2>1. PICK ok \in BOOLEAN : Gate!Becomes(h, [hook[h] EXCEPT !.pc = "check", !.recorded = ok])
    BY <1>4 DEF Gate!Record, Gate!ToolGateAssumption
  <2>2. \A k \in Hooks : hook'[k] = IF k = h THEN [hook[h] EXCEPT !.pc = "check", !.recorded = ok] ELSE hook[k]
    BY <2>1, Acting
  <2>3. hook'[h].pc = "check"
    BY <2>2 DEF TypeInv, HookType
  <2> QED BY <2>2, <2>3 DEF ClosedInv
<1>5. ASSUME NEW h \in Hooks, Gate!Check(h) PROVE ClosedInv'
  <2> DEFINE d == IF Gate!Denies(h) THEN "deny" ELSE hook[h].decision
  <2>1. \A k \in Hooks : hook'[k] = IF k = h THEN [hook[h] EXCEPT !.pc = "state", !.checked = profile, !.decision = d]
                                           ELSE hook[k]
    BY <1>5, Acting DEF Gate!Check
  <2>2. profile = "strict" /\ Gate!Mutating(hook[h].act) /\ ~hook[h].recorded => d = "deny"
    BY DEF Gate!Denies
  <2> HIDE DEF d
  <2>3. /\ hook'[h].checked = profile /\ hook'[h].decision = d
        /\ hook'[h].act = hook[h].act /\ hook'[h].recorded = hook[h].recorded
    BY <2>1 DEF TypeInv, HookType
  <2> QED BY <2>1, <2>2, <2>3 DEF ClosedInv
<1>6. ASSUME NEW h \in Hooks, Gate!UpdateState(h) \/ Gate!StateThrows(h) \/ Gate!Return(h) PROVE ClosedInv'
  <2>1. CASE Gate!UpdateState(h)
    <3>1. \A k \in Hooks : hook'[k] = IF k = h THEN [hook[h] EXCEPT !.pc = "answered"] ELSE hook[k]
      BY <2>1, Acting DEF Gate!UpdateState
    <3>2. hook[h].pc = "state"
      BY <2>1 DEF Gate!UpdateState, Gate!At
    <3>3. /\ hook'[h].checked = hook[h].checked /\ hook'[h].decision = hook[h].decision
          /\ hook'[h].act = hook[h].act /\ hook'[h].recorded = hook[h].recorded
      BY <3>1 DEF TypeInv, HookType
    <3> QED BY <3>1, <3>2, <3>3 DEF ClosedInv
  <2>2. CASE Gate!Return(h)
    <3>1. \A k \in Hooks : hook'[k] = IF k = h THEN Gate!NoHook ELSE hook[k]
      BY <2>2, Acting DEF Gate!Return
    <3> QED BY <3>1 DEF ClosedInv, Gate!NoHook
  <2>3. CASE Gate!StateThrows(h)
    <3>1. \A k \in Hooks : hook'[k] = IF k = h THEN [hook[h] EXCEPT !.pc = "threw", !.decision = "allow"] ELSE hook[k]
      BY <2>3, Acting DEF Gate!StateThrows
    <3>2. hook'[h].pc = "threw"
      BY <3>1 DEF TypeInv, HookType
    <3> QED BY <3>1, <3>2 DEF ClosedInv
  <2> QED BY <1>6, <2>1, <2>2, <2>3
<1>7. ASSUME NEW a \in Acts, NEW n \in 1..MaxUses, Gate!GrantReads(a, n) PROVE ClosedInv'
  BY <1>7 DEF Gate!GrantReads, ClosedInv
<1>8. ASSUME Gate!GrantWrites PROVE ClosedInv'
  BY <1>8 DEF Gate!GrantWrites, ClosedInv
<1>9. ASSUME (\E a \in Acts : Gate!Expire(a)) \/ (\E p \in Profiles : Gate!InitPolicy(p)) PROVE ClosedInv'
  BY <1>9 DEF Gate!Expire, Gate!InitPolicy, ClosedInv
<1> QED BY <1>1, <1>2, <1>3, <1>4, <1>5, <1>6, <1>7, <1>8, <1>9, GateStepCases

\* Under the strict profile a hook that answers denies a call that changes
\* something when the recorder could not persist it, for any number of hooks at
\* once and whatever profile they began under.
LEMMA StrictDeniesUnrecorded ==
  ASSUME Gate!ToolGateAssumption
  PROVE  Gate!Spec => []Gate!StrictFailsClosed
<1>1. ClosedInv => Gate!StrictFailsClosed
  BY DEF ClosedInv, Gate!StrictFailsClosed, Gate!At
<1>2. Gate!Spec => []TypeInv
  BY Types
<1>3. Gate!Init => ClosedInv
  BY DEF Gate!Init, ClosedInv, Gate!NoHook
<1> QED BY <1>1, <1>2, <1>3, ClosedStep, PTL DEF Gate!Spec

\* The profile, the approvals and the hooks keep their types, for any calls in
\* parallel; no approval is used below zero.
THEOREM GateTypeCorrect == ASSUME Gate!ToolGateAssumption PROVE Gate!Spec => []Gate!TypeOK
<1>1. TypeInv => Gate!TypeOK
  BY DEF TypeInv, Gate!TypeOK, HookType, GranterType, GatePcs, Effects, Gate!Weight
<1> QED BY <1>1, Types, PTL

-----------------------------------------------------------------------------
(* The sessions of the state file, for any sessions, trees, prompts and       *)
(* limits: one record of each completed change, with the task whose turn made *)
(* it, and the tasks just before the current one.                             *)

\* An instance has its own copy of the library's operators.
LEMMA TasksLibrary == \A s, I : Tasks!Sub(s, I) = Sub(s, I)
  BY Zenon DEF Tasks!Sub, Sub, Tasks!Rank, Rank, Tasks!Cardinality, Cardinality

-----------------------------------------------------------------------------
(* The end of a list *)

LEMMA LastOfKeeps ==
  ASSUME NEW S, NEW q \in Seq(S), NEW n \in Nat \ {0}
  PROVE  /\ Tasks!LastOf(q, n) \in Seq(S) /\ Len(Tasks!LastOf(q, n)) = (IF Len(q) > n THEN n ELSE Len(q))
         /\ \A k \in 1 .. Len(Tasks!LastOf(q, n)) : /\ k + (Len(q) - Len(Tasks!LastOf(q, n))) \in 1 .. Len(q)
                                                    /\ Tasks!LastOf(q, n)[k] = q[k + (Len(q) - Len(Tasks!LastOf(q, n)))]
<1> DEFINE t == Tasks!LastOf(q, n)
           from == IF Len(q) > n THEN Len(q) - n + 1 ELSE 1
<1>1. Len(q) \in Nat /\ DOMAIN q = 1 .. Len(q)
  OBVIOUS
<1>2. from \in Nat /\ from >= 1 /\ from <= Len(q) + 1
  BY <1>1
<1>3. t = SubSeq(q, from, Len(q))
  BY DEF Tasks!LastOf
<1>4. /\ t \in Seq(S) /\ Len(t) = Len(q) - from + 1
      /\ \A k \in 1 .. Len(q) - from + 1 : t[k] = q[from + k - 1]
  <2> HIDE DEF t, from
  <2>1. t \in Seq(S)
    BY <1>1, <1>2, <1>3
  <2>2. Len(t) = Len(q) - from + 1
    BY <1>1, <1>2, <1>3
  <2>3. \A k \in 1 .. Len(q) - from + 1 : t[k] = q[from + k - 1]
    BY <1>1, <1>2, <1>3
  <2> QED BY <2>1, <2>2, <2>3
<1>5. Len(t) = IF Len(q) > n THEN n ELSE Len(q)
  BY <1>1, <1>4
<1>6. from - 1 = Len(q) - Len(t)
  BY <1>1, <1>4
<1> HIDE DEF t, from
<1>7. ASSUME NEW k \in 1 .. Len(t)
      PROVE  k + (Len(q) - Len(t)) \in 1 .. Len(q) /\ t[k] = q[k + (Len(q) - Len(t))]
  <2>1. from + k - 1 = k + (Len(q) - Len(t)) /\ k \in 1 .. Len(q) - from + 1 /\ k + (Len(q) - Len(t)) \in 1 .. Len(q)
    BY <1>1, <1>2, <1>4, <1>6
  <2> QED BY <1>4, <2>1
<1> QED BY <1>4, <1>5, <1>7 DEF t

\* t is the end of q with e after it, n elements at most.
EndOf(t, q, e, n) ==
  /\ Len(t) \in Nat /\ t # <<>> /\ DOMAIN t = 1 .. Len(t)
  /\ Len(t) = (IF Len(q) >= n THEN n ELSE Len(q) + 1) /\ Len(t) <= n
  /\ t[Len(t)] = e
  /\ \A k \in 1 .. Len(t) - 1 :
       k + (Len(q) + 1 - Len(t)) \in 1 .. Len(q) /\ t[k] = q[k + (Len(q) + 1 - Len(t))]

LEMMA LastOfAppended ==
  ASSUME NEW S, NEW q \in Seq(S), NEW e \in S, NEW n \in Nat \ {0}
  PROVE  Tasks!LastOf(Append(q, e), n) \in Seq(S) /\ EndOf(Tasks!LastOf(Append(q, e), n), q, e, n)
<1> DEFINE t == Tasks!LastOf(Append(q, e), n)
<1> DEFINE a == Append(q, e)
<1>1. /\ a \in Seq(S) /\ Len(a) = Len(q) + 1 /\ Len(q) \in Nat
      /\ a[Len(q) + 1] = e /\ \A k \in 1 .. Len(q) : a[k] = q[k]
  OBVIOUS
<1> HIDE DEF a
<1>2. /\ t \in Seq(S) /\ Len(t) = (IF Len(a) > n THEN n ELSE Len(a))
      /\ \A k \in 1 .. Len(t) : /\ k + (Len(a) - Len(t)) \in 1 .. Len(a)
                                /\ t[k] = a[k + (Len(a) - Len(t))]
  BY <1>1, LastOfKeeps DEF a
<1> HIDE DEF t
<1>3. Len(t) = (IF Len(q) >= n THEN n ELSE Len(q) + 1) /\ Len(t) \in Nat /\ Len(t) >= 1 /\ Len(t) <= n
  BY <1>1, <1>2
<1>4. t[Len(t)] = e
  <2>1. Len(t) \in 1 .. Len(t) /\ Len(t) + (Len(a) - Len(t)) = Len(q) + 1
    BY <1>1, <1>3
  <2> QED BY <1>1, <1>2, <2>1
<1>5. ASSUME NEW k \in 1 .. Len(t) - 1
      PROVE  k + (Len(q) + 1 - Len(t)) \in 1 .. Len(q) /\ t[k] = q[k + (Len(q) + 1 - Len(t))]
  <2>1. k \in 1 .. Len(t) /\ k + (Len(a) - Len(t)) = k + (Len(q) + 1 - Len(t)) /\ k + (Len(q) + 1 - Len(t)) \in 1 .. Len(q)
    <3>1. /\ Len(q) \in Nat /\ Len(t) \in Nat /\ Len(a) = Len(q) + 1
          /\ 1 <= Len(t) /\ Len(t) <= Len(q) + 1
      BY <1>1, <1>3
    <3> QED BY <3>1
  <2> QED BY <1>1, <1>2, <2>1
<1>6. DOMAIN t = 1 .. Len(t) /\ t # <<>>
  BY <1>2, <1>3
<1> QED BY <1>2, <1>3, <1>4, <1>5, <1>6 DEF EndOf, t

-----------------------------------------------------------------------------
(* Sessions *)

RecordType == [baseline : Trees \cup {Missing, Unavailable}, task : Tasks!Task \cup {Missing},
               taskHistory : Seq(Tasks!Task), prompts : 0..MaxPrompts,
               change : Tasks!ChangeId \cup {Missing}, completed : Seq(Tasks!Completed)]

\* Each change has one record; the last one has.
Once(r) == \A i, j \in DOMAIN r.completed : r.completed[i].change = r.completed[j].change => i = j
Recorded(r) == r.change # Missing => \E c \in Tasks!Records(r) : c.change = r.change

\* The tasks before the current one.
Before(h, task) ==
  /\ h # <<>> => task # Missing /\ h[Len(h)].ordinal = task.ordinal - 1
  /\ \A i \in 1..(Len(h) - 1) : h[i + 1].ordinal = h[i].ordinal + 1
  /\ task # Missing => Len(h) = (IF task.ordinal > MaxHistory THEN MaxHistory ELSE task.ordinal - 1)
Good(r) ==
  /\ r \in RecordType /\ Once(r) /\ Before(r.taskHistory, r.task)
  /\ Len(r.taskHistory) <= MaxHistory /\ Len(r.completed) <= MaxCompleted
  /\ r.task # Missing => r.task.ordinal <= r.prompts

LEMMA Limits ==
  ASSUME Tasks!SessionTasksAssumption
  PROVE  /\ MaxHistory \in Nat \ {0} /\ MaxCompleted \in Nat \ {0} /\ MaxSessions \in Nat \ {0}
         /\ MaxPrompts \in Nat \ {0} /\ Missing \notin Tasks!Task
  BY DEF Tasks!SessionTasksAssumption

LEMMA NewIsGood == ASSUME Tasks!SessionTasksAssumption PROVE Good(Tasks!NewSession) /\ Recorded(Tasks!NewSession)
<1>1. Tasks!NewSession \in RecordType
  BY Limits DEF Tasks!NewSession, RecordType
<1>2. Tasks!NewSession.taskHistory = <<>> /\ Tasks!NewSession.completed = <<>> /\ Tasks!NewSession.task = Missing
      /\ Tasks!NewSession.change = Missing
  BY DEF Tasks!NewSession
<1>3. Before(<<>>, Missing)
  BY DEF Before
<1> QED BY <1>1, <1>2, <1>3, Limits DEF Good, Once, Recorded

\* A completion is recorded, once and with the current task.
LEMMA Freezes ==
  ASSUME Tasks!SessionTasksAssumption, NEW r, Good(r), NEW f, f = Tasks!Freeze(r)
  PROVE  /\ Good(f) /\ Recorded(f)
         /\ f.baseline = r.baseline /\ f.task = r.task /\ f.taskHistory = r.taskHistory
         /\ f.prompts = r.prompts /\ f.change = r.change
         /\ Recorded(r) => f = r
         /\ \A c \in Tasks!Records(f) \ Tasks!Records(r) : c.change = r.change /\ c.task = r.task
<1>t. r \in RecordType /\ Once(r) /\ r.completed \in Seq(Tasks!Completed)
  BY DEF Good, RecordType
<1>1. CASE r.change = Missing \/ \E c \in Tasks!Records(r) : c.change = r.change
  BY <1>1 DEF Tasks!Freeze, Recorded
<1>2. CASE ~(r.change = Missing \/ \E c \in Tasks!Records(r) : c.change = r.change)
  <2> DEFINE e == [change |-> r.change, task |-> r.task]
             q == Tasks!LastOf(Append(r.completed, e), MaxCompleted)
  <2>1. e \in Tasks!Completed /\ e.change = r.change /\ e.task = r.task
    BY <1>t, <1>2 DEF Tasks!Completed, RecordType
  <2>q. q = Tasks!LastOf(Append(r.completed, e), MaxCompleted) /\ MaxCompleted \in Nat \ {0}
    BY Limits
  <2> HIDE DEF e
  <2>h. f = [r EXCEPT !.completed = q]
    BY <1>2 DEF Tasks!Freeze, e
  <2> HIDE DEF q
  <2>2. /\ q \in Seq(Tasks!Completed) /\ Len(q) \in Nat /\ DOMAIN q = 1 .. Len(q) /\ Len(q) <= MaxCompleted
        /\ q # <<>> /\ q[Len(q)] = e
        /\ \A k \in 1 .. Len(q) - 1 :
             k + (Len(r.completed) + 1 - Len(q)) \in 1 .. Len(r.completed) /\ q[k] = r.completed[k + (Len(r.completed) + 1 - Len(q))]
    <3>1. q \in Seq(Tasks!Completed) /\ EndOf(q, r.completed, e, MaxCompleted)
      BY <1>t, <2>1, <2>q, LastOfAppended
    <3> QED BY <3>1 DEF EndOf
  <2>4. /\ f \in RecordType /\ f.completed = q /\ f.baseline = r.baseline /\ f.task = r.task
        /\ f.taskHistory = r.taskHistory /\ f.prompts = r.prompts /\ f.change = r.change
    BY <1>t, <2>2, <2>h DEF RecordType
  <2>5. Len(r.completed) \in Nat /\ DOMAIN r.completed = 1 .. Len(r.completed)
        /\ \A i \in DOMAIN r.completed : r.completed[i] \in Tasks!Records(r)
    BY <1>t DEF Tasks!Records
  <2>6. ASSUME NEW i \in DOMAIN q, i # Len(q)
        PROVE  i \in 1 .. Len(q) - 1 /\ q[i] \in Tasks!Records(r)
    <3>1. i \in 1 .. Len(q) - 1
      BY <2>2, <2>6
    <3> QED BY <2>2, <2>5, <3>1
  <2>7. Once(f)
    <3>1. ASSUME NEW i \in DOMAIN q, NEW j \in DOMAIN q, q[i].change = q[j].change PROVE i = j
      <4>1. CASE i = Len(q) /\ j # Len(q)
        BY <1>2, <2>1, <2>2, <2>6, <3>1, <4>1
      <4>2. CASE i # Len(q) /\ j = Len(q)
        BY <1>2, <2>1, <2>2, <2>6, <3>1, <4>2
      <4>3. CASE i # Len(q) /\ j # Len(q)
        <5> DEFINE d == Len(r.completed) + 1 - Len(q)
        <5>1. i + d \in DOMAIN r.completed /\ j + d \in DOMAIN r.completed
              /\ r.completed[i + d].change = r.completed[j + d].change
          BY <2>2, <2>5, <2>6, <3>1, <4>3
        <5>2. i + d = j + d
          BY <1>t, <5>1 DEF Once
        <5>3. i \in Nat /\ j \in Nat /\ d \in Int
          BY <2>2, <2>5
        <5> HIDE DEF d
        <5> QED BY <5>2, <5>3
      <4> QED BY <4>1, <4>2, <4>3
    <3> QED BY <2>4, <3>1 DEF Once
  <2>8. \E c \in Tasks!Records(f) : c.change = f.change
    <3>1. Len(q) \in DOMAIN q
      BY <2>2
    <3>2. e \in Tasks!Records(f)
      BY <2>2, <2>4, <3>1 DEF Tasks!Records
    <3> QED BY <2>1, <2>4, <3>2
  <2>9. \A c \in Tasks!Records(f) \ Tasks!Records(r) : c = e
    BY <2>2, <2>4, <2>6 DEF Tasks!Records
  <2>10. Good(f)
    BY <2>2, <2>4, <2>7 DEF Good
  <2> QED BY <1>2, <2>1, <2>4, <2>8, <2>9, <2>10 DEF Recorded
<1> QED BY <1>1, <1>2

\* A step that leaves the records and the tasks before.
LEMMA TasksChanges ==
  ASSUME Tasks!SessionTasksAssumption, NEW r, Good(r)
  PROVE  /\ \A b \in Trees \cup {Missing, Unavailable} :
              LET f == Tasks!WithBaseline(r, b) IN
              /\ Good(f) /\ f.task = r.task /\ f.taskHistory = r.taskHistory /\ f.prompts = r.prompts
              /\ f.change = r.change /\ f.completed = r.completed
         /\ r.prompts < MaxPrompts =>
              LET f == [r EXCEPT !.prompts = @ + 1] IN
              /\ Good(f) /\ f.task = r.task /\ f.taskHistory = r.taskHistory /\ f.prompts = r.prompts + 1
              /\ f.change = r.change /\ f.completed = r.completed
<1>t. r \in RecordType /\ r.prompts \in Nat /\ (r.task # Missing => r.task.ordinal \in Nat)
  BY Limits DEF Good, RecordType, Tasks!Task
<1>1. ASSUME NEW b \in Trees \cup {Missing, Unavailable}
      PROVE  LET f == Tasks!WithBaseline(r, b) IN
              /\ Good(f) /\ f.task = r.task /\ f.taskHistory = r.taskHistory /\ f.prompts = r.prompts
              /\ f.change = r.change /\ f.completed = r.completed
  <2> DEFINE f == Tasks!WithBaseline(r, b)
  <2>1. /\ f \in RecordType /\ f.task = r.task /\ f.taskHistory = r.taskHistory /\ f.prompts = r.prompts
        /\ f.change = r.change /\ f.completed = r.completed
    BY <1>t DEF Tasks!WithBaseline, RecordType
  <2> HIDE DEF f
  <2>2. Good(f)
    BY <1>t, <2>1 DEF Good, Once
  <2> QED BY <2>1, <2>2 DEF f
<1>2. ASSUME r.prompts < MaxPrompts
      PROVE  LET f == [r EXCEPT !.prompts = @ + 1] IN
              /\ Good(f) /\ f.task = r.task /\ f.taskHistory = r.taskHistory /\ f.prompts = r.prompts + 1
              /\ f.change = r.change /\ f.completed = r.completed
  <2> DEFINE f == [r EXCEPT !.prompts = @ + 1]
  <2>1. r.prompts + 1 \in 0 .. MaxPrompts
    BY <1>2, <1>t, Limits
  <2>2. /\ f \in RecordType /\ f.task = r.task /\ f.taskHistory = r.taskHistory /\ f.prompts = r.prompts + 1
        /\ f.change = r.change /\ f.completed = r.completed
    BY <1>t, <2>1 DEF RecordType
  <2> HIDE DEF f
  <2>3. Good(f)
    BY <1>t, <2>2 DEF Good, Once
  <2> QED BY <2>2, <2>3 DEF f
<1> QED BY <1>1, <1>2

\* A new task comes after the ones before it.
LEMMA Archives ==
  ASSUME Tasks!SessionTasksAssumption, NEW h \in Seq(Tasks!Task), NEW task \in Tasks!Task, Before(h, task), Len(h) <= MaxHistory,
         NEW old \in Tasks!Task, old.ordinal = task.ordinal, NEW next \in Tasks!Task, next.ordinal = task.ordinal + 1,
         NEW t, t = Tasks!LastOf(Append(h, old), MaxHistory)
  PROVE  t \in Seq(Tasks!Task) /\ Len(t) <= MaxHistory /\ Before(t, next)
<1>1. /\ t \in Seq(Tasks!Task) /\ Len(t) \in Nat /\ t # <<>> /\ DOMAIN t = 1 .. Len(t)
      /\ Len(t) = (IF Len(h) >= MaxHistory THEN MaxHistory ELSE Len(h) + 1) /\ Len(t) <= MaxHistory
      /\ t[Len(t)] = old
      /\ \A k \in 1 .. Len(t) - 1 :
           k + (Len(h) + 1 - Len(t)) \in 1 .. Len(h) /\ t[k] = h[k + (Len(h) + 1 - Len(t))]
  <2>1. t \in Seq(Tasks!Task) /\ EndOf(t, h, old, MaxHistory)
    BY LastOfAppended, Limits
  <2> QED BY <2>1 DEF EndOf
<1>2. Len(h) \in Nat /\ DOMAIN h = 1 .. Len(h) /\ MaxHistory \in Nat \ {0} /\ Missing \notin Tasks!Task
      /\ task.ordinal \in Nat \ {0} /\ \A i \in 1 .. Len(h) : h[i] \in Tasks!Task /\ h[i].ordinal \in Nat
  <2>1. MaxHistory \in Nat \ {0} /\ MaxPrompts \in Nat /\ Missing \notin Tasks!Task
    BY Limits
  <2>2. \A e \in Tasks!Task : e.ordinal \in Nat \ {0}
    BY <2>1 DEF Tasks!Task
  <2>3. Len(h) \in Nat /\ DOMAIN h = 1 .. Len(h) /\ \A i \in 1 .. Len(h) : h[i] \in Tasks!Task
    OBVIOUS
  <2> QED BY <2>1, <2>2, <2>3
<1>3. Len(h) = (IF task.ordinal > MaxHistory THEN MaxHistory ELSE task.ordinal - 1)
  BY <1>2 DEF Before
<1>4. Len(t) = (IF next.ordinal > MaxHistory THEN MaxHistory ELSE next.ordinal - 1)
  BY <1>1, <1>2, <1>3
<1>5. t[Len(t)].ordinal = next.ordinal - 1
  BY <1>1, <1>2
<1>6. ASSUME NEW i \in 1 .. Len(t) - 1 PROVE t[i + 1].ordinal = t[i].ordinal + 1
  <2> DEFINE d == Len(h) + 1 - Len(t)
  <2>0. Len(t) \in Nat /\ Len(h) \in Nat /\ i \in 1 .. Len(t) - 1
    BY <1>1, <1>2
  <2>1. d \in Nat /\ i \in Nat
    BY <1>1, <1>2
  <2>2. i + d \in 1 .. Len(h) /\ t[i] = h[i + d]
    BY <1>1
  <2>3. CASE i = Len(t) - 1
    <3>1. i + 1 = Len(t) /\ i + d = Len(h)
      BY <2>0, <2>3
    <3>e. h # <<>>
      BY <2>0, <2>2, <3>1
    <3>2. h[Len(h)].ordinal = task.ordinal - 1
      BY <3>1, <3>e DEF Before
    <3> HIDE DEF d
    <3> QED BY <1>1, <1>2, <2>2, <3>1, <3>2
  <2>4. CASE i # Len(t) - 1
    <3>1. i + 1 \in 1 .. Len(t) - 1
      BY <2>0, <2>4
    <3>2. (i + 1) + d \in 1 .. Len(h) /\ t[i + 1] = h[(i + 1) + d]
      BY <1>1, <3>1
    <3>3. (i + 1) + d = (i + d) + 1 /\ i + d \in 1 .. Len(h) - 1
      <4> HIDE DEF d
      <4> QED BY <1>2, <2>1, <2>2, <3>2
    <3>4. h[(i + d) + 1].ordinal = h[i + d].ordinal + 1
      <4> HIDE DEF d
      <4> QED BY <3>3 DEF Before
    <3> HIDE DEF d
    <3> QED BY <2>2, <3>2, <3>3, <3>4
  <2> QED BY <2>3, <2>4
<1>7. next # Missing
  BY <1>2
<1> QED BY <1>1, <1>4, <1>5, <1>6, <1>7 DEF Before

\* A prompt keeps the tasks before in order, and touches neither the change nor
\* the records.
LEMMA Prompts ==
  ASSUME Tasks!SessionTasksAssumption, tree \in Trees, NEW r, Good(r), NEW n \in 1 .. MaxPrompts, n = r.prompts,
         r.task # Missing => r.task.ordinal < n,
         NEW kind \in {"empty", "weak", "focus", "pivot"}, NEW f, f = Tasks!Prompted(r, kind, n)
  PROVE  Good(f) /\ f.change = r.change /\ f.completed = r.completed
<1>t. /\ r \in RecordType /\ r.task \in Tasks!Task \cup {Missing} /\ r.taskHistory \in Seq(Tasks!Task) /\ r.prompts \in Nat
      /\ Len(r.taskHistory) <= MaxHistory /\ Before(r.taskHistory, r.task)
  BY DEF Good, RecordType
<1>m. MaxPrompts \in Nat /\ Missing \notin Tasks!Task /\ n \in Nat
  BY Limits
<1>1. CASE kind = "empty" \/ (kind = "weak" /\ r.task # Missing)
  <2>1. f = r
    BY <1>1 DEF Tasks!Prompted
  <2> QED BY <2>1
<1>2. CASE kind # "empty" /\ r.task = Missing
  <2> DEFINE task == [ordinal |-> 1, focus |-> n, done |-> FALSE, from |-> tree]
  <2>1. task \in Tasks!Task /\ task.ordinal = 1
    BY <1>m DEF Tasks!Task
  <2>2. f = [r EXCEPT !.task = task]
    BY <1>2 DEF Tasks!Prompted, Tasks!Started
  <2> HIDE DEF task
  <2>3. /\ f \in RecordType /\ f.task = task /\ f.taskHistory = r.taskHistory /\ f.prompts = r.prompts
        /\ f.change = r.change /\ f.completed = r.completed
    BY <1>t, <2>1, <2>2 DEF RecordType
  <2>4. r.taskHistory = <<>>
    BY <1>t, <1>2 DEF Before
  <2>5. Before(f.taskHistory, f.task)
    BY <1>m, <2>1, <2>3, <2>4, Limits DEF Before
  <2> QED BY <1>m, <2>1, <2>3, <2>5 DEF Good, Once
<1>3. CASE kind = "pivot" /\ r.task # Missing
  <2> DEFINE old == [r.task EXCEPT !.done = TRUE]
             task == [ordinal |-> r.task.ordinal + 1, focus |-> n, done |-> FALSE, from |-> tree]
             h == Tasks!LastOf(Append(r.taskHistory, old), MaxHistory)
  <2>1. /\ r.task \in Tasks!Task /\ r.task.ordinal \in Nat /\ old \in Tasks!Task /\ old.ordinal = r.task.ordinal
    <3>1. r.task \in Tasks!Task
      BY <1>t, <1>3
    <3>2. old \in Tasks!Task /\ old.ordinal = r.task.ordinal
      BY <3>1 DEF Tasks!Task
    <3> QED BY <1>m, <3>1, <3>2 DEF Tasks!Task
  <2>2. task \in Tasks!Task /\ task.ordinal = r.task.ordinal + 1 /\ task.ordinal <= n
    BY <1>m, <1>3, <2>1 DEF Tasks!Task
  <2>3. h = Tasks!LastOf(Append(r.taskHistory, old), MaxHistory)
    OBVIOUS
  <2>4. f = [[r EXCEPT !.taskHistory = h] EXCEPT !.task = task]
    BY <1>3 DEF Tasks!Prompted, Tasks!Started, Tasks!Archived
  <2> HIDE DEF old, task, h
  <2>5. h \in Seq(Tasks!Task) /\ Len(h) <= MaxHistory /\ Before(h, task)
    BY <1>t, <2>1, <2>2, <2>3, Archives
  <2>6. /\ f \in RecordType /\ f.task = task /\ f.taskHistory = h /\ f.prompts = r.prompts
        /\ f.change = r.change /\ f.completed = r.completed
    BY <1>t, <2>2, <2>4, <2>5 DEF RecordType
  <2> QED BY <2>2, <2>5, <2>6 DEF Good, Once
<1>4. CASE kind = "focus" /\ r.task # Missing
  <2> DEFINE task == [r.task EXCEPT !.focus = n]
  <2>1. task \in Tasks!Task /\ task.ordinal = r.task.ordinal
    BY <1>t, <1>m, <1>4 DEF Tasks!Task
  <2>2. f = [r EXCEPT !.task = task]
    BY <1>4 DEF Tasks!Prompted
  <2> HIDE DEF task
  <2>3. /\ f \in RecordType /\ f.task = task /\ f.taskHistory = r.taskHistory /\ f.prompts = r.prompts
        /\ f.change = r.change /\ f.completed = r.completed
    BY <1>t, <2>1, <2>2 DEF RecordType
  <2>4. Before(f.taskHistory, f.task)
    BY <1>t, <1>m, <1>4, <2>1, <2>3 DEF Before
  <2> QED BY <1>4, <2>1, <2>3, <2>4 DEF Good, Once
<1> QED BY <1>1, <1>2, <1>3, <1>4

\* A Stop completes a change, and ends the task.
LEMMA Completes ==
  ASSUME Tasks!SessionTasksAssumption, tree \in Trees, NEW r, Good(r), NEW c \in Tasks!Snapshot,
         NEW f, f = [r EXCEPT !.change = Tasks!ChangeOf(r, c), !.task = Tasks!Done(@)]
  PROVE  Good(f) /\ f.change = Tasks!ChangeOf(r, c) /\ f.task = Tasks!Done(r.task) /\ f.completed = r.completed
<1>t. /\ r \in RecordType /\ r.task \in Tasks!Task \cup {Missing} /\ r.baseline \in Trees \cup {Missing, Unavailable}
      /\ Before(r.taskHistory, r.task)
  BY DEF Good, RecordType
<1> DEFINE change == Tasks!ChangeOf(r, c)
           task == Tasks!Done(r.task)
<1>1. change \in Tasks!ChangeId \cup {Missing}
  BY <1>t DEF Tasks!ChangeOf, Tasks!ChangeId, Tasks!Snapshot
<1>2. /\ task \in Tasks!Task \cup {Missing} /\ (task = Missing <=> r.task = Missing)
      /\ r.task # Missing => task.ordinal = r.task.ordinal
  BY <1>t, Limits DEF Tasks!Done, Tasks!Task
<1>3. f = [r EXCEPT !.change = change, !.task = task]
  OBVIOUS
<1> HIDE DEF change, task
<1>4. /\ f \in RecordType /\ f.task = task /\ f.taskHistory = r.taskHistory /\ f.prompts = r.prompts
      /\ f.change = change /\ f.completed = r.completed
  BY <1>t, <1>1, <1>2, <1>3 DEF RecordType
<1>5. Before(f.taskHistory, f.task)
  BY <1>t, <1>2, <1>4 DEF Before
<1>6. Good(f)
  BY <1>2, <1>4, <1>5 DEF Good, Once
<1> QED BY <1>4, <1>6 DEF change, task

-----------------------------------------------------------------------------
(* The inductive invariant *)

\* A completion without a record is one that an earlier release saved: with the
\* task that made it, which has ended.
Unrecorded(s) ==
  session[s].completed = <<>> /\ owner[s] = session[s].task /\ Tasks!Done(session[s].task) = session[s].task
TaskInv ==
  /\ tree \in Trees /\ recent \in Seq(Sessions) /\ Len(recent) <= MaxSessions
  /\ session = [s \in Sessions |-> session[s]]
  /\ \A s \in Sessions : /\ Good(session[s]) /\ (Recorded(session[s]) \/ Unrecorded(s))
                         /\ s \in Elements(recent) \/ session[s] = Tasks!NewSession

LEMMA LegacyIsGood ==
  ASSUME Tasks!SessionTasksAssumption, NEW s, NEW t \in Trees
  PROVE  LET r == Tasks!Legacy(s, t) IN Good(r) /\ r.completed = <<>> /\ r.task # Missing /\ Tasks!Done(r.task) = r.task
<1> DEFINE task == [ordinal |-> 1, focus |-> 1, done |-> TRUE, from |-> t]
           r == Tasks!Legacy(s, t)
<1>m. MaxPrompts \in Nat \ {0} /\ MaxHistory \in Nat \ {0} /\ MaxCompleted \in Nat \ {0} /\ Missing \notin Tasks!Task
  BY Limits
<1>0. 1 \in 1..MaxPrompts
  BY <1>m
<1>1. task \in Tasks!Task /\ task.ordinal = 1 /\ task # Missing
  <2>1. task \in Tasks!Task
    BY <1>0 DEF Tasks!Task
  <2> QED BY <1>m, <2>1
<1>2. Tasks!Done(task) = task
  BY <1>1 DEF Tasks!Done
<1>3. /\ Tasks!NewSession \in RecordType /\ Tasks!NewSession.taskHistory = <<>> /\ Tasks!NewSession.completed = <<>>
      /\ 1 \in 0..MaxPrompts /\ <<t, t>> \in Tasks!ChangeId
  <2>1. Tasks!NewSession \in RecordType
    BY NewIsGood DEF Good
  <2> QED BY <1>m, <2>1 DEF Tasks!NewSession, Tasks!ChangeId
<1> HIDE DEF task
<1>4. r \in RecordType /\ r.task = task /\ r.taskHistory = <<>> /\ r.prompts = 1 /\ r.completed = <<>>
  BY <1>1, <1>3 DEF RecordType, Tasks!Legacy, task
<1> HIDE DEF r
<1>5. Before(<<>>, task)
  BY <1>m, <1>1 DEF Before
<1>6. Good(r)
  BY <1>m, <1>1, <1>4, <1>5 DEF Good, Once
<1> QED BY <1>1, <1>2, <1>4, <1>6 DEF r

LEMMA Initially == ASSUME Tasks!SessionTasksAssumption, Tasks!Init PROVE TaskInv
<1>1. PICK t \in Trees, known \in SUBSET Sessions :
        /\ tree = t /\ \A a, b \in known : a = b
        /\ session = [s \in Sessions |-> IF s \in known THEN Tasks!Legacy(s, t) ELSE Tasks!NewSession]
        /\ recent = (IF known = {} THEN <<>> ELSE <<CHOOSE s \in known : TRUE>>)
        /\ owner = [s \in Sessions |-> IF s \in known THEN session[s].task ELSE Missing]
  BY DEF Tasks!Init
<1>2. CASE known = {}
  <2>1. recent = <<>> /\ \A s \in Sessions : session[s] = Tasks!NewSession
    BY <1>1, <1>2
  <2>2. recent \in Seq(Sessions) /\ Len(recent) = 0
    BY <2>1
  <2> QED BY <1>1, <2>1, <2>2, NewIsGood, Limits DEF TaskInv
<1>3. CASE known # {}
  <2> DEFINE k == CHOOSE s \in known : TRUE
  <2>1. k \in known /\ k \in Sessions /\ \A s \in known : s = k
    BY <1>1, <1>3
  <2>2. recent = <<k>>
    BY <1>1, <1>3
  <2> HIDE DEF k
  <2>3. recent \in Seq(Sessions) /\ Len(recent) = 1 /\ k \in Elements(recent)
    BY <2>1, <2>2 DEF Elements
  <2>4. ASSUME NEW s \in Sessions
        PROVE  /\ Good(session[s]) /\ (Recorded(session[s]) \/ Unrecorded(s))
               /\ s \in Elements(recent) \/ session[s] = Tasks!NewSession
    <3>1. CASE s = k
      <4>1. session[s] = Tasks!Legacy(s, t) /\ owner[s] = session[s].task
        BY <1>1, <2>1, <3>1
      <4> QED BY <2>3, <3>1, <4>1, LegacyIsGood DEF Unrecorded
    <3>2. CASE s # k
      <4>1. session[s] = Tasks!NewSession
        BY <1>1, <2>1, <3>2
      <4> QED BY <4>1, NewIsGood
    <3> QED BY <3>1, <3>2
  <2>5. Len(recent) <= MaxSessions /\ session = [s \in Sessions |-> session[s]] /\ tree \in Trees
    BY <1>1, <2>3, Limits
  <2> QED BY <2>3, <2>4, <2>5 DEF TaskInv
<1> QED BY <1>2, <1>3

-----------------------------------------------------------------------------
(* Steps *)

TasksKept == TaskInv' /\ Tasks!RecordedForItsMaker

LEMMA EnsuredIs == ASSUME TaskInv, NEW s \in Sessions PROVE Tasks!Ensured(s) = session[s]
  BY DEF TaskInv, Tasks!Ensured, Elements

\* A session is saved as the latest, with records that name their maker.
LEMMA Saves ==
  ASSUME Tasks!SessionTasksAssumption, TaskInv, NEW s \in Sessions, NEW r, Good(r), Recorded(r), Tasks!Save(s, r),
         \A c \in Tasks!Records(r) \ Tasks!Records(session[s]) :
           c.task = (IF r.change # session[s].change THEN r.task ELSE owner[s])
  PROVE  TasksKept
<1> DEFINE others == Sub(recent, {i \in DOMAIN recent : recent[i] # s})
<1>1. recent' \in Seq(Sessions) /\ Len(recent') <= MaxSessions /\ s \in Elements(recent')
  <2>1. others \in Seq(Sessions)
    BY SubElements DEF TaskInv
  <2>2. recent' = Tasks!LastOf(Append(others, s), MaxSessions)
    BY TasksLibrary DEF Tasks!Save
  <2> HIDE DEF others
  <2>3. recent' \in Seq(Sessions) /\ EndOf(recent', others, s, MaxSessions)
    BY <2>1, <2>2, LastOfAppended, Limits
  <2>4. Len(recent') \in DOMAIN recent' /\ recent'[Len(recent')] = s /\ Len(recent') <= MaxSessions
    BY <2>3 DEF EndOf
  <2> QED BY <2>3, <2>4 DEF Elements
<1>2. /\ session'[s] = r
      /\ \A o \in Sessions \ {s} : session'[o] = session[o] \/ session'[o] = Tasks!NewSession
      /\ \A o \in Sessions \ {s} : o \in Elements(recent') \/ session'[o] = Tasks!NewSession
      /\ session' = [o \in Sessions |-> session'[o]]
  BY DEF Tasks!Save, Elements
<1>3. \A o \in Sessions : owner'[o] = (IF session'[o] = Tasks!NewSession THEN Missing
                                       ELSE IF o = s /\ r.change # session[s].change THEN r.task ELSE owner[o])
  BY EnsuredIs DEF Tasks!Save
<1>4. ASSUME NEW o \in Sessions
      PROVE  /\ Good(session'[o]) /\ (Recorded(session'[o]) \/ Unrecorded(o)')
             /\ o \in Elements(recent') \/ session'[o] = Tasks!NewSession
  <2>1. CASE o = s
    BY <1>1, <1>2, <2>1
  <2>2. CASE o # s /\ session'[o] = Tasks!NewSession
    BY <2>2, NewIsGood
  <2>3. CASE o # s /\ session'[o] # Tasks!NewSession
    <3>1. session'[o] = session[o] /\ owner'[o] = owner[o]
      BY <1>2, <1>3, <2>3
    <3> QED BY <1>2, <2>3, <3>1 DEF TaskInv, Unrecorded
  <2> QED BY <2>1, <2>2, <2>3
<1>5. TaskInv'
  BY <1>1, <1>2, <1>4 DEF TaskInv, Tasks!Save
<1>6. ASSUME NEW o \in Sessions, NEW c \in Tasks!Records(session'[o]), c \notin Tasks!Records(session[o])
      PROVE  c.task = owner'[o]
  <2>1. session'[o] # Tasks!NewSession
    BY <1>6 DEF Tasks!NewSession, Tasks!Records
  <2>2. o = s
    BY <1>2, <1>6, <2>1
  <2> QED BY <1>2, <1>3, <1>6, <2>1, <2>2
<1> QED BY <1>5, <1>6 DEF TasksKept, Tasks!RecordedForItsMaker

\* What every event begins with.
LEMMA Begins ==
  ASSUME Tasks!SessionTasksAssumption, TaskInv, NEW s \in Sessions
  PROVE  LET b == Tasks!Begun(s) IN
         /\ Good(b) /\ Recorded(b) /\ b.task = session[s].task /\ b.change = session[s].change
         /\ \A c \in Tasks!Records(b) \ Tasks!Records(session[s]) : c.task = owner[s] /\ c.task = b.task /\ Tasks!Done(b.task) = b.task
<1> DEFINE b == Tasks!Begun(s)
<1>1. b = Tasks!Freeze(session[s]) /\ Good(session[s])
  BY EnsuredIs DEF Tasks!Begun, Tasks!FreezeFirst, TaskInv
<1> HIDE DEF b
<1>2. /\ Good(b) /\ Recorded(b) /\ b.task = session[s].task /\ b.change = session[s].change
      /\ Recorded(session[s]) => b = session[s]
      /\ \A c \in Tasks!Records(b) \ Tasks!Records(session[s]) : c.task = session[s].task
  BY <1>1, Freezes
<1>3. ASSUME NEW c \in Tasks!Records(b) \ Tasks!Records(session[s]) PROVE c.task = owner[s] /\ c.task = b.task /\ Tasks!Done(b.task) = b.task
  <2>1. ~Recorded(session[s])
    BY <1>2, <1>3
  <2>2. Unrecorded(s)
    BY <2>1 DEF TaskInv
  <2> QED BY <1>2, <1>3, <2>2 DEF Unrecorded
<1> QED BY <1>2, <1>3 DEF b

\* An event other than a Stop.
LEMMA EventStep ==
  ASSUME Tasks!SessionTasksAssumption, TaskInv, NEW s \in Sessions, NEW r, Good(r), r.change = Tasks!Begun(s).change,
         r.completed = Tasks!Begun(s).completed, Tasks!Save(s, r)
  PROVE  TasksKept
<1> DEFINE b == Tasks!Begun(s)
<1>1. /\ Good(b) /\ Recorded(b) /\ b.change = session[s].change
      /\ \A c \in Tasks!Records(b) \ Tasks!Records(session[s]) : c.task = owner[s]
  BY Begins
<1> HIDE DEF b
<1>2. Tasks!Records(r) = Tasks!Records(b) /\ r.change = b.change
  BY DEF Tasks!Records, b
<1>3. Recorded(r)
  BY <1>1, <1>2 DEF Recorded
<1> QED BY <1>1, <1>2, <1>3, Saves

LEMMA StopStep ==
  ASSUME Tasks!SessionTasksAssumption, TaskInv, NEW s \in Sessions, Tasks!Stop(s) PROVE TasksKept
<1> DEFINE b == Tasks!Begun(s)
<1>1. /\ Good(b) /\ Recorded(b) /\ b.task = session[s].task /\ b.change = session[s].change
      /\ \A c \in Tasks!Records(b) \ Tasks!Records(session[s]) : c.task = owner[s] /\ c.task = b.task /\ Tasks!Done(b.task) = b.task
  BY Begins
<1>2. PICK c \in Tasks!Snapshot : Tasks!Save(s, Tasks!Freeze([b EXCEPT !.change = Tasks!ChangeOf(b, c), !.task = Tasks!Done(@)]))
  BY DEF Tasks!Stop
<1> DEFINE m == [b EXCEPT !.change = Tasks!ChangeOf(b, c), !.task = Tasks!Done(@)]
           r == Tasks!Freeze(m)
<1> HIDE DEF b
<1>3. Good(m) /\ m.task = Tasks!Done(b.task) /\ m.completed = b.completed
  BY <1>1, Completes DEF TaskInv
<1> HIDE DEF m
<1>4. /\ Good(r) /\ Recorded(r) /\ r.task = m.task /\ r.change = m.change /\ (Recorded(m) => r = m)
      /\ \A d \in Tasks!Records(r) \ Tasks!Records(m) : d.task = m.task
  BY <1>3, Freezes
<1>5. Tasks!Records(m) = Tasks!Records(b) /\ Tasks!Save(s, r)
  BY <1>2, <1>3 DEF Tasks!Records, m
<1> HIDE DEF r
<1>6. m.change = b.change => r = m
  BY <1>1, <1>4, <1>5 DEF Recorded
<1>7. ASSUME NEW d \in Tasks!Records(r), d \notin Tasks!Records(session[s])
      PROVE  d.task = (IF r.change # session[s].change THEN r.task ELSE owner[s])
  <2>1. CASE d \in Tasks!Records(b)
    <3>1. d.task = owner[s] /\ d.task = b.task /\ Tasks!Done(b.task) = b.task
      BY <1>1, <1>7, <2>1
    <3> QED BY <1>3, <1>4, <3>1
  <2>2. CASE d \notin Tasks!Records(b)
    <3>1. r # m
      BY <1>5, <1>7, <2>2
    <3>2. r.change # session[s].change
      BY <1>1, <1>4, <1>6, <3>1
    <3> QED BY <1>4, <1>5, <1>7, <2>2, <3>2
  <2> QED BY <2>1, <2>2
<1> QED BY <1>4, <1>5, <1>7, Saves

LEMMA TaskStep == ASSUME Tasks!SessionTasksAssumption, TaskInv, [Tasks!Next]_Tasks!vars PROVE TasksKept
<1>t. tree \in Trees /\ \A s \in Sessions : Good(Tasks!Begun(s))
  BY Begins DEF TaskInv
<1>s. ASSUME UNCHANGED <<session, recent, owner>>, tree' \in Trees PROVE TasksKept
  <2>1. TaskInv'
    BY <1>s DEF TaskInv, Unrecorded
  <2> QED BY <1>s, <2>1 DEF TasksKept, Tasks!RecordedForItsMaker
<1>1. CASE UNCHANGED Tasks!vars
  BY <1>1, <1>t, <1>s DEF Tasks!vars
<1>2. ASSUME NEW s \in Sessions, Tasks!SessionStart(s) PROVE TasksKept
  <2>1. PICK b \in Trees \cup {Missing, Unavailable} : Tasks!Save(s, Tasks!WithBaseline(Tasks!Begun(s), b))
    BY <1>2, <1>t DEF Tasks!SessionStart, Tasks!Snapshot
  <2> DEFINE f == Tasks!WithBaseline(Tasks!Begun(s), b)
  <2>2. Good(f) /\ f.change = Tasks!Begun(s).change /\ f.completed = Tasks!Begun(s).completed
    BY <1>t, TasksChanges
  <2> HIDE DEF f
  <2>3. Tasks!Save(s, f)
    BY <2>1 DEF f
  <2> QED BY <2>2, <2>3, EventStep
<1>3. ASSUME NEW s \in Sessions, Tasks!ToolEvent(s) PROVE TasksKept
  BY <1>3, <1>t, EventStep DEF Tasks!ToolEvent
<1>4. ASSUME NEW s \in Sessions, Tasks!Stop(s) PROVE TasksKept
  BY <1>4, StopStep
<1>5. ASSUME NEW s \in Sessions, NEW kind \in {"empty", "weak", "focus", "pivot"}, Tasks!UserPromptSubmit(s, kind) PROVE TasksKept
  <2> DEFINE r == Tasks!Begun(s)
  <2>1. PICK b \in Trees \cup {Missing, Unavailable} :
          /\ r.prompts < MaxPrompts
          /\ Tasks!Save(s, Tasks!Prompted([Tasks!WithBaseline(r, b) EXCEPT !.prompts = @ + 1], kind, r.prompts + 1))
    BY <1>5, <1>t DEF Tasks!UserPromptSubmit, Tasks!Snapshot
  <2> DEFINE w == Tasks!WithBaseline(r, b)
             n == r.prompts + 1
  <2>2. Good(r)
    BY <1>t
  <2> HIDE DEF r
  <2>3. /\ Good(w) /\ w.task = r.task /\ w.prompts = r.prompts /\ w.change = r.change
        /\ w.completed = r.completed
    BY <2>2, TasksChanges
  <2> DEFINE f == [w EXCEPT !.prompts = @ + 1]
             p == Tasks!Prompted(f, kind, n)
  <2>4. Tasks!Save(s, p)
    BY <2>1
  <2> HIDE DEF w
  <2>5. /\ Good(f) /\ f.task = w.task /\ f.prompts = w.prompts + 1 /\ f.change = w.change
        /\ f.completed = w.completed
    BY <2>1, <2>3, TasksChanges
  <2> HIDE DEF f
  <2>6. n \in 1 .. MaxPrompts /\ n = f.prompts /\ (f.task # Missing => f.task.ordinal < n)
    <3>1. r.prompts \in Nat /\ MaxPrompts \in Nat /\ (r.task # Missing => r.task.ordinal \in Nat /\ r.task.ordinal <= r.prompts)
      BY <2>2, Limits DEF Good, RecordType, Tasks!Task
    <3> QED BY <2>1, <2>3, <2>5, <3>1
  <2> HIDE DEF n
  <2>7. Good(p) /\ p.change = f.change /\ p.completed = f.completed
    BY <1>t, <2>5, <2>6, Prompts
  <2> HIDE DEF p
  <2>8. p.change = Tasks!Begun(s).change /\ p.completed = Tasks!Begun(s).completed
    BY <2>3, <2>5, <2>7 DEF r
  <2> QED BY <2>4, <2>7, <2>8, EventStep
<1>6. ASSUME NEW x \in Trees, Tasks!Edit(x) PROVE TasksKept
  BY <1>6, <1>s DEF Tasks!Edit
<1> QED BY <1>1, <1>2, <1>3, <1>4, <1>5, <1>6 DEF Tasks!Next

-----------------------------------------------------------------------------
(* The theorems *)

\* The sessions kept, their tasks and their records keep their shape and limits.
THEOREM TasksTypeCorrect == ASSUME Tasks!SessionTasksAssumption PROVE Tasks!Spec => []Tasks!TypeOK
<1>1. Tasks!Init => TaskInv
  BY Initially
<1>2. TaskInv /\ [Tasks!Next]_Tasks!vars => TaskInv'
  BY TaskStep DEF TasksKept
<1>3. TaskInv => Tasks!TypeOK
  BY DEF TaskInv, Tasks!TypeOK, Good, RecordType
<1> QED BY <1>1, <1>2, <1>3, PTL DEF Tasks!Spec

\* One record of each change, also of one that is completed again, and the tasks
\* just before the current one in order, for any lists and limits
\* (freezeCompletedChange, updateSessionTask).
THEOREM OneRecordOfEach ==
  ASSUME Tasks!SessionTasksAssumption PROVE Tasks!Spec => [](Tasks!OneRecordEach /\ Tasks!HistoryIsRecent)
<1>1. Tasks!Init => TaskInv
  BY Initially
<1>2. TaskInv /\ [Tasks!Next]_Tasks!vars => TaskInv'
  BY TaskStep DEF TasksKept
<1>3. TaskInv => Tasks!OneRecordEach /\ Tasks!HistoryIsRecent
  BY DEF TaskInv, Tasks!OneRecordEach, Tasks!HistoryIsRecent, Good, Once, Before, Recorded, Unrecorded
<1> QED BY <1>1, <1>2, <1>3, PTL DEF Tasks!Spec

\* A record names the task whose turn made the change, whatever later turns,
\* repeated completions and releases without records did in between.
THEOREM RecordsNameTheirMaker ==
  ASSUME Tasks!SessionTasksAssumption PROVE Tasks!Spec => [][Tasks!RecordedForItsMaker]_Tasks!vars
<1>1. Tasks!Init => TaskInv
  BY Initially
<1>2. TaskInv /\ [Tasks!Next]_Tasks!vars => TaskInv' /\ Tasks!RecordedForItsMaker
  BY TaskStep DEF TasksKept
<1> QED BY <1>1, <1>2, PTL DEF Tasks!Spec

-----------------------------------------------------------------------------
(* Configure, disconnect and reset, for any number of processes, credentials, *)
(* attempts, resets and writes: what a configure reports is its own; one that *)
(* ends as unstable leaves nothing; and, where resets move the directory and  *)
(* no lock stays busy too long, no enrollment outlives the identity.          *)

-----------------------------------------------------------------------------
(* The inductive invariant *)

EnrollmentPcs == {"idle", "ensure", "ensured", "enter", "write", "status", "confirm", "saved",
                  "undo", "check", "rollback", "threw", "busy", "disconnect", "remove"}
ProcType == [pc : EnrollmentPcs, cred : Creds \cup {None}, tries : 0..Attempts, ensured : 0..Attempts,
             own : SUBSET (1..MaxWrites), persisted : BOOLEAN, read : Enrollment!Saved \cup {None}]

\* From its start until it returns or throws.
Configuring == {"ensure", "ensured", "enter", "write", "status", "confirm", "saved",
                "undo", "check", "rollback"}

\* What holds of a process, whatever resets do.  An enrollment that is its own has
\* its credential, so the one it reports has; and one it rolls back is the one it
\* read, for nobody else writes one of its own.
EnrollmentSound(p) ==
  /\ configures[p].own \subseteq 1..writes
  /\ configures[p].pc \in {"ensure", "ensured", "enter", "write"} => configures[p].tries < Attempts
  /\ configures[p].pc \in {"ensure", "enter", "write", "status", "confirm"} => configures[p].ensured < Attempts
  /\ configures[p].pc \in {"idle", "disconnect", "remove"} => configures[p].own = {}
  /\ configures[p].pc \in Configuring => configures[p].cred \in Creds
  /\ configures[p].pc \in Configuring /\ Enrollment!Mine(p) => saved.cred = configures[p].cred
  /\ Enrollment!At(p, "saved") => /\ configures[p].read.id \in configures[p].own
                                  /\ configures[p].read.cred = configures[p].cred
  /\ Enrollment!At(p, "rollback") /\ Enrollment!Mine(p) => configures[p].read = saved

\* Resets move the directory, and besides the memory lock is never busy for too long.
Tidy == ~ByFile
Watched == Tidy /\ ~Busy

\* Then what a process read of the identity is so as long as its enrollment is saved.
Clean(p) ==
  /\ Enrollment!At(p, "threw") => ~Enrollment!Mine(p)
  /\ configures[p].pc \in {"ensured", "saved"} /\ Enrollment!Mine(p) => named
  /\ Enrollment!At(p, "confirm") /\ configures[p].persisted /\ Enrollment!Mine(p) => named

\* An enrollment without an identity is in the hands of the process that wrote it.
Unfinished(p) == Enrollment!Mine(p) /\ configures[p].pc \in Configuring \ {"saved"}
Attended == saved # None => named \/ \E p \in Procs : Unfinished(p)

EnrollmentFilesOK == /\ named \in BOOLEAN /\ saved \in Enrollment!Saved \cup {None} /\ memoryLock \in Procs \cup {None}
                     /\ deleting \subseteq {"identity", "config", "lock"} /\ resets \in 0..MaxResets
                     /\ writes \in 0..MaxWrites
                     /\ ~ByFile => deleting = {}
Apart == \A p, q \in Procs : p # q => configures[p].own \cap configures[q].own = {}

EInv == /\ EnrollmentFilesOK /\ configures \in [Procs -> ProcType] /\ Apart
        /\ \A p \in Procs : EnrollmentSound(p) /\ (Tidy => Clean(p))
        /\ Watched => Attended

-----------------------------------------------------------------------------
(* One process moves *)

\* The fields of what a process is doing.
LEMMA EnrollmentFields ==
  ASSUME configures \in [Procs -> ProcType], NEW p \in Procs
  PROVE  /\ configures[p].pc \in EnrollmentPcs /\ configures[p].cred \in Creds \cup {None}
         /\ configures[p].tries \in 0..Attempts /\ configures[p].ensured \in 0..Attempts
         /\ configures[p].own \in SUBSET (1..MaxWrites) /\ configures[p].persisted \in BOOLEAN
         /\ configures[p].read \in Enrollment!Saved \cup {None}
BY DEF ProcType

\* A process that does not move keeps what it relies on, if its enrollment is
\* still the saved one, or is not.
LEMMA OthersKeep ==
  ASSUME Enrollment!EnrollmentAssumption, EInv, NEW q \in Procs, configures'[q] = configures[q],
         writes' \in Nat, writes <= writes',
         Enrollment!Mine(q)' => Enrollment!Mine(q) /\ saved' = saved,
         Enrollment!Mine(q)' /\ Tidy /\ named => named'
  PROVE  EnrollmentSound(q)' /\ (Tidy => Clean(q)')
<1>1. configures[q].own \subseteq 1..writes' /\ EnrollmentSound(q)
  BY DEF EInv, EnrollmentSound, EnrollmentFilesOK
<1>2. EnrollmentSound(q)'
  BY <1>1 DEF EnrollmentSound, Enrollment!At
<1>3. ASSUME Tidy PROVE Clean(q)'
  BY <1>3 DEF EInv, Clean, Enrollment!At
<1> QED BY <1>2, <1>3

\* A step of p that writes no enrollment, and takes none from p while it lacks an
\* identity.
LEMMA Moves ==
  ASSUME Enrollment!EnrollmentAssumption, EInv, NEW p \in Procs, NEW r \in ProcType,
         configures' = [configures EXCEPT ![p] = r], r.own \subseteq configures[p].own,
         EnrollmentFilesOK', writes' = writes, saved' \in {saved, None}, named => named',
         EnrollmentSound(p)', Tidy => Clean(p)',
         Watched /\ saved' # None /\ ~named' /\ Unfinished(p) => r.pc \in Configuring \ {"saved"} /\ r.own = configures[p].own
  PROVE  EInv'
<1>1. configures' \in [Procs -> ProcType] /\ configures'[p] = r /\ \A q \in Procs \ {p} : configures'[q] = configures[q]
  BY DEF EInv
<1>2. Apart'
  BY <1>1 DEF EInv, Apart
<1>3. ASSUME NEW q \in Procs \ {p} PROVE EnrollmentSound(q)' /\ (Tidy => Clean(q)')
  <2>1. Enrollment!Mine(q)' => Enrollment!Mine(q) /\ saved' = saved
    BY <1>1 DEF Enrollment!Mine
  <2>2. writes' \in Nat /\ writes <= writes'
    BY DEF EInv, EnrollmentFilesOK, Enrollment!EnrollmentAssumption
  <2> QED BY <1>1, <2>1, <2>2, OthersKeep
<1>4. ASSUME Watched, saved' # None, ~named' PROVE \E q \in Procs : Unfinished(q)'
  <2>1. saved' = saved /\ ~named
    BY <1>4
  <2>2. PICK q \in Procs : Unfinished(q)
    BY <1>4, <2>1 DEF EInv, Attended
  <2>3. CASE q = p
    BY <1>1, <1>4, <2>1, <2>2, <2>3 DEF Unfinished, Enrollment!Mine
  <2>4. CASE q # p
    BY <1>1, <2>1, <2>2, <2>4 DEF Unfinished, Enrollment!Mine
  <2> QED BY <2>3, <2>4
<1> QED BY <1>1, <1>2, <1>3, <1>4 DEF EInv, Attended

LEMMA Bounds == Enrollment!EnrollmentAssumption => 0 \in 0..Attempts /\ 0 < Attempts
BY DEF Enrollment!EnrollmentAssumption

\* A process that does nothing, or that threw.
LEMMA IdleType ==
  ASSUME Enrollment!EnrollmentAssumption
  PROVE  /\ Enrollment!Idle \in ProcType /\ Enrollment!Idle.pc = "idle" /\ Enrollment!Idle.own = {} /\ Enrollment!Idle.tries = 0 /\ Enrollment!Idle.ensured = 0
         /\ \A own \in SUBSET (1..MaxWrites) :
              /\ [Enrollment!Idle EXCEPT !.pc = "threw", !.own = own] \in ProcType
              /\ [Enrollment!Idle EXCEPT !.pc = "busy", !.own = own] \in ProcType
BY Bounds DEF Enrollment!Idle, ProcType, EnrollmentPcs

LEMMA EnrollmentInitSound == ASSUME Enrollment!EnrollmentAssumption PROVE Enrollment!Init => EInv
<1> SUFFICES ASSUME Enrollment!Init PROVE EInv
  OBVIOUS
<1>1. EnrollmentFilesOK
  BY DEF Enrollment!Init, EnrollmentFilesOK, Enrollment!EnrollmentAssumption
<1>2. Enrollment!Idle \in ProcType
  BY IdleType
<1>3. \A p \in Procs : configures[p] = Enrollment!Idle
  BY DEF Enrollment!Init
<1>4. configures \in [Procs -> ProcType]
  BY <1>2 DEF Enrollment!Init
<1>5. Apart
  BY <1>3 DEF Apart, Enrollment!Idle
<1>6. ASSUME NEW p \in Procs PROVE EnrollmentSound(p) /\ Clean(p)
  BY <1>3 DEF EnrollmentSound, Clean, Enrollment!At, Enrollment!Mine, Enrollment!Idle, Configuring
<1>7. Attended
  BY DEF Enrollment!Init, Attended
<1> QED BY <1>1, <1>4, <1>5, <1>6, <1>7 DEF EInv
-----------------------------------------------------------------------------
(* configurePortal *)

LEMMA StartSound ==
  ASSUME Enrollment!EnrollmentAssumption, EInv, NEW p \in Procs, NEW c \in Creds, Enrollment!Start(p, c)
  PROVE  EInv'
<1> DEFINE r == [Enrollment!Idle EXCEPT !.pc = "ensure", !.cred = c]
<1>1. r \in ProcType /\ r.pc = "ensure" /\ r.cred = c /\ r.tries = 0 /\ r.ensured = 0 /\ r.own = {}
  BY Bounds DEF Enrollment!Idle, ProcType, EnrollmentPcs
<1>2. /\ configures' = [configures EXCEPT ![p] = r] /\ EnrollmentFilesOK' /\ writes' = writes
      /\ saved' = saved /\ named' = named
  BY DEF Enrollment!Start, Enrollment!Becomes, EInv, EnrollmentFilesOK
<1> HIDE DEF r
<1>3. configures'[p] = r
  BY <1>2 DEF EInv
<1>4. EnrollmentSound(p)' /\ Clean(p)'
  BY <1>1, <1>3, Bounds DEF EnrollmentSound, Clean, Enrollment!At, Enrollment!Mine
<1>5. ~ Unfinished(p)
  BY DEF Enrollment!Start, Enrollment!At, Unfinished, Configuring
<1> QED BY <1>1, <1>2, <1>4, <1>5, Moves

\* Between Start and the answer, a step that leaves the files alone.
LEMMA EnsureSound ==
  ASSUME Enrollment!EnrollmentAssumption, EInv, NEW p \in Procs, Enrollment!Ensure(p)
  PROVE  EInv'
<1> DEFINE r == [configures[p] EXCEPT !.pc = "ensured", !.ensured = @ + 1]
<1>1. EnrollmentSound(p) /\ configures[p].pc = "ensure"
  BY DEF EInv, Enrollment!Ensure, Enrollment!At
<1>2. configures[p] \in ProcType /\ configures[p].ensured + 1 \in 0..Attempts
  BY <1>1, EnrollmentFields DEF EnrollmentSound, EInv, Enrollment!EnrollmentAssumption
<1>3. /\ r \in ProcType /\ r.pc = "ensured" /\ r.cred = configures[p].cred /\ r.tries = configures[p].tries
      /\ r.own = configures[p].own
  BY <1>2 DEF ProcType, EnrollmentPcs
<1>4. /\ configures' = [configures EXCEPT ![p] = r] /\ EnrollmentFilesOK' /\ writes' = writes /\ saved' = saved /\ named'
  BY DEF Enrollment!Ensure, Enrollment!Becomes, EInv, EnrollmentFilesOK
<1> HIDE DEF r
<1>5. configures'[p] = r
  BY <1>4 DEF EInv
<1>6. EnrollmentSound(p)' /\ Clean(p)'
  BY <1>1, <1>3, <1>4, <1>5 DEF EnrollmentSound, Clean, Enrollment!At, Enrollment!Mine, Configuring
<1> QED BY <1>3, <1>4, <1>6, Moves

LEMMA EnsuredSound ==
  ASSUME Enrollment!EnrollmentAssumption, EInv, NEW p \in Procs, Enrollment!Ensured(p)
  PROVE  EInv'
<1>1. EnrollmentSound(p) /\ configures[p].pc = "ensured" /\ configures[p] \in ProcType /\ (Tidy => Clean(p))
  BY EnrollmentFields DEF EInv, Enrollment!Ensured, Enrollment!At
<1>2. EnrollmentFilesOK' /\ writes' = writes /\ saved' = saved /\ named' = named /\ named \in BOOLEAN
  BY DEF Enrollment!Ensured, EInv, EnrollmentFilesOK
<1>3. CASE named
  <2> DEFINE r == [configures[p] EXCEPT !.pc = "enter", !.ensured = 0]
  <2>1. /\ r \in ProcType /\ r.pc = "enter" /\ r.cred = configures[p].cred /\ r.tries = configures[p].tries
        /\ r.own = configures[p].own /\ r.ensured = 0 /\ 0 < Attempts
    BY <1>1, Bounds DEF ProcType, EnrollmentPcs
  <2>2. configures' = [configures EXCEPT ![p] = r]
    BY <1>3 DEF Enrollment!Ensured, Enrollment!Becomes
  <2> HIDE DEF r
  <2>3. configures'[p] = r
    BY <2>2 DEF EInv
  <2>4. EnrollmentSound(p)' /\ Clean(p)'
    BY <1>1, <1>2, <2>1, <2>3 DEF EnrollmentSound, Clean, Enrollment!At, Enrollment!Mine, Configuring
  <2> QED BY <1>2, <1>3, <2>1, <2>2, <2>4, Moves
<1>4. CASE ~named /\ configures[p].ensured < Attempts
  <2> DEFINE r == [configures[p] EXCEPT !.pc = "ensure"]
  <2>1. /\ r \in ProcType /\ r.pc = "ensure" /\ r.cred = configures[p].cred /\ r.tries = configures[p].tries
        /\ r.own = configures[p].own /\ r.ensured = configures[p].ensured
    BY <1>1 DEF ProcType, EnrollmentPcs
  <2>2. configures' = [configures EXCEPT ![p] = r]
    BY <1>4 DEF Enrollment!Ensured, Enrollment!Becomes, Enrollment!Goto
  <2> HIDE DEF r
  <2>3. configures'[p] = r
    BY <2>2 DEF EInv
  <2>4. EnrollmentSound(p)' /\ Clean(p)'
    BY <1>1, <1>2, <1>4, <2>1, <2>3 DEF EnrollmentSound, Clean, Enrollment!At, Enrollment!Mine, Configuring
  <2>5. r.pc \in Configuring \ {"saved"}
    BY <2>1 DEF Configuring
  <2> QED BY <1>2, <2>1, <2>2, <2>4, <2>5, Moves
<1>5. CASE ~named /\ ~(configures[p].ensured < Attempts)
  <2> DEFINE r == [Enrollment!Idle EXCEPT !.pc = "threw", !.own = configures[p].own]
  <2>1. r \in ProcType /\ r.pc = "threw" /\ r.own = configures[p].own
    BY <1>1, IdleType, EnrollmentFields DEF EInv, Enrollment!Idle
  <2>2. configures' = [configures EXCEPT ![p] = r]
    BY <1>5 DEF Enrollment!Ensured, Enrollment!Becomes, Enrollment!Throws
  <2> HIDE DEF r
  <2>3. configures'[p] = r
    BY <2>2 DEF EInv
  <2>4. Tidy => ~Enrollment!Mine(p)
    BY <1>1, <1>5 DEF Clean
  <2>5. EnrollmentSound(p)' /\ (Tidy => Clean(p)')
    BY <1>1, <1>2, <2>1, <2>3, <2>4 DEF EnrollmentSound, Clean, Enrollment!At, Enrollment!Mine, Configuring
  <2> QED BY <1>2, <2>1, <2>2, <2>4, <2>5, Moves DEF Unfinished, Watched
<1> QED BY <1>2, <1>3, <1>4, <1>5

\* The memory lock is entered to write, to roll back or to disconnect.
LEMMA EnterSound ==
  ASSUME Enrollment!EnrollmentAssumption, EInv, NEW p \in Procs, Enrollment!Enter(p)
  PROVE  EInv'
<1>1. EnrollmentSound(p) /\ configures[p] \in ProcType /\ (Tidy => Clean(p)) /\ configures[p].pc \in {"enter", "undo", "disconnect"}
  BY EnrollmentFields DEF EInv, Enrollment!Enter
<1>2. EnrollmentFilesOK' /\ writes' = writes /\ saved' = saved /\ named' = named
  BY DEF Enrollment!Enter, EInv, EnrollmentFilesOK
<1>3. PICK pc \in EnrollmentPcs : /\ configures' = [configures EXCEPT ![p] = [configures[p] EXCEPT !.pc = pc]]
                                  /\ configures[p].pc = "enter" => pc = "write"
                                  /\ configures[p].pc = "undo" => pc = "check"
                                  /\ configures[p].pc = "disconnect" => pc = "remove"
  BY <1>1 DEF Enrollment!Enter, Enrollment!Goto, Enrollment!Becomes, Enrollment!At, EnrollmentPcs
<1> DEFINE r == [configures[p] EXCEPT !.pc = pc]
<1>4. /\ r \in ProcType /\ r.pc = pc /\ r.cred = configures[p].cred /\ r.tries = configures[p].tries
      /\ r.own = configures[p].own /\ r.ensured = configures[p].ensured
  BY <1>1 DEF ProcType
<1> HIDE DEF r
<1>5. configures' = [configures EXCEPT ![p] = r] /\ configures'[p] = r
  BY <1>3 DEF EInv, r
<1>6. EnrollmentSound(p)' /\ Clean(p)'
  BY <1>1, <1>2, <1>3, <1>4, <1>5 DEF EnrollmentSound, Clean, Enrollment!At, Enrollment!Mine, Configuring
<1>7. Unfinished(p) => r.pc \in Configuring \ {"saved"}
  BY <1>1, <1>3, <1>4 DEF Unfinished, Configuring
<1> QED BY <1>2, <1>4, <1>5, <1>6, <1>7, Moves
\* A process that throws keeps what it wrote in mind, and nothing else.
LEMMA ThrowSound ==
  ASSUME Enrollment!EnrollmentAssumption, EInv, NEW p \in Procs, Enrollment!Throws(p), EnrollmentFilesOK', writes' = writes,
         saved' \in {saved, None}, named' = named, Tidy => ~Enrollment!Mine(p)'
  PROVE  EInv'
<1> DEFINE r == [Enrollment!Idle EXCEPT !.pc = "threw", !.own = configures[p].own]
<1>1. EnrollmentSound(p) /\ r \in ProcType /\ r.pc = "threw" /\ r.own = configures[p].own
  BY IdleType, EnrollmentFields DEF EInv, Enrollment!Idle
<1>2. configures' = [configures EXCEPT ![p] = r]
  BY DEF Enrollment!Throws, Enrollment!Becomes
<1> HIDE DEF r
<1>3. configures'[p] = r
  BY <1>2 DEF EInv
<1>4. EnrollmentSound(p)' /\ (Tidy => Clean(p)')
  BY <1>1, <1>3 DEF EnrollmentSound, Clean, Enrollment!At, Enrollment!Mine, Configuring
<1>5. Watched /\ saved' # None => ~Unfinished(p)
  BY <1>1, <1>3 DEF Unfinished, Enrollment!Mine, Watched
<1> QED BY <1>1, <1>2, <1>4, <1>5, Moves

\* One that leaves a busy lock keeps what it wrote in mind, and the enrollment.
LEMMA LockBusySound ==
  ASSUME Enrollment!EnrollmentAssumption, EInv, NEW p \in Procs, Enrollment!LockBusy(p)
  PROVE  EInv'
<1> DEFINE r == [Enrollment!Idle EXCEPT !.pc = "busy", !.own = configures[p].own]
<1>1. EnrollmentSound(p) /\ r \in ProcType /\ r.pc = "busy" /\ r.own = configures[p].own
  BY IdleType, EnrollmentFields DEF EInv, Enrollment!Idle
<1>2. configures' = [configures EXCEPT ![p] = r]
  BY DEF Enrollment!LockBusy, Enrollment!Becomes
<1> HIDE DEF r
<1>3. configures'[p] = r
  BY <1>2 DEF EInv
<1>4. EnrollmentFilesOK' /\ writes' = writes /\ saved' = saved /\ named' = named /\ ~Watched
  BY DEF Enrollment!LockBusy, EInv, EnrollmentFilesOK, Watched
<1>5. EnrollmentSound(p)' /\ Clean(p)'
  BY <1>1, <1>3, <1>4 DEF EnrollmentSound, Clean, Enrollment!At, Configuring
<1> QED BY <1>1, <1>2, <1>4, <1>5, Moves

LEMMA StatusSound ==
  ASSUME Enrollment!EnrollmentAssumption, EInv, NEW p \in Procs, Enrollment!Status(p)
  PROVE  EInv'
<1> DEFINE r == [configures[p] EXCEPT !.pc = "confirm", !.persisted = named]
<1>1. EnrollmentSound(p) /\ configures[p].pc = "status" /\ configures[p] \in ProcType
  BY EnrollmentFields DEF EInv, Enrollment!Status, Enrollment!At
<1>2. EnrollmentFilesOK' /\ writes' = writes /\ saved' = saved /\ named' = named /\ named \in BOOLEAN
  BY DEF Enrollment!Status, EInv, EnrollmentFilesOK
<1>3. /\ r \in ProcType /\ r.pc = "confirm" /\ r.cred = configures[p].cred /\ r.tries = configures[p].tries
      /\ r.own = configures[p].own /\ r.ensured = configures[p].ensured /\ r.persisted = named
  BY <1>1, <1>2 DEF ProcType, EnrollmentPcs
<1>4. configures' = [configures EXCEPT ![p] = r]
  BY DEF Enrollment!Status, Enrollment!Becomes
<1> HIDE DEF r
<1>5. configures'[p] = r
  BY <1>4 DEF EInv
<1>6. EnrollmentSound(p)' /\ Clean(p)'
  BY <1>1, <1>2, <1>3, <1>5 DEF EnrollmentSound, Clean, Enrollment!At, Enrollment!Mine, Configuring
<1>7. r.pc \in Configuring \ {"saved"}
  BY <1>3 DEF Configuring
<1> QED BY <1>2, <1>3, <1>4, <1>6, <1>7, Moves

LEMMA ConfirmSound ==
  ASSUME Enrollment!EnrollmentAssumption, EInv, NEW p \in Procs, Enrollment!Confirm(p)
  PROVE  EInv'
<1>1. EnrollmentSound(p) /\ configures[p].pc = "confirm" /\ configures[p] \in ProcType /\ (Tidy => Clean(p))
  BY EnrollmentFields DEF EInv, Enrollment!Confirm, Enrollment!At
<1>2. /\ EnrollmentFilesOK' /\ writes' = writes /\ saved' = saved /\ named' = named
      /\ saved \in Enrollment!Saved \cup {None}
  BY DEF Enrollment!Confirm, EInv, EnrollmentFilesOK
<1>3. CASE Enrollment!Confirms(p)
  <2> DEFINE r == [configures[p] EXCEPT !.pc = "saved", !.read = saved]
  <2>1. /\ r \in ProcType /\ r.pc = "saved" /\ r.cred = configures[p].cred /\ r.own = configures[p].own
        /\ r.read = saved
    BY <1>1, <1>2 DEF ProcType, EnrollmentPcs
  <2>2. configures' = [configures EXCEPT ![p] = r]
    BY <1>3 DEF Enrollment!Confirm, Enrollment!Becomes
  <2> HIDE DEF r
  <2>3. configures'[p] = r
    BY <2>2 DEF EInv
  <2>4. Enrollment!Mine(p) /\ configures[p].persisted
    BY <1>3 DEF Enrollment!Confirms
  <2>5. saved.id \in configures[p].own /\ saved.cred = configures[p].cred
    BY <1>1, <2>4 DEF EnrollmentSound, Enrollment!Mine, Configuring
  <2>6. Tidy => named
    BY <1>1, <2>4 DEF Clean, Enrollment!At
  <2>7. EnrollmentSound(p)' /\ (Tidy => Clean(p)')
    BY <1>1, <1>2, <2>1, <2>3, <2>5, <2>6 DEF EnrollmentSound, Clean, Enrollment!At, Enrollment!Mine, Configuring
  <2> QED BY <1>2, <2>1, <2>2, <2>6, <2>7, Moves DEF Watched
<1>4. CASE ~Enrollment!Confirms(p)
  <2>1. PICK pc \in {"ensure", "undo"} :
          /\ configures' = [configures EXCEPT ![p] = [configures[p] EXCEPT !.pc = pc]]
          /\ pc = "ensure" => configures[p].tries < Attempts
    BY <1>4 DEF Enrollment!Confirm, Enrollment!Goto, Enrollment!Becomes, Enrollment!TriesAgain
  <2> DEFINE r == [configures[p] EXCEPT !.pc = pc]
  <2>2. /\ r \in ProcType /\ r.pc = pc /\ r.cred = configures[p].cred /\ r.tries = configures[p].tries
        /\ r.own = configures[p].own /\ r.ensured = configures[p].ensured
    BY <1>1 DEF ProcType, EnrollmentPcs
  <2> HIDE DEF r
  <2>3. configures' = [configures EXCEPT ![p] = r] /\ configures'[p] = r
    BY <2>1 DEF EInv, r
  <2>4. EnrollmentSound(p)' /\ Clean(p)'
    BY <1>1, <1>2, <2>1, <2>2, <2>3 DEF EnrollmentSound, Clean, Enrollment!At, Enrollment!Mine, Configuring
  <2>5. r.pc \in Configuring \ {"saved"}
    BY <2>2 DEF Configuring
  <2> QED BY <1>2, <2>2, <2>3, <2>4, <2>5, Moves
<1> QED BY <1>3, <1>4

LEMMA CheckSound ==
  ASSUME Enrollment!EnrollmentAssumption, EInv, NEW p \in Procs, Enrollment!Check(p)
  PROVE  EInv'
<1> DEFINE r == [configures[p] EXCEPT !.pc = "rollback", !.read = saved]
<1>1. EnrollmentSound(p) /\ configures[p].pc = "check" /\ configures[p] \in ProcType
  BY EnrollmentFields DEF EInv, Enrollment!Check, Enrollment!At
<1>2. /\ EnrollmentFilesOK' /\ writes' = writes /\ saved' = saved /\ named' = named
      /\ saved \in Enrollment!Saved \cup {None}
  BY DEF Enrollment!Check, EInv, EnrollmentFilesOK
<1>3. /\ r \in ProcType /\ r.pc = "rollback" /\ r.cred = configures[p].cred /\ r.own = configures[p].own
      /\ r.read = saved
  BY <1>1, <1>2 DEF ProcType, EnrollmentPcs
<1>4. configures' = [configures EXCEPT ![p] = r]
  BY DEF Enrollment!Check, Enrollment!Becomes
<1> HIDE DEF r
<1>5. configures'[p] = r
  BY <1>4 DEF EInv
<1>6. EnrollmentSound(p)' /\ Clean(p)'
  BY <1>1, <1>2, <1>3, <1>5 DEF EnrollmentSound, Clean, Enrollment!At, Enrollment!Mine, Configuring
<1>7. r.pc \in Configuring \ {"saved"}
  BY <1>3 DEF Configuring
<1> QED BY <1>2, <1>3, <1>4, <1>6, <1>7, Moves

\* An enrollment of its own is the one it read, and goes.
LEMMA RollbackSound ==
  ASSUME Enrollment!EnrollmentAssumption, EInv, NEW p \in Procs, Enrollment!Rollback(p)
  PROVE  EInv'
<1>1. EnrollmentSound(p) /\ configures[p].pc = "rollback" /\ configures[p].own = configures'[p].own
  BY DEF EInv, Enrollment!Rollback, Enrollment!At, Enrollment!Throws, Enrollment!Becomes, Enrollment!Idle
<1>2. EnrollmentFilesOK' /\ writes' = writes /\ saved' \in {saved, None} /\ named' = named
  BY DEF Enrollment!Rollback, EInv, EnrollmentFilesOK, Enrollment!Leaves
<1>3. ~Enrollment!Mine(p)'
  <2>1. CASE Enrollment!Mine(p)
    <3>1. configures[p].read = saved
      BY <1>1, <2>1 DEF EnrollmentSound, Enrollment!At
    <3>2. Enrollment!RollsBack(p)
      BY <2>1, <3>1 DEF Enrollment!RollsBack, Enrollment!Mine
    <3> QED BY <3>2 DEF Enrollment!Rollback, Enrollment!Mine
  <2>2. CASE ~Enrollment!Mine(p)
    BY <1>1, <1>2, <2>2 DEF Enrollment!Mine
  <2> QED BY <2>1, <2>2
<1> QED BY <1>2, <1>3, ThrowSound DEF Enrollment!Rollback

\* A call that returns, or that removes the enrollment, is idle again.
LEMMA DoneSound ==
  ASSUME Enrollment!EnrollmentAssumption, EInv, NEW p \in Procs, Enrollment!Return(p) \/ Enrollment!Remove(p)
  PROVE  EInv'
<1>1. EnrollmentSound(p) /\ (Tidy => Clean(p)) /\ configures' = [configures EXCEPT ![p] = Enrollment!Idle]
  BY DEF EInv, Enrollment!Return, Enrollment!Remove, Enrollment!Becomes
<1>2. configures'[p] = Enrollment!Idle
  BY <1>1 DEF EInv
<1>3. EnrollmentFilesOK' /\ writes' = writes /\ saved' \in {saved, None} /\ named' = named
  BY DEF Enrollment!Return, Enrollment!Remove, Enrollment!Leaves, EInv, EnrollmentFilesOK
<1>4. EnrollmentSound(p)' /\ Clean(p)'
  BY <1>2, IdleType DEF EnrollmentSound, Clean, Enrollment!At, Enrollment!Mine, Configuring
<1>5. saved' # None => ~Unfinished(p)
  BY DEF Enrollment!Return, Enrollment!Remove, Unfinished, Configuring
<1> QED BY <1>1, <1>3, <1>4, <1>5, IdleType, Moves
LEMMA DisconnectSound ==
  ASSUME Enrollment!EnrollmentAssumption, EInv, NEW p \in Procs, Enrollment!Disconnect(p)
  PROVE  EInv'
<1> DEFINE r == [configures[p] EXCEPT !.pc = "disconnect"]
<1>1. EnrollmentSound(p) /\ configures[p].pc = "idle" /\ configures[p] \in ProcType
  BY EnrollmentFields DEF EInv, Enrollment!Disconnect, Enrollment!At
<1>2. r \in ProcType /\ r.pc = "disconnect" /\ r.own = configures[p].own
  BY <1>1 DEF ProcType, EnrollmentPcs
<1>3. /\ configures' = [configures EXCEPT ![p] = r] /\ EnrollmentFilesOK' /\ writes' = writes
      /\ saved' = saved /\ named' = named
  BY DEF Enrollment!Disconnect, Enrollment!Goto, Enrollment!Becomes, EInv, EnrollmentFilesOK
<1> HIDE DEF r
<1>4. configures'[p] = r
  BY <1>3 DEF EInv
<1>5. EnrollmentSound(p)' /\ Clean(p)'
  BY <1>1, <1>2, <1>3, <1>4 DEF EnrollmentSound, Clean, Enrollment!At, Enrollment!Mine, Configuring
<1>6. ~Unfinished(p)
  BY <1>1 DEF Unfinished, Configuring
<1> QED BY <1>2, <1>3, <1>5, <1>6, Moves

\* A write has an id that nobody has, so the enrollment is nobody else's.
LEMMA WriteSound ==
  ASSUME Enrollment!EnrollmentAssumption, EInv, NEW p \in Procs, Enrollment!Write(p)
  PROVE  EInv'
<1> DEFINE r == [configures[p] EXCEPT !.pc = "status", !.own = @ \cup {writes + 1}, !.tries = @ + 1]
<1>1. EnrollmentSound(p) /\ configures[p].pc = "write" /\ configures[p] \in ProcType
  BY EnrollmentFields DEF EInv, Enrollment!Write, Enrollment!At
<1>2. /\ writes' = writes + 1 /\ saved' = [cred |-> configures[p].cred, id |-> writes + 1]
      /\ named' = named /\ configures' = [configures EXCEPT ![p] = r]
  BY DEF Enrollment!Write, Enrollment!Becomes
<1>3. writes \in Nat /\ writes + 1 \in 1..MaxWrites /\ writes' \in 0..MaxWrites /\ configures[p].cred \in Creds
  BY <1>1, <1>2 DEF Enrollment!Write, EInv, EnrollmentFilesOK, Enrollment!EnrollmentAssumption, EnrollmentSound, Configuring
<1>4. configures[p].tries + 1 \in 0..Attempts
  BY <1>1, EnrollmentFields DEF EInv, EnrollmentSound, Enrollment!EnrollmentAssumption
<1>5. /\ r \in ProcType /\ r.pc = "status" /\ r.cred = configures[p].cred
      /\ r.own = configures[p].own \cup {writes + 1} /\ r.ensured = configures[p].ensured
  BY <1>1, <1>3, <1>4 DEF ProcType, EnrollmentPcs
<1> HIDE DEF r
<1>6. configures' \in [Procs -> ProcType] /\ configures'[p] = r /\ \A q \in Procs \ {p} : configures'[q] = configures[q]
  BY <1>2, <1>5 DEF EInv
<1>7. EnrollmentFilesOK'
  <2>1. saved' \in Enrollment!Saved
    BY <1>2, <1>3 DEF Enrollment!Saved
  <2>2. memoryLock' \in Procs \cup {None}
    BY DEF Enrollment!Write, Enrollment!Leaves, EInv, EnrollmentFilesOK
  <2> QED BY <1>2, <1>3, <2>1, <2>2 DEF Enrollment!Write, EInv, EnrollmentFilesOK
<1>8. \A q \in Procs : writes + 1 \notin configures[q].own
  BY <1>3 DEF EInv, EnrollmentSound
<1>9. Apart'
  BY <1>5, <1>6, <1>8 DEF EInv, Apart
<1>10. ASSUME NEW q \in Procs \ {p} PROVE EnrollmentSound(q)' /\ (Tidy => Clean(q)')
  <2>1. ~Enrollment!Mine(q)'
    BY <1>2, <1>6, <1>8 DEF Enrollment!Mine
  <2>2. writes' \in Nat /\ writes <= writes'
    BY <1>2, <1>3
  <2> QED BY <1>6, <2>1, <2>2, OthersKeep
<1>11. EnrollmentSound(p)'
  <2>1. r.own \subseteq 1..writes'
    BY <1>1, <1>2, <1>3, <1>5 DEF EnrollmentSound
  <2>2. Enrollment!Mine(p)' => saved'.cred = r.cred
    BY <1>2, <1>5
  <2> QED BY <1>1, <1>3, <1>5, <1>6, <2>1, <2>2 DEF EnrollmentSound, Enrollment!At, Configuring
<1>12. Clean(p)'
  BY <1>5, <1>6 DEF Clean, Enrollment!At
<1>13. Attended'
  <2>1. saved' # None => Enrollment!Mine(p)'
    BY <1>2, <1>5, <1>6 DEF Enrollment!Mine
  <2>2. saved' # None => Unfinished(p)'
    BY <1>5, <1>6, <2>1 DEF Unfinished, Configuring
  <2> QED BY <2>2 DEF Attended
<1> QED BY <1>6, <1>7, <1>9, <1>10, <1>11, <1>12, <1>13 DEF EInv

-----------------------------------------------------------------------------
(* Hooks and resets *)

\* No process moves: an identity appears, or goes, and an enrollment goes with it
\* where the directory is moved.
LEMMA FilesSound ==
  ASSUME Enrollment!EnrollmentAssumption, EInv, EnrollmentFilesOK', configures' = configures, writes' = writes,
         saved' \in {saved, None}, Tidy /\ saved' # None /\ named => named'
  PROVE  EInv'
<1>1. writes' \in Nat /\ writes <= writes'
  BY DEF EInv, EnrollmentFilesOK, Enrollment!EnrollmentAssumption
<1>2. ASSUME NEW q \in Procs PROVE EnrollmentSound(q)' /\ (Tidy => Clean(q)')
  <2>1. Enrollment!Mine(q)' => Enrollment!Mine(q) /\ saved' = saved /\ saved' # None
    BY DEF Enrollment!Mine
  <2> QED BY <1>1, <2>1, OthersKeep
<1>3. ASSUME Watched, saved' # None, ~named' PROVE \E q \in Procs : Unfinished(q)'
  <2>1. saved' = saved /\ ~named
    BY <1>3 DEF Watched
  <2>2. PICK q \in Procs : Unfinished(q)
    BY <1>3, <2>1 DEF EInv, Attended
  <2>3. Unfinished(q)'
    BY <2>1, <2>2 DEF Unfinished, Enrollment!Mine
  <2> QED BY <2>3
<1>4. configures' \in [Procs -> ProcType] /\ Apart'
  BY DEF EInv, Apart
<1> QED BY <1>2, <1>3, <1>4 DEF EInv, Attended

LEMMA ResetSound ==
  ASSUME Enrollment!EnrollmentAssumption, EInv,
         Enrollment!Hook \/ Enrollment!Archive \/ Enrollment!Delete \/ \E file \in deleting : Enrollment!DeleteOne(file)
  PROVE  EInv'
<1>1. CASE Enrollment!Hook
  <2>1. EnrollmentFilesOK' /\ configures' = configures /\ writes' = writes /\ saved' = saved /\ named'
    BY <1>1 DEF Enrollment!Hook, EInv, EnrollmentFilesOK
  <2> QED BY <2>1, FilesSound
<1>2. CASE Enrollment!Archive
  <2>1. resets' \in 0..MaxResets
    BY <1>2 DEF Enrollment!Archive, Enrollment!Resets, EInv, EnrollmentFilesOK, Enrollment!EnrollmentAssumption
  <2>2. /\ named' = FALSE /\ saved' = None /\ memoryLock' = None
        /\ UNCHANGED <<deleting, configures, writes>>
    BY <1>2 DEF Enrollment!Archive
  <2>3. EnrollmentFilesOK'
    BY <2>1, <2>2 DEF EInv, EnrollmentFilesOK
  <2> QED BY <2>2, <2>3, FilesSound
<1>3. CASE Enrollment!Delete
  <2>1. EnrollmentFilesOK' /\ configures' = configures /\ writes' = writes /\ saved' = saved /\ named' = named
    BY <1>3 DEF Enrollment!Delete, Enrollment!Resets, EInv, EnrollmentFilesOK, Enrollment!EnrollmentAssumption
  <2> QED BY <2>1, FilesSound
<1>4. CASE \E file \in deleting : Enrollment!DeleteOne(file)
  <2>1. PICK file \in deleting : Enrollment!DeleteOne(file)
    BY <1>4
  <2>2. ~Tidy
    BY <2>1 DEF EInv, EnrollmentFilesOK, Tidy
  <2>3. /\ named' \in BOOLEAN /\ saved' \in {saved, None} /\ memoryLock' \in {memoryLock, None}
        /\ deleting' \subseteq deleting /\ UNCHANGED <<configures, resets, writes>>
    BY <2>1 DEF Enrollment!DeleteOne
  <2>4. EnrollmentFilesOK'
    BY <2>3 DEF EInv, EnrollmentFilesOK
  <2> QED BY <2>2, <2>3, <2>4, FilesSound
<1> QED BY <1>1, <1>2, <1>3, <1>4

LEMMA EnrollmentNextSound == ASSUME Enrollment!EnrollmentAssumption PROVE EInv /\ [Enrollment!Next]_Enrollment!vars => EInv'
<1> SUFFICES ASSUME EInv, [Enrollment!Next]_Enrollment!vars PROVE EInv'
  OBVIOUS
<1>1. ASSUME NEW p \in Procs, NEW c \in Creds, Enrollment!Start(p, c) PROVE EInv'
  BY <1>1, StartSound
<1>2. ASSUME NEW p \in Procs, Enrollment!Ensure(p) \/ Enrollment!Ensured(p) \/ Enrollment!Enter(p) \/ Enrollment!LockBusy(p) PROVE EInv'
  BY <1>2, EnsureSound, EnsuredSound, EnterSound, LockBusySound
<1>3. ASSUME NEW p \in Procs, Enrollment!Write(p) \/ Enrollment!Status(p) \/ Enrollment!Confirm(p) \/ Enrollment!Check(p) PROVE EInv'
  BY <1>3, WriteSound, StatusSound, ConfirmSound, CheckSound
<1>4. ASSUME NEW p \in Procs, Enrollment!Rollback(p) \/ Enrollment!Return(p) \/ Enrollment!Disconnect(p) \/ Enrollment!Remove(p) PROVE EInv'
  BY <1>4, RollbackSound, DoneSound, DisconnectSound
<1>5. ASSUME Enrollment!Hook \/ Enrollment!Archive \/ Enrollment!Delete \/ \E file \in deleting : Enrollment!DeleteOne(file) PROVE EInv'
  BY <1>5, ResetSound
<1>6. CASE UNCHANGED Enrollment!vars
  <2>1. UNCHANGED <<named, saved, memoryLock, deleting, configures, resets, writes>>
    BY <1>6 DEF Enrollment!vars
  <2>2. EnrollmentFilesOK'
    BY <2>1 DEF EInv, EnrollmentFilesOK
  <2> QED BY <2>1, <2>2, FilesSound
<1> QED BY <1>1, <1>2, <1>3, <1>4, <1>5, <1>6 DEF Enrollment!Next

LEMMA EnrollmentInvariance == ASSUME Enrollment!EnrollmentAssumption PROVE Enrollment!Spec => []EInv
<1>1. Enrollment!Init => EInv
  BY EnrollmentInitSound
<1>2. EInv /\ [Enrollment!Next]_Enrollment!vars => EInv'
  BY EnrollmentNextSound
<1> QED BY <1>1, <1>2, PTL DEF Enrollment!Spec

-----------------------------------------------------------------------------
(* Resets that delete file by file                                           *)

\* A reset deletes its enrollment too, and ends before the next begins; so while
\* a configure persists the identity again and again, its enrollment outlives two
\* of the resets that take the identity, and no third.
Pending == IF "identity" \in deleting THEN 1 ELSE 0
Lost(p) == IF Enrollment!At(p, "ensured") /\ named THEN configures[p].ensured - 1 ELSE configures[p].ensured
Rounds(p) ==
  /\ configures[p].pc \in {"enter", "write", "status", "confirm"} => configures[p].ensured = 0
  /\ Enrollment!At(p, "ensured") => configures[p].ensured > 0
  /\ configures[p].pc \in {"ensure", "ensured"} =>
       /\ Lost(p) + Pending <= resets
       /\ Enrollment!Mine(p) /\ Lost(p) > 0 /\ "identity" \in deleting => "config" \in deleting
       /\ Enrollment!Mine(p) /\ Lost(p) > 1 => Lost(p) = 2 /\ "config" \in deleting /\ "identity" \notin deleting

\* A configure gives up after three losses, as the code does, or after more than
\* the resets there are.
Settles == ByFile => Attempts > 2 \/ MaxResets < Attempts
Spared(p) == Settles /\ Enrollment!At(p, "threw") => ~Enrollment!Mine(p)
RInv == Pending <= resets /\ \A p \in Procs : Rounds(p) /\ Spared(p)

Configures(p) ==
  \/ \E c \in Creds : Enrollment!Start(p, c)
  \/ Enrollment!Ensure(p) \/ Enrollment!Ensured(p) \/ Enrollment!Enter(p) \/ Enrollment!LockBusy(p) \/ Enrollment!Write(p) \/ Enrollment!Status(p)
  \/ Enrollment!Confirm(p) \/ Enrollment!Check(p) \/ Enrollment!Rollback(p) \/ Enrollment!Return(p) \/ Enrollment!Disconnect(p) \/ Enrollment!Remove(p)

\* What a step of one process leaves to the others.
LEMMA Elsewhere ==
  ASSUME Enrollment!EnrollmentAssumption, EInv, NEW p \in Procs, NEW q \in Procs \ {p}, Configures(p)
  PROVE  configures'[q] = configures[q] /\ (Enrollment!Mine(q)' => Enrollment!Mine(q))
<1>1. configures'[q] = configures[q]
  BY DEF EInv, Configures, Enrollment!Start, Enrollment!Ensure, Enrollment!Ensured, Enrollment!Enter, Enrollment!LockBusy, Enrollment!Write, Enrollment!Status, Enrollment!Confirm, Enrollment!Check, Enrollment!Rollback, Enrollment!Return,
         Enrollment!Disconnect, Enrollment!Remove, Enrollment!Becomes, Enrollment!Goto, Enrollment!Throws
<1>2. CASE Enrollment!Write(p)
  <2>1. saved'.id = writes + 1
    BY <1>2 DEF Enrollment!Write
  <2>2. writes + 1 \notin configures[q].own
    BY DEF EInv, EnrollmentFilesOK, Enrollment!EnrollmentAssumption, EnrollmentSound
  <2> QED BY <1>1, <2>1, <2>2 DEF Enrollment!Mine
<1>3. CASE ~Enrollment!Write(p)
  <2>1. saved' \in {saved, None}
    BY <1>3 DEF Configures, Enrollment!Start, Enrollment!Ensure, Enrollment!Ensured, Enrollment!Enter, Enrollment!LockBusy, Enrollment!Status, Enrollment!Confirm, Enrollment!Check, Enrollment!Rollback, Enrollment!Return,
           Enrollment!Disconnect, Enrollment!Remove
  <2> QED BY <1>1, <2>1 DEF Enrollment!Mine
<1> QED BY <1>1, <1>2, <1>3

LEMMA ConfiguresFiles ==
  ASSUME NEW p \in Procs, Configures(p)
  PROVE  deleting' = deleting /\ resets' = resets /\ (named => named')
<1>1. CASE \E c \in Creds : Enrollment!Start(p, c)
  BY <1>1 DEF Enrollment!Start
<1>4. CASE Enrollment!Ensure(p) \/ Enrollment!Ensured(p)
  BY <1>4 DEF Enrollment!Ensure, Enrollment!Ensured
<1>5. CASE Enrollment!Enter(p) \/ Enrollment!LockBusy(p)
  BY <1>5 DEF Enrollment!Enter, Enrollment!LockBusy
<1>2. CASE Enrollment!Write(p) \/ Enrollment!Status(p) \/ Enrollment!Confirm(p) \/ Enrollment!Check(p)
  BY <1>2 DEF Enrollment!Write, Enrollment!Status, Enrollment!Confirm, Enrollment!Check
<1>3. CASE Enrollment!Rollback(p) \/ Enrollment!Return(p) \/ Enrollment!Disconnect(p) \/ Enrollment!Remove(p)
  BY <1>3 DEF Enrollment!Rollback, Enrollment!Return, Enrollment!Disconnect, Enrollment!Remove
<1> QED BY <1>1, <1>2, <1>3, <1>4, <1>5 DEF Configures

LEMMA RoundsStay ==
  ASSUME Enrollment!EnrollmentAssumption, EInv, EInv', NEW q \in Procs, configures'[q] = configures[q], Rounds(q), Enrollment!Mine(q)' => Enrollment!Mine(q),
         deleting' = deleting, resets' = resets, named => named'
  PROVE  Rounds(q)'
<1>1. configures[q].ensured \in 0..Attempts /\ Attempts \in Nat /\ resets \in Nat
  BY EnrollmentFields DEF EInv, Enrollment!EnrollmentAssumption, EnrollmentFilesOK
<1>2. Enrollment!At(q, "ensured")' <=> Enrollment!At(q, "ensured")
  BY DEF Enrollment!At
<1>3. Lost(q)' = Lost(q) \/ (Lost(q)' = Lost(q) - 1 /\ Enrollment!At(q, "ensured"))
  BY <1>1, <1>2 DEF Lost
<1>4. Lost(q) \in Int /\ Pending' = Pending /\ Pending \in Int
  BY <1>1 DEF Lost, Pending
<1> QED BY <1>1, <1>2, <1>3, <1>4 DEF Rounds

\* A rollback leaves nothing of the process.
LEMMA RollbackClears == ASSUME Enrollment!EnrollmentAssumption, EInv, NEW p \in Procs, Enrollment!Rollback(p) PROVE ~Enrollment!Mine(p)'
<1>1. EnrollmentSound(p) /\ configures[p].pc = "rollback" /\ configures[p].own = configures'[p].own
  BY DEF EInv, Enrollment!Rollback, Enrollment!At, Enrollment!Throws, Enrollment!Becomes, Enrollment!Idle
<1>2. saved' \in {saved, None}
  BY DEF Enrollment!Rollback
<1>3. CASE Enrollment!Mine(p)
  <2>1. configures[p].read = saved
    BY <1>1, <1>3 DEF EnrollmentSound, Enrollment!At
  <2>2. Enrollment!RollsBack(p)
    BY <1>3, <2>1 DEF Enrollment!RollsBack, Enrollment!Mine
  <2> QED BY <2>2 DEF Enrollment!Rollback, Enrollment!Mine
<1>4. CASE ~Enrollment!Mine(p)
  BY <1>1, <1>2, <1>4 DEF Enrollment!Mine
<1> QED BY <1>3, <1>4

\* The process that moves.
LEMMA OwnRounds ==
  ASSUME Enrollment!EnrollmentAssumption, EInv, EInv', RInv, NEW p \in Procs, Configures(p)
  PROVE  Rounds(p)'
<1>1. /\ Rounds(p) /\ Pending <= resets /\ resets \in Nat /\ Pending \in Int
      /\ configures \in [Procs -> ProcType] /\ configures[p].ensured \in 0..Attempts /\ Attempts \in Nat
  BY EnrollmentFields DEF EInv, RInv, EnrollmentFilesOK, Pending, Enrollment!EnrollmentAssumption
<1>2. Pending' = Pending /\ resets' = resets /\ deleting' = deleting
  BY ConfiguresFiles DEF Pending
<1>3. CASE \E c \in Creds : Enrollment!Start(p, c)
  <2>1. configures'[p].pc = "ensure" /\ configures'[p].ensured = 0
    BY <1>1, <1>3 DEF Enrollment!Start, Enrollment!Becomes, Enrollment!Idle
  <2> QED BY <1>1, <1>2, <2>1 DEF Rounds, Lost, Enrollment!At
<1>4. CASE Enrollment!Ensure(p)
  <2>1. /\ configures'[p].pc = "ensured" /\ configures'[p].ensured = configures[p].ensured + 1 /\ configures'[p].own = configures[p].own
        /\ named' /\ saved' = saved /\ configures[p].pc = "ensure"
    BY <1>1, <1>4 DEF Enrollment!Ensure, Enrollment!Becomes, ProcType, Enrollment!At
  <2>2. Lost(p)' = Lost(p) /\ Enrollment!Mine(p)' = Enrollment!Mine(p)
    BY <1>1, <2>1 DEF Lost, Enrollment!Mine, Enrollment!At
  <2> QED BY <1>1, <1>2, <2>1, <2>2 DEF Rounds, Enrollment!At
<1>5. CASE Enrollment!Ensured(p)
  <2>1. CASE named
    <3>1. configures'[p].pc = "enter" /\ configures'[p].ensured = 0
      BY <1>1, <1>5, <2>1 DEF Enrollment!Ensured, Enrollment!Becomes, ProcType
    <3> QED BY <3>1 DEF Rounds, Enrollment!At
  <2>2. CASE ~named /\ configures[p].ensured < Attempts
    <3>1. /\ configures'[p].pc = "ensure" /\ configures'[p].ensured = configures[p].ensured /\ configures'[p].own = configures[p].own
          /\ saved' = saved /\ configures[p].pc = "ensured"
      BY <1>1, <1>5, <2>2 DEF Enrollment!Ensured, Enrollment!Becomes, Enrollment!Goto, ProcType, Enrollment!At
    <3>2. Lost(p)' = Lost(p) /\ Enrollment!Mine(p)' = Enrollment!Mine(p)
      BY <2>2, <3>1 DEF Lost, Enrollment!Mine, Enrollment!At
    <3> QED BY <1>1, <1>2, <3>1, <3>2 DEF Rounds, Enrollment!At
  <2>3. CASE ~named /\ ~(configures[p].ensured < Attempts)
    <3>1. configures'[p].pc = "threw"
      BY <1>1, <1>5, <2>3 DEF Enrollment!Ensured, Enrollment!Becomes, Enrollment!Throws, Enrollment!Idle
    <3> QED BY <3>1 DEF Rounds, Enrollment!At
  <2> QED BY <2>1, <2>2, <2>3
<1>6. CASE Enrollment!Enter(p) \/ Enrollment!Write(p) \/ Enrollment!Status(p)
  <2>1. configures[p].pc \in {"enter", "write", "status"} => configures[p].ensured = 0
    BY <1>1 DEF Rounds
  <2>2. CASE Enrollment!Enter(p)
    <3>1. PICK pc : /\ configures' = [configures EXCEPT ![p] = [configures[p] EXCEPT !.pc = pc]]
                    /\ (pc = "write" /\ configures[p].pc = "enter") \/ pc \in {"check", "remove"}
      BY <2>2 DEF Enrollment!Enter, Enrollment!Goto, Enrollment!Becomes, Enrollment!At
    <3>2. configures'[p].pc = pc /\ configures'[p].ensured = configures[p].ensured
      BY <1>1, <3>1 DEF ProcType
    <3> QED BY <2>1, <3>1, <3>2 DEF Rounds, Enrollment!At
  <2>3. CASE Enrollment!Write(p)
    <3>1. configures'[p].pc = "status" /\ configures'[p].ensured = configures[p].ensured /\ configures[p].pc = "write"
      BY <1>1, <2>3 DEF Enrollment!Write, Enrollment!Becomes, ProcType, Enrollment!At
    <3> QED BY <2>1, <3>1 DEF Rounds, Enrollment!At
  <2>4. CASE Enrollment!Status(p)
    <3>1. configures'[p].pc = "confirm" /\ configures'[p].ensured = configures[p].ensured /\ configures[p].pc = "status"
      BY <1>1, <2>4 DEF Enrollment!Status, Enrollment!Becomes, ProcType, Enrollment!At
    <3> QED BY <2>1, <3>1 DEF Rounds, Enrollment!At
  <2> QED BY <1>6, <2>2, <2>3, <2>4
<1>7. CASE Enrollment!Confirm(p)
  <2>1. configures'[p].pc \in {"saved", "undo"} \/ (configures'[p].pc = "ensure" /\ configures'[p].ensured = 0)
    <3>1. configures[p].ensured = 0
      BY <1>1, <1>7 DEF Enrollment!Confirm, Enrollment!At, Rounds
    <3>2. CASE Enrollment!Confirms(p)
      BY <1>1, <1>7, <3>2 DEF Enrollment!Confirm, Enrollment!Becomes, ProcType
    <3>3. CASE ~Enrollment!Confirms(p) /\ Enrollment!TriesAgain(p)
      BY <1>1, <1>7, <3>1, <3>3 DEF Enrollment!Confirm, Enrollment!Becomes, Enrollment!Goto, ProcType
    <3>4. CASE ~Enrollment!Confirms(p) /\ ~Enrollment!TriesAgain(p)
      BY <1>1, <1>7, <3>4 DEF Enrollment!Confirm, Enrollment!Becomes, Enrollment!Goto, ProcType
    <3> QED BY <3>2, <3>3, <3>4
  <2> QED BY <1>1, <1>2, <2>1 DEF Rounds, Lost, Enrollment!At
<1>8. CASE Enrollment!LockBusy(p) \/ Enrollment!Check(p) \/ Enrollment!Rollback(p) \/ Enrollment!Return(p) \/ Enrollment!Disconnect(p) \/ Enrollment!Remove(p)
  <2>1. configures'[p].pc \in {"threw", "busy", "rollback", "idle", "disconnect"}
    <3>1. CASE Enrollment!LockBusy(p) \/ Enrollment!Rollback(p)
      BY <1>1, <3>1 DEF Enrollment!LockBusy, Enrollment!Rollback, Enrollment!Becomes, Enrollment!Throws, Enrollment!Idle
    <3>2. CASE Enrollment!Check(p) \/ Enrollment!Disconnect(p)
      BY <1>1, <3>2 DEF Enrollment!Check, Enrollment!Disconnect, Enrollment!Becomes, Enrollment!Goto, ProcType
    <3>3. CASE Enrollment!Return(p) \/ Enrollment!Remove(p)
      BY <1>1, <3>3 DEF Enrollment!Return, Enrollment!Remove, Enrollment!Becomes, Enrollment!Idle
    <3> QED BY <1>8, <3>1, <3>2, <3>3
  <2> QED BY <2>1 DEF Rounds, Enrollment!At
<1> QED BY <1>3, <1>4, <1>5, <1>6, <1>7, <1>8 DEF Configures

LEMMA OwnSpared ==
  ASSUME Enrollment!EnrollmentAssumption, EInv, EInv', RInv, NEW p \in Procs, Configures(p), Settles, Enrollment!At(p, "threw")'
  PROVE  ~Enrollment!Mine(p)'
<1>1. /\ Rounds(p) /\ resets \in 0..MaxResets /\ MaxResets \in Nat /\ Pending \in Nat
      /\ configures \in [Procs -> ProcType] /\ configures[p].ensured \in 0..Attempts /\ Attempts \in Nat
  BY EnrollmentFields DEF EInv, RInv, EnrollmentFilesOK, Pending, Enrollment!EnrollmentAssumption
<1>2. CASE Enrollment!Rollback(p)
  BY <1>2, RollbackClears
<1>3. CASE Enrollment!LockBusy(p)
  BY <1>1, <1>3 DEF Enrollment!LockBusy, Enrollment!Becomes, Enrollment!Idle, Enrollment!At
<1>4. CASE ~Enrollment!Rollback(p) /\ ~Enrollment!LockBusy(p)
  <2>1. Enrollment!Ensured(p)
    <3>1. ASSUME NEW c \in Creds, Enrollment!Start(p, c) PROVE FALSE
      BY <1>1, <3>1 DEF Enrollment!Start, Enrollment!Becomes, Enrollment!Idle, Enrollment!At
    <3>5. ASSUME Enrollment!Ensure(p) \/ Enrollment!Write(p) PROVE FALSE
      BY <1>1, <3>5 DEF Enrollment!Ensure, Enrollment!Write, Enrollment!Becomes, ProcType, Enrollment!At
    <3>6. ASSUME Enrollment!Status(p) \/ Enrollment!Check(p) PROVE FALSE
      BY <1>1, <3>6 DEF Enrollment!Status, Enrollment!Check, Enrollment!Becomes, ProcType, Enrollment!At
    <3>2. ASSUME Enrollment!Enter(p) PROVE FALSE
      BY <1>1, <3>2 DEF Enrollment!Enter, Enrollment!Goto, Enrollment!Becomes, ProcType, Enrollment!At
    <3>3. ASSUME Enrollment!Confirm(p) PROVE FALSE
      <4>1. CASE Enrollment!Confirms(p)
        BY <1>1, <3>3, <4>1 DEF Enrollment!Confirm, Enrollment!Becomes, ProcType, Enrollment!At
      <4>2. CASE ~Enrollment!Confirms(p)
        BY <1>1, <3>3, <4>2 DEF Enrollment!Confirm, Enrollment!Becomes, Enrollment!Goto, ProcType, Enrollment!At
      <4> QED BY <4>1, <4>2
    <3>4. ASSUME Enrollment!Return(p) \/ Enrollment!Disconnect(p) \/ Enrollment!Remove(p) PROVE FALSE
      BY <1>1, <3>4 DEF Enrollment!Return, Enrollment!Disconnect, Enrollment!Remove, Enrollment!Becomes, Enrollment!Goto, ProcType, Enrollment!Idle, Enrollment!At
    <3> QED BY <1>4, <3>1, <3>2, <3>3, <3>4, <3>5, <3>6 DEF Configures
  <2>2. ~named /\ ~(configures[p].ensured < Attempts)
    BY <1>1, <2>1 DEF Enrollment!Ensured, Enrollment!Becomes, Enrollment!Goto, ProcType, Enrollment!At
  <2>3. configures[p].pc = "ensured" /\ configures'[p].own = configures[p].own /\ saved' = saved
    BY <1>1, <2>1, <2>2 DEF Enrollment!Ensured, Enrollment!Becomes, Enrollment!Throws, Enrollment!Idle, Enrollment!At
  <2>4. Lost(p) = Attempts
    BY <1>1, <2>2 DEF Lost
  <2>5. ASSUME Enrollment!Mine(p) PROVE FALSE
    <3>1. CASE ByFile
      BY <1>1, <2>3, <2>4, <2>5, <3>1 DEF Settles, Rounds
    <3>2. CASE ~ByFile
      BY <2>2, <2>3, <2>5, <3>2 DEF EInv, Clean, Tidy, Settles
    <3> QED BY <3>1, <3>2
  <2> QED BY <2>3, <2>5 DEF Enrollment!Mine
<1> QED BY <1>2, <1>3, <1>4

LEMMA ConfiguresSpare ==
  ASSUME Enrollment!EnrollmentAssumption, EInv, EInv', RInv, NEW p \in Procs, Configures(p)
  PROVE  RInv'
<1>1. Pending' <= resets'
  BY ConfiguresFiles DEF RInv, Pending
<1>2. ASSUME NEW q \in Procs PROVE Rounds(q)' /\ Spared(q)'
  <2>1. CASE q = p
    BY <2>1, OwnRounds, OwnSpared DEF Spared, Settles
  <2>2. CASE q # p
    <3>1. configures'[q] = configures[q] /\ (Enrollment!Mine(q)' => Enrollment!Mine(q)) /\ Rounds(q) /\ Spared(q)
      BY <2>2, Elsewhere DEF RInv
    <3>2. Rounds(q)'
      BY <3>1, ConfiguresFiles, RoundsStay
    <3>3. Spared(q)'
      BY <3>1 DEF Spared, Settles, Enrollment!At
    <3> QED BY <3>2, <3>3
  <2> QED BY <2>1, <2>2
<1> QED BY <1>1, <1>2 DEF RInv

\* No process moves while a file is persisted or deleted.
LEMMA ResetsSpare ==
  ASSUME Enrollment!EnrollmentAssumption, EInv, EInv', RInv,
         Enrollment!Hook \/ Enrollment!Archive \/ Enrollment!Delete \/ \E file \in deleting : Enrollment!DeleteOne(file)
  PROVE  RInv'
<1>1. configures' = configures /\ saved' \in {saved, None} /\ resets \in Nat
  BY DEF Enrollment!Hook, Enrollment!Archive, Enrollment!Delete, Enrollment!DeleteOne, EInv, EnrollmentFilesOK, Enrollment!EnrollmentAssumption
<1>2. \A q \in Procs : (Enrollment!Mine(q)' => Enrollment!Mine(q)) /\ configures'[q] = configures[q]
  BY <1>1 DEF Enrollment!Mine
<1>3. \A q \in Procs : Spared(q)'
  BY <1>2 DEF RInv, Spared, Settles, Enrollment!At
<1>4. ASSUME NEW q \in Procs
      PROVE  /\ configures[q].ensured \in Nat /\ Rounds(q) /\ configures'[q] = configures[q] /\ (Enrollment!Mine(q)' => Enrollment!Mine(q))
             /\ Lost(q) \in Int /\ (Enrollment!At(q, "ensured")' <=> Enrollment!At(q, "ensured"))
  BY <1>2, EnrollmentFields DEF EInv, RInv, Enrollment!EnrollmentAssumption, Lost, Enrollment!At
<1>5. CASE Enrollment!Hook
  <2>1. Pending' <= resets' /\ deleting' = deleting /\ resets' = resets /\ named'
    BY <1>5 DEF Enrollment!Hook, RInv, Pending
  <2> QED BY <1>2, <1>3, <1>4, <2>1, RoundsStay DEF RInv
<1>6. CASE Enrollment!Archive
  <2>1. deleting = {} /\ deleting' = {} /\ resets' = resets + 1 /\ saved' = None /\ ~named'
    BY <1>6 DEF Enrollment!Archive, Enrollment!Resets
  <2>2. Pending = 0 /\ Pending' = 0 /\ Pending' <= resets'
    BY <1>1, <2>1 DEF Pending
  <2>3. ASSUME NEW q \in Procs PROVE Rounds(q)'
    <3>1. Lost(q)' <= Lost(q) + 1 /\ ~Enrollment!Mine(q)' /\ Lost(q)' \in Int
      BY <1>4, <2>1 DEF Lost, Enrollment!Mine
    <3> QED BY <1>1, <1>4, <2>1, <2>2, <3>1 DEF Rounds
  <2> QED BY <1>3, <2>2, <2>3 DEF RInv
<1>7. CASE Enrollment!Delete
  <2>1. /\ deleting = {} /\ deleting' = {"identity", "config", "lock"} /\ resets' = resets + 1 /\ saved' = saved
        /\ named' = named
    BY <1>7 DEF Enrollment!Delete, Enrollment!Resets
  <2>2. Pending = 0 /\ Pending' = 1 /\ Pending' <= resets'
    BY <1>1, <2>1 DEF Pending
  <2>3. ASSUME NEW q \in Procs PROVE Rounds(q)'
    <3>1. Lost(q)' = Lost(q) /\ (Enrollment!Mine(q)' <=> Enrollment!Mine(q))
      BY <1>4, <2>1 DEF Lost, Enrollment!Mine
    <3> QED BY <1>1, <1>4, <2>1, <2>2, <3>1 DEF Rounds
  <2> QED BY <1>3, <2>2, <2>3 DEF RInv
<1>8. CASE \E file \in deleting : Enrollment!DeleteOne(file)
  <2>1. PICK file \in deleting : Enrollment!DeleteOne(file)
    BY <1>8
  <2>2. CASE file = "identity"
    <3>1. /\ deleting' = deleting \ {"identity"} /\ ~named' /\ saved' = saved /\ resets' = resets
          /\ "identity" \in deleting
      BY <2>1, <2>2 DEF Enrollment!DeleteOne
    <3>2. Pending = 1 /\ Pending' = 0
      BY <3>1 DEF Pending
    <3>3. ASSUME NEW q \in Procs PROVE Rounds(q)'
      <4>1. /\ Lost(q)' \in Int /\ (Enrollment!Mine(q)' <=> Enrollment!Mine(q))
            /\ Lost(q)' = Lost(q) \/ (Lost(q)' = Lost(q) + 1 /\ Enrollment!At(q, "ensured"))
        BY <1>4, <3>1 DEF Lost, Enrollment!Mine
      <4> QED BY <1>1, <1>4, <3>1, <3>2, <4>1 DEF Rounds, Enrollment!At
    <3> QED BY <1>1, <1>3, <3>1, <3>2, <3>3 DEF RInv
  <2>3. CASE file # "identity"
    <3>1. /\ deleting' = deleting \ {file} /\ named' = named /\ resets' = resets
          /\ file = "config" => saved' = None
      BY <2>1, <2>3, <1>1 DEF Enrollment!DeleteOne, EInv, EnrollmentFilesOK
    <3>2. Pending' = Pending /\ ("identity" \in deleting' <=> "identity" \in deleting)
      BY <2>3, <3>1 DEF Pending
    <3>3. ASSUME NEW q \in Procs PROVE Rounds(q)'
      <4>1. Lost(q)' = Lost(q) /\ (file = "config" => ~Enrollment!Mine(q)')
        BY <1>4, <3>1 DEF Lost, Enrollment!Mine
      <4>2. Enrollment!Mine(q)' => ("config" \in deleting' <=> "config" \in deleting)
        BY <3>1, <4>1
      <4> QED BY <1>1, <1>4, <3>1, <3>2, <4>1, <4>2 DEF Rounds
    <3> QED BY <1>3, <3>1, <3>2, <3>3 DEF RInv
  <2> QED BY <2>2, <2>3
<1> QED BY <1>5, <1>6, <1>7, <1>8

LEMMA RoundsInvariant == ASSUME Enrollment!EnrollmentAssumption PROVE Enrollment!Spec => []RInv
<1>1. ASSUME Enrollment!Init PROVE RInv
  <2>1. Pending = 0 /\ resets = 0 /\ \A p \in Procs : configures[p] = Enrollment!Idle
    BY <1>1 DEF Enrollment!Init, Pending
  <2> QED BY <2>1 DEF RInv, Rounds, Spared, Enrollment!At, Enrollment!Idle
<1>2. ASSUME EInv, EInv', RInv, [Enrollment!Next]_Enrollment!vars PROVE RInv'
  <2>1. CASE UNCHANGED Enrollment!vars
    <3>1. UNCHANGED <<named, saved, deleting, configures, resets>>
      BY <2>1 DEF Enrollment!vars
    <3> QED BY <1>2, <3>1 DEF RInv, Rounds, Spared, Pending, Lost, Enrollment!Mine, Enrollment!At
  <2>2. CASE \E p \in Procs : Configures(p)
    BY <1>2, <2>2, ConfiguresSpare
  <2>3. CASE Enrollment!Hook \/ Enrollment!Archive \/ Enrollment!Delete \/ \E file \in deleting : Enrollment!DeleteOne(file)
    BY <1>2, <2>3, ResetsSpare
  <2> QED BY <1>2, <2>1, <2>2, <2>3 DEF Enrollment!Next, Configures
<1>3. EInv /\ EInv' /\ RInv /\ [Enrollment!Next]_Enrollment!vars => RInv'
  BY <1>2
<1> QED BY <1>1, <1>3, EnrollmentInvariance, PTL DEF Enrollment!Spec

-----------------------------------------------------------------------------
(* The theorems *)

\* Identity, enrollment, lock and every configure keep their types, the attempts of
\* configurePortal and ensurePortalIdentity their bound.
THEOREM EnrollmentTypeCorrect == ASSUME Enrollment!EnrollmentAssumption PROVE Enrollment!Spec => []Enrollment!TypeOK
<1>1. EInv => Enrollment!TypeOK
  BY DEF EInv, EnrollmentFilesOK, ProcType, EnrollmentPcs, Enrollment!TypeOK
<1> QED BY <1>1, EnrollmentInvariance, PTL

\* Any number of configures and disconnects, a lock that stays busy and resets of
\* both kinds: a configure that reports success names the enrollment it wrote
\* itself, with its own credential (configurePortal).
THEOREM OwnIsReported == ASSUME Enrollment!EnrollmentAssumption PROVE Enrollment!Spec => []Enrollment!ReportsOwn
<1>1. EInv => Enrollment!ReportsOwn
  BY DEF EInv, EnrollmentSound, Enrollment!ReportsOwn
<1> QED BY <1>1, EnrollmentInvariance, PTL

\* A configure that ends with IDLEPROOF_PORTAL_IDENTITY_UNSTABLE leaves no enrollment
\* that it wrote, however often resets interrupted it, by moving the directory or, for
\* as many attempts as the code makes, by deleting its files, and whatever others
\* gave up at a busy lock or wrote meanwhile (the rollback of configurePortal).
THEOREM ThrowsLeaveNothing ==
  ASSUME Enrollment!EnrollmentAssumption, ByFile => Attempts > 2 \/ MaxResets < Attempts
  PROVE  Enrollment!Spec => []Enrollment!ThrowLeavesNothing
<1>1. RInv => Enrollment!ThrowLeavesNothing
  BY DEF RInv, Spared, Settles, Enrollment!ThrowLeavesNothing
<1> QED BY <1>1, RoundsInvariant, PTL

\* Where resets move the directory, and the memory lock is never busy for 3 s, an
\* enrollment has an identity whenever nobody is configuring: it never
\* outlives the one it was reported with (portalStatus, configurePortal, reset).
THEOREM EnrollmentHasIdentity ==
  ASSUME Enrollment!EnrollmentAssumption, ~ByFile, ~Busy
  PROVE  Enrollment!Spec => []Enrollment!EnrolledHasIdentity
<1>1. EInv => Enrollment!EnrolledHasIdentity
  <2> SUFFICES ASSUME EInv, Enrollment!Quiet, saved # None, ~named PROVE FALSE
    BY DEF Enrollment!EnrolledHasIdentity
  <2>1. PICK p \in Procs : Unfinished(p)
    BY DEF EInv, Tidy, Watched, Attended
  <2>2. configures[p].pc \in {"idle", "saved", "threw", "busy"}
    BY DEF Enrollment!Quiet
  <2> QED BY <2>1, <2>2 DEF Unfinished, Configuring
<1> QED BY <1>1, EnrollmentInvariance, PTL

-----------------------------------------------------------------------------
(* Identity, acceptances and attestation, for any hooks, people and tools: no *)
(* attestation names anyone who did not accept.  They write their files       *)
(* without a lock: what else holds is for processes that run one after        *)
(* another, or for acceptances that are not stored at the same moment.        *)

\* An instance has its own copy of the library's operators.
LEMMA AttestLibrary ==
  /\ \A S : Attest!Cardinality(S) = Cardinality(S)
  /\ \A s, I : Attest!Sub(s, I) = Sub(s, I)
<1>1. \A S : Attest!Cardinality(S) = Cardinality(S)
  BY Zenon DEF Attest!Cardinality, Cardinality
<1>2. \A s, I : Attest!Sub(s, I) = Sub(s, I)
  BY Zenon DEF Attest!Sub, Sub, Attest!Rank, Rank, Attest!Cardinality, Cardinality
<1> QED BY <1>1, <1>2
-----------------------------------------------------------------------------
(* Types *)

Accepting == [digest : Digests, by : People, sig : Nat, keyid : Nat]
Works == [digest : Digests \cup {NoDigest}, subject : Digests \cup {NoDigest}, about : Digests \cup {NoDigest},
          accepted : SUBSET People, keyid : Nat, sig : Nat, loaded : Seq(Accepting), accepting : BOOLEAN,
          bundling : BOOLEAN]
Steps == {"idle", "receipt", "subject", "report", "ensure", "key", "public", "identity", "sign",
          "load", "open", "save", "accepted", "seal", "bundle"}
AttestStored == store # Torn
Short(s) == Len(s) <= Limit

WorkOf(p) ==
  /\ local[p].accepting => p \in People /\ local[p].digest \in Digests
  /\ phase[p] \in {"load", "open", "save"} => local[p].accepting
  /\ phase[p] \in {"accepted", "seal", "bundle", "receipt", "subject", "report"} => ~local[p].accepting
  /\ phase[p] \in {"receipt", "subject", "report"} => local[p].accepted = {}
  /\ phase[p] \in {"key", "public", "identity"} => local[p].keyid \in 1 .. pairs
  /\ phase[p] = "identity" => public # 0
  /\ phase[p] = "bundle" => local[p].bundling
  /\ Short(local[p].loaded)
  /\ phase[p] = "idle" => local[p] = Attest!Fresh
  /\ local[p].accepting => ~local[p].bundling

AttestTyped ==
  /\ latest \in Digests \cup {NoDigest} /\ receipt \in Digests \cup {NoDigest}
  /\ pairs \in Nat /\ key \in 0 .. pairs /\ public \in 0 .. pairs /\ identity \in 0 .. pairs
  /\ AttestStored => store \in Seq(Accepting) /\ Short(store)
  /\ consent \in SUBSET (People \X Digests) /\ IsFiniteSet(consent)
  /\ phase \in [Attest!Procs -> Steps] /\ local \in [Attest!Procs -> Works] /\ crashes \in Nat
  /\ identity # 0 => public # 0
  /\ \A p \in Attest!Procs : WorkOf(p)

-----------------------------------------------------------------------------
(* Who consented *)

AllConsent(s) == \A i \in DOMAIN s : <<s[i].by, s[i].digest>> \in consent
Consents ==
  /\ AttestStored => AllConsent(store)
  /\ \A p \in Attest!Procs : /\ AllConsent(local[p].loaded)
                             /\ \A q \in local[p].accepted : <<q, local[p].about>> \in consent
  /\ Attest!OnlyConsented

-----------------------------------------------------------------------------
(* What is kept, where no two processes write the acceptances at once *)

Storing(p) == phase[p] \in {"open", "save"}
OneStoring == \A p, q \in Attest!Procs : Storing(p) /\ Storing(q) => p = q

Unlike(s) == \A i, k \in DOMAIN s : Attest!Renews(s[i], s[k]) => i = k
Least(m, n) == IF m < n THEN m ELSE n
Complete(s) == /\ AllConsent(s) /\ Unlike(s) /\ Len(s) = Least(Limit, Cardinality(consent))
Keeping ==
  /\ AttestStored => Complete(store)
  /\ \A p \in Attest!Procs : /\ phase[p] = "open" => Complete(local[p].loaded) /\ local[p].loaded = store
                             /\ phase[p] = "save" => Complete(local[p].loaded)

-----------------------------------------------------------------------------
(* One process at a time *)

OneBusy == \A p, q \in Attest!Procs : phase[p] # "idle" /\ phase[q] # "idle" => p = q

SignedBy(s, k) == \A i \in DOMAIN s : s[i].sig = k /\ s[i].keyid = k
HasIdentity(p) == local[p].keyid = identity /\ identity # 0
KeyFiles ==
  /\ identity # 0 => key = identity
  /\ AttestStored => SignedBy(store, identity) /\ (store # <<>> => identity # 0)
  /\ attestation # NoFile => attestation.sig = attestation.keyid
KeyWork(p) ==
  /\ phase[p] \in {"key", "public", "identity"} => identity = 0
  /\ phase[p] \in {"public", "identity"} => key = local[p].keyid
  /\ phase[p] \in {"accepted", "sign", "load", "open", "save", "seal"} => HasIdentity(p)
  /\ phase[p] \in {"load", "open", "save", "seal"} => local[p].sig = identity
  /\ SignedBy(local[p].loaded, identity) /\ (local[p].loaded # <<>> => identity # 0)
Keys == KeyFiles /\ \A p \in Attest!Procs : KeyWork(p)

AttestChanged(p) == phase[p] \in {"ensure", "key", "public", "identity", "accepted", "sign", "seal", "bundle"} /\ ~local[p].accepting
ChangeWork(p) ==
  /\ phase[p] \notin {"idle", "receipt"} /\ local[p].bundling => local[p].digest = receipt
  /\ phase[p] = "report" \/ AttestChanged(p) => local[p].subject = receipt /\ receipt # NoDigest
  /\ AttestChanged(p) => local[p].about = receipt
AttestChanges == Attest!OneChange /\ \A p \in Attest!Procs : ChangeWork(p)

-----------------------------------------------------------------------------
(* One process at a time, and none that dies *)

Consenting == {p \in People : <<p, receipt>> \in consent}
Current == attestation.subject = receipt /\ attestation.accepted = Consenting
Reports(p) == phase[p] \in {"receipt", "subject", "report"} \/ (AttestChanged(p) /\ phase[p] # "bundle")
UpFiles(p) ==
  /\ ~AttestStored => phase[p] = "save"
  /\ receipt # NoDigest => latest # NoDigest
  /\ attestation # NoFile => receipt # NoDigest /\ (Current \/ Reports(p))
UpWork(p) ==
  /\ phase[p] = "receipt" => local[p].digest = latest
  /\ phase[p] \in {"sign", "seal"} /\ ~local[p].accepting => local[p].accepted = Consenting
UpToDate == \E p \in Attest!Procs : UpFiles(p) /\ \A q \in Attest!Procs : UpWork(q)
Few == Cardinality(consent) <= Limit

-----------------------------------------------------------------------------
(* Steps *)

\* One case for each action.
LEMMA AttestStepCases ==
  ASSUME [Attest!Next]_Attest!vars, NEW P,
         UNCHANGED Attest!vars => P,
         \A p \in Attest!Procs : Attest!Accept(p) \/ Attest!Attest(p) \/ Attest!Evidence(p) => P,
         \A p \in Attest!Procs, d \in Digests : Attest!Stop(p, d) => P,
         \A p \in Attest!Procs : Attest!WriteReceipt(p) \/ Attest!Subject(p) \/ Attest!Report(p) => P,
         \A p \in Attest!Procs : Attest!Found(p) \/ Attest!Generate(p) => P,
         \A p \in Attest!Procs : Attest!WriteKey(p) \/ Attest!WritePublic(p) \/ Attest!WriteIdentity(p) => P,
         \A p \in Attest!Procs : Attest!Sign(p) \/ Attest!Load(p) \/ Attest!Truncate(p) \/ Attest!Save(p) => P,
         \A p \in Attest!Procs : Attest!Accepted(p) \/ Attest!Seal(p) \/ Attest!Bundle(p) \/ Attest!Crash(p) => P
  PROVE  P
<1>1. CASE Attest!Next
  <2>1. PICK p \in Attest!Procs : Attest!Step(p)
    BY <1>1 DEF Attest!Next
  <2> QED BY <2>1 DEF Attest!Step
<1> QED BY <1>1

\* Process p goes to `at` with the work w; the others stay.
Moved(p, place, w) ==
  /\ phase' \in [Attest!Procs -> Steps] /\ local' \in [Attest!Procs -> Works]
  /\ phase'[p] = place /\ local'[p] = w
  /\ \A q \in Attest!Procs : q # p => phase'[q] = phase[q] /\ local'[q] = local[q]
Stays(p, place) == Moved(p, place, local[p])
AttestFields(p, place, digest, subject, about, accepted, keyid, sig, loaded, accepting, bundling) ==
  /\ Moved(p, place, local'[p])
  /\ local'[p].digest = digest /\ local'[p].subject = subject /\ local'[p].about = about
  /\ local'[p].accepted = accepted /\ local'[p].keyid = keyid /\ local'[p].sig = sig
  /\ local'[p].loaded = loaded /\ local'[p].accepting = accepting /\ local'[p].bundling = bundling

LEMMA GoMoves ==
  ASSUME AttestTyped, NEW p \in Attest!Procs, NEW place \in Steps, NEW w \in Works, Attest!Go(p, place, w)
  PROVE  Moved(p, place, w)
<1>1. phase' = [phase EXCEPT ![p] = place] /\ phase \in [Attest!Procs -> Steps]
  BY DEF Attest!Go, AttestTyped
<1>2. local' = [local EXCEPT ![p] = w] /\ local \in [Attest!Procs -> Works]
  BY DEF Attest!Go, AttestTyped
<1> HIDE DEF Steps, Works
<1>3. phase' \in [Attest!Procs -> Steps] /\ local' \in [Attest!Procs -> Works]
  BY <1>1, <1>2
<1> QED BY <1>1, <1>2, <1>3 DEF Moved

LEMMA FreshWork == Attest!AttestationAssumption => Attest!Fresh \in Works
  BY DEF Attest!Fresh, Works

LEMMA StopMoves ==
  ASSUME Attest!AttestationAssumption, AttestTyped, NEW p \in Attest!Procs, NEW d \in Digests, Attest!Stop(p, d)
  PROVE  AttestFields(p, "receipt", d, NoDigest, NoDigest, {}, 0, 0, <<>>, FALSE, FALSE)
<1> DEFINE w == [Attest!Fresh EXCEPT !.digest = d]
<1>1. local[p] \in Works /\ receipt \in Digests \cup {NoDigest} /\ latest \in Digests \cup {NoDigest}
      /\ {key, identity, pairs} \subseteq Nat
  BY DEF AttestTyped, Attest!Stop
<1>2. w \in Works /\ "receipt" \in Steps
  BY <1>1, FreshWork DEF Works, Steps
<1>3. Attest!Go(p, "receipt", w)
  BY DEF Attest!Stop
<1>4. Moved(p, "receipt", w)
  BY <1>2, <1>3, GoMoves
<1> QED BY <1>1, <1>4 DEF Moved, AttestFields, Works, Attest!Fresh

LEMMA EvidenceMoves ==
  ASSUME Attest!AttestationAssumption, AttestTyped, NEW p \in Attest!Procs, Attest!Evidence(p)
  PROVE  AttestFields(p, "receipt", latest, NoDigest, NoDigest, {}, 0, 0, <<>>, FALSE, TRUE)
<1> DEFINE w == [Attest!Fresh EXCEPT !.digest = latest, !.bundling = TRUE]
<1>1. local[p] \in Works /\ receipt \in Digests \cup {NoDigest} /\ latest \in Digests \cup {NoDigest}
      /\ {key, identity, pairs} \subseteq Nat
  BY DEF AttestTyped, Attest!Evidence
<1>2. w \in Works /\ "receipt" \in Steps
  BY <1>1, FreshWork DEF Works, Steps
<1>3. Attest!Go(p, "receipt", w)
  BY DEF Attest!Evidence
<1>4. Moved(p, "receipt", w)
  BY <1>2, <1>3, GoMoves
<1> QED BY <1>1, <1>4 DEF Moved, AttestFields, Works, Attest!Fresh

LEMMA AcceptMoves ==
  ASSUME Attest!AttestationAssumption, AttestTyped, NEW p \in Attest!Procs, Attest!Accept(p)
  PROVE  AttestFields(p, "ensure", receipt, NoDigest, NoDigest, {}, 0, 0, <<>>, TRUE, FALSE)
<1> DEFINE w == [Attest!Fresh EXCEPT !.digest = receipt, !.accepting = TRUE]
<1>1. local[p] \in Works /\ receipt \in Digests \cup {NoDigest} /\ latest \in Digests \cup {NoDigest}
      /\ {key, identity, pairs} \subseteq Nat
  BY DEF AttestTyped, Attest!Accept
<1>2. w \in Works /\ "ensure" \in Steps
  BY <1>1, FreshWork DEF Works, Steps
<1>3. Attest!Go(p, "ensure", w)
  BY DEF Attest!Accept
<1>4. Moved(p, "ensure", w)
  BY <1>2, <1>3, GoMoves
<1> QED BY <1>1, <1>4 DEF Moved, AttestFields, Works, Attest!Fresh

LEMMA ReportMoves ==
  ASSUME Attest!AttestationAssumption, AttestTyped, NEW p \in Attest!Procs, Attest!Report(p)
  PROVE  AttestFields(p, "ensure", local[p].digest, local[p].subject, receipt, local[p].accepted,
                  local[p].keyid, local[p].sig, local[p].loaded, local[p].accepting, local[p].bundling)
<1> DEFINE w == [local[p] EXCEPT !.about = receipt]
<1>1. local[p] \in Works /\ receipt \in Digests \cup {NoDigest} /\ latest \in Digests \cup {NoDigest}
      /\ {key, identity, pairs} \subseteq Nat
  BY DEF AttestTyped, Attest!Report, Attest!ReportOn
<1>2. w \in Works /\ "ensure" \in Steps
  BY <1>1 DEF Works, Steps
<1>3. Attest!Go(p, "ensure", w)
  BY DEF Attest!Report, Attest!ReportOn
<1>4. Moved(p, "ensure", w)
  BY <1>2, <1>3, GoMoves
<1> QED BY <1>1, <1>4 DEF Moved, AttestFields, Works

LEMMA FoundMoves ==
  ASSUME Attest!AttestationAssumption, AttestTyped, NEW p \in Attest!Procs, Attest!Found(p)
  PROVE  AttestFields(p, Attest!AfterEnsure(p), local[p].digest, local[p].subject, local[p].about, local[p].accepted,
                  identity, local[p].sig, local[p].loaded, local[p].accepting, local[p].bundling)
<1> DEFINE w == [local[p] EXCEPT !.keyid = identity]
<1>1. local[p] \in Works /\ receipt \in Digests \cup {NoDigest} /\ latest \in Digests \cup {NoDigest}
      /\ {key, identity, pairs} \subseteq Nat
  BY DEF AttestTyped, Attest!Found
<1>2. w \in Works /\ Attest!AfterEnsure(p) \in Steps
  BY <1>1 DEF Works, Steps, Attest!AfterEnsure
<1>3. Attest!Go(p, Attest!AfterEnsure(p), w)
  BY DEF Attest!Found
<1>4. Moved(p, Attest!AfterEnsure(p), w)
  BY <1>2, <1>3, GoMoves
<1> QED BY <1>1, <1>4 DEF Moved, AttestFields, Works

LEMMA GenerateMoves ==
  ASSUME Attest!AttestationAssumption, AttestTyped, NEW p \in Attest!Procs, Attest!Generate(p)
  PROVE  AttestFields(p, "key", local[p].digest, local[p].subject, local[p].about, local[p].accepted,
                  pairs + 1, local[p].sig, local[p].loaded, local[p].accepting, local[p].bundling)
<1> DEFINE w == [local[p] EXCEPT !.keyid = pairs + 1]
<1>1. local[p] \in Works /\ receipt \in Digests \cup {NoDigest} /\ latest \in Digests \cup {NoDigest}
      /\ {key, identity, pairs} \subseteq Nat
  BY DEF AttestTyped, Attest!Generate
<1>2. w \in Works /\ "key" \in Steps
  BY <1>1 DEF Works, Steps
<1>3. Attest!Go(p, "key", w)
  BY DEF Attest!Generate
<1>4. Moved(p, "key", w)
  BY <1>2, <1>3, GoMoves
<1> QED BY <1>1, <1>4 DEF Moved, AttestFields, Works

LEMMA SignMoves ==
  ASSUME Attest!AttestationAssumption, AttestTyped, NEW p \in Attest!Procs, Attest!Sign(p)
  PROVE  AttestFields(p, (IF local[p].accepting THEN "load" ELSE "seal"), local[p].digest, local[p].subject, local[p].about, local[p].accepted,
                  local[p].keyid, key, local[p].loaded, local[p].accepting, local[p].bundling)
<1> DEFINE w == [local[p] EXCEPT !.sig = key]
<1>1. local[p] \in Works /\ receipt \in Digests \cup {NoDigest} /\ latest \in Digests \cup {NoDigest}
      /\ {key, identity, pairs} \subseteq Nat
  BY DEF AttestTyped, Attest!Sign
<1>2. w \in Works /\ (IF local[p].accepting THEN "load" ELSE "seal") \in Steps
  BY <1>1 DEF Works, Steps
<1>3. Attest!Go(p, (IF local[p].accepting THEN "load" ELSE "seal"), w)
  BY DEF Attest!Sign
<1>4. Moved(p, (IF local[p].accepting THEN "load" ELSE "seal"), w)
  BY <1>2, <1>3, GoMoves
<1> QED BY <1>1, <1>4 DEF Moved, AttestFields, Works

LEMMA SubjectMoves ==
  ASSUME Attest!AttestationAssumption, AttestTyped, NEW p \in Attest!Procs, Attest!Subject(p)
  PROVE  \/ receipt = NoDigest /\ Moved(p, "idle", Attest!Fresh)
         \/ /\ receipt # NoDigest
            /\ AttestFields(p, "report", local[p].digest, receipt, local[p].about, local[p].accepted,
                            local[p].keyid, local[p].sig, local[p].loaded, local[p].accepting, local[p].bundling)
<1> DEFINE w == [local[p] EXCEPT !.subject = receipt]
<1>1. local[p] \in Works /\ receipt \in Digests \cup {NoDigest}
  BY DEF AttestTyped
<1>2. CASE receipt = NoDigest
  <2>1. Attest!Go(p, "idle", Attest!Fresh) /\ "idle" \in Steps
    BY <1>2 DEF Attest!Subject, Steps
  <2> QED BY <1>2, <2>1, FreshWork, GoMoves
<1>3. CASE receipt # NoDigest
  <2>1. w \in Works /\ "report" \in Steps
    BY <1>1 DEF Works, Steps
  <2>2. Attest!Go(p, "report", w)
    BY <1>3 DEF Attest!Subject
  <2>3. Moved(p, "report", w)
    BY <2>1, <2>2, GoMoves
  <2> QED BY <1>1, <1>3, <2>3 DEF Moved, AttestFields, Works
<1> QED BY <1>2, <1>3

LEMMA LoadMoves ==
  ASSUME Attest!AttestationAssumption, AttestTyped, NEW p \in Attest!Procs, Attest!Load(p)
  PROVE  \/ ~AttestStored /\ Moved(p, "idle", Attest!Fresh)
         \/ /\ AttestStored
            /\ AttestFields(p, "open", local[p].digest, local[p].subject, local[p].about, local[p].accepted,
                            local[p].keyid, local[p].sig, store, local[p].accepting, local[p].bundling)
<1> DEFINE w == [local[p] EXCEPT !.loaded = store]
<1>1. local[p] \in Works /\ (AttestStored => store \in Seq(Accepting))
  BY DEF AttestTyped
<1>2. CASE ~AttestStored
  <2>1. Attest!Go(p, "idle", Attest!Fresh) /\ "idle" \in Steps
    BY <1>2 DEF Attest!Load, Steps, AttestStored
  <2> QED BY <1>2, <2>1, FreshWork, GoMoves
<1>3. CASE AttestStored
  <2>1. w \in Works /\ "open" \in Steps
    BY <1>1, <1>3 DEF Works, Steps
  <2>2. Attest!Go(p, "open", w)
    BY <1>3 DEF Attest!Load, AttestStored
  <2>3. Moved(p, "open", w)
    BY <2>1, <2>2, GoMoves
  <2> QED BY <1>1, <1>3, <2>3 DEF Moved, AttestFields, Works
<1> QED BY <1>2, <1>3

\* Who signed an acceptance is a person.
LEMMA CountedPeople ==
  ASSUME NEW items \in Seq(Accepting), NEW d, NEW k
  PROVE  /\ Attest!Counted(items, d, k) \in SUBSET People
         /\ \A q : q \in Attest!Counted(items, d, k) <=>
                \E i \in DOMAIN items : items[i].by = q /\ items[i].digest = d /\ items[i].sig = k
<1>1. \A i \in DOMAIN items : items[i] \in Accepting
  OBVIOUS
<1> QED BY <1>1 DEF Attest!Counted, Attest!ToSet, Accepting

LEMMA AcceptedMoves ==
  ASSUME Attest!AttestationAssumption, AttestTyped, NEW p \in Attest!Procs, Attest!Accepted(p)
  PROVE  \/ ~AttestStored /\ Moved(p, "idle", Attest!Fresh)
         \/ /\ AttestStored
            /\ AttestFields(p, "sign", local[p].digest, local[p].subject, local[p].about,
                            Attest!Counted(store, local[p].about, local[p].keyid), local[p].keyid, local[p].sig,
                            local[p].loaded, local[p].accepting, local[p].bundling)
<1> DEFINE c == Attest!Counted(store, local[p].about, local[p].keyid)
           w == [local[p] EXCEPT !.accepted = c]
<1>1. local[p] \in Works /\ (AttestStored => store \in Seq(Accepting))
  BY DEF AttestTyped
<1>2. CASE ~AttestStored
  <2>1. Attest!Go(p, "idle", Attest!Fresh) /\ "idle" \in Steps
    BY <1>2 DEF Attest!Accepted, Steps, AttestStored
  <2> QED BY <1>2, <2>1, FreshWork, GoMoves
<1>3. CASE AttestStored
  <2>1. c \in SUBSET People
    BY <1>1, <1>3, CountedPeople
  <2>2. Attest!Go(p, "sign", w)
    BY <1>3 DEF Attest!Accepted, AttestStored
  <2> HIDE DEF c
  <2>3. w \in Works /\ "sign" \in Steps
    BY <1>1, <2>1 DEF Works, Steps
  <2>4. Moved(p, "sign", w)
    BY <2>2, <2>3, GoMoves
  <2>5. AttestFields(p, "sign", local[p].digest, local[p].subject, local[p].about, c, local[p].keyid,
                     local[p].sig, local[p].loaded, local[p].accepting, local[p].bundling)
    BY <1>1, <2>4 DEF Moved, AttestFields, Works
  <2> QED BY <1>3, <2>5 DEF c
<1> QED BY <1>2, <1>3

\* The other steps keep what the process has read, or end its work.
LEMMA PlainMoves ==
  ASSUME Attest!AttestationAssumption, AttestTyped, NEW p \in Attest!Procs
  PROVE  /\ Attest!Attest(p) => Moved(p, "subject", Attest!Fresh)
         /\ Attest!WriteReceipt(p) => Stays(p, "subject")
         /\ Attest!WriteKey(p) => Stays(p, "public")
         /\ Attest!WritePublic(p) => Stays(p, "identity")
         /\ Attest!WriteIdentity(p) => Stays(p, Attest!AfterEnsure(p))
         /\ Attest!Truncate(p) => Stays(p, "save")
         /\ Attest!Save(p) => Moved(p, "subject", Attest!Fresh)
         /\ Attest!Seal(p) => IF local[p].bundling THEN Stays(p, "bundle") ELSE Moved(p, "idle", Attest!Fresh)
         /\ Attest!Bundle(p) => Moved(p, "idle", Attest!Fresh)
         /\ Attest!Crash(p) => Moved(p, "idle", Attest!Fresh)
<1>1. local[p] \in Works /\ Attest!Fresh \in Works
  BY FreshWork DEF AttestTyped
<1>2. \A place \in Steps : /\ Attest!Go(p, place, Attest!Fresh) => Moved(p, place, Attest!Fresh)
                           /\ Attest!Go(p, place, local[p]) => Stays(p, place)
  BY <1>1, GoMoves DEF Stays
<1>3. {"subject", "public", "identity", "save", "bundle", "idle", Attest!AfterEnsure(p)} \subseteq Steps
  BY DEF Steps, Attest!AfterEnsure
<1>4. Attest!WriteKey(p) => Stays(p, "public")
  BY <1>2, <1>3 DEF Attest!WriteKey
<1>5. /\ Attest!Attest(p) => Moved(p, "subject", Attest!Fresh)
      /\ Attest!Save(p) => Moved(p, "subject", Attest!Fresh)
      /\ Attest!Bundle(p) => Moved(p, "idle", Attest!Fresh)
      /\ Attest!Crash(p) => Moved(p, "idle", Attest!Fresh)
  BY <1>2, <1>3 DEF Attest!Attest, Attest!Save, Attest!Bundle, Attest!Crash
<1>6. /\ Attest!WriteReceipt(p) => Stays(p, "subject")
      /\ Attest!WritePublic(p) => Stays(p, "identity")
      /\ Attest!WriteIdentity(p) => Stays(p, Attest!AfterEnsure(p))
      /\ Attest!Truncate(p) => Stays(p, "save")
  BY <1>2, <1>3 DEF Attest!WriteReceipt, Attest!WritePublic, Attest!WriteIdentity, Attest!Truncate
<1>7. Attest!Seal(p) => IF local[p].bundling THEN Stays(p, "bundle") ELSE Moved(p, "idle", Attest!Fresh)
  BY <1>2, <1>3 DEF Attest!Seal
<1> QED BY <1>4, <1>5, <1>6, <1>7

-----------------------------------------------------------------------------
(* A renewed list of acceptances *)

\* The end of a list.
LEMMA TailOf ==
  ASSUME NEW S, NEW q \in Seq(S), NEW n \in Nat \ {0}
  PROVE  LET t == SubSeq(q, IF Len(q) > n THEN Len(q) - n + 1 ELSE 1, Len(q))
         IN  /\ t \in Seq(S) /\ Len(t) = (IF Len(q) > n THEN n ELSE Len(q))
             /\ \A k \in 1 .. Len(t) : k + (Len(q) - Len(t)) \in 1 .. Len(q) /\ t[k] = q[k + (Len(q) - Len(t))]
<1> DEFINE from == IF Len(q) > n THEN Len(q) - n + 1 ELSE 1
           t == SubSeq(q, from, Len(q))
<1>1. Len(q) \in Nat /\ DOMAIN q = 1 .. Len(q)
  OBVIOUS
<1>2. from \in Nat /\ from >= 1 /\ from <= Len(q) + 1
  BY <1>1
<1>3. /\ t \in Seq(S) /\ Len(t) = Len(q) - from + 1
      /\ \A k \in 1 .. Len(q) - from + 1 : t[k] = q[from + k - 1]
  <2> HIDE DEF from
  <2>1. t \in Seq(S)
    BY <1>1, <1>2
  <2>2. Len(t) = Len(q) - from + 1
    BY <1>1, <1>2
  <2>3. \A k \in 1 .. Len(q) - from + 1 : t[k] = q[from + k - 1]
    BY <1>1, <1>2
  <2> QED BY <2>1, <2>2, <2>3
<1> HIDE DEF t
<1>4. Len(t) = IF Len(q) > n THEN n ELSE Len(q)
  BY <1>1, <1>3
<1>5. from - 1 = Len(q) - Len(t)
  BY <1>1, <1>3
<1> HIDE DEF from
<1>6. ASSUME NEW k \in 1 .. Len(t)
      PROVE  k + (Len(q) - Len(t)) \in 1 .. Len(q) /\ t[k] = q[k + (Len(q) - Len(t))]
  <2>1. from + k - 1 = k + (Len(q) - Len(t)) /\ k \in 1 .. Len(q) - from + 1 /\ k + (Len(q) - Len(t)) \in 1 .. Len(q)
    BY <1>1, <1>2, <1>3, <1>5
  <2> QED BY <1>3, <2>1
<1> QED BY <1>3, <1>4, <1>6 DEF t, from

\* A person holds one acceptance of a digest: a new one replaces it, and the
\* list grows up to Limit.
LEMMA RenewedKeeps ==
  ASSUME Limit \in Nat \ {0}, NEW s \in Seq(Accepting), Short(s), NEW a \in Accepting
  PROVE  /\ Attest!Renewed(s, a) \in Seq(Accepting) /\ Short(Attest!Renewed(s, a)) /\ Attest!Renewed(s, a) # <<>>
         /\ \A i \in DOMAIN Attest!Renewed(s, a) :
              Attest!Renewed(s, a)[i] = a \/ \E k \in DOMAIN s : Attest!Renewed(s, a)[i] = s[k]
         /\ Unlike(s) => /\ Unlike(Attest!Renewed(s, a))
                         /\ Len(Attest!Renewed(s, a)) =
                              IF \E k \in DOMAIN s : Attest!Renews(a, s[k]) THEN Len(s) ELSE Least(Limit, Len(s) + 1)
<1> DEFINE I == {i \in DOMAIN s : ~Attest!Renews(a, s[i])}
           u == Sub(s, I)
           all == Append(u, a)
           t == Attest!Renewed(s, a)
<1>0. Len(s) \in Nat /\ DOMAIN s = 1 .. Len(s)
  OBVIOUS
<1>1. Len(s) \in Nat /\ DOMAIN s = 1 .. Len(s) /\ IsFiniteSet(DOMAIN s) /\ Cardinality(DOMAIN s) = Len(s)
  <2>1. IsFiniteSet(1 .. Len(s)) /\ Cardinality(1 .. Len(s)) = Len(s)
    BY <1>0, FS_Interval
  <2> QED BY <1>0, <2>1
<1>2. /\ u \in Seq(Accepting) /\ Len(u) = Cardinality(I) /\ Len(u) <= Len(s) /\ Places(u, s, I)
  BY SubElements
<1>3. PICK place \in [DOMAIN u -> I] :
        /\ \A k \in DOMAIN u : u[k] = s[place[k]]
        /\ \A j, k \in DOMAIN u : place[j] = place[k] => j = k
        /\ \A i \in I : \E k \in DOMAIN u : place[k] = i
  BY <1>2 DEF Places
<1>4. Len(u) \in Nat /\ DOMAIN u = 1 .. Len(u)
  BY <1>2
<1>5. /\ all \in Seq(Accepting) /\ Len(all) = Len(u) + 1 /\ all[Len(u) + 1] = a
      /\ \A k \in 1 .. Len(u) : all[k] = u[k]
  BY <1>2 
<1>6. t = SubSeq(all, IF Len(all) > Limit THEN Len(all) - Limit + 1 ELSE 1, Len(all))
  BY AttestLibrary, Zenon DEF Attest!Renewed
<1>i. \A i \in I : i \in DOMAIN s /\ ~Attest!Renews(a, s[i])
  OBVIOUS
<1>j. \A i \in DOMAIN s : i \notin I => Attest!Renews(a, s[i])
  OBVIOUS
<1> HIDE DEF I, u, all, t
<1>7. /\ t \in Seq(Accepting) /\ Len(t) = (IF Len(all) > Limit THEN Limit ELSE Len(all))
      /\ \A k \in 1 .. Len(t) : k + (Len(all) - Len(t)) \in 1 .. Len(all) /\ t[k] = all[k + (Len(all) - Len(t))]
  BY <1>5, <1>6, TailOf
<1>8. PICK shift \in Int : \A k \in 1 .. Len(t) : k + shift \in 1 .. Len(all) /\ t[k] = all[k + shift]
  <2>1. Len(all) - Len(t) \in Int
    BY <1>5, <1>7
  <2> QED BY <1>7, <2>1
<1>9. Len(t) \in Nat /\ DOMAIN t = 1 .. Len(t) /\ Short(t) /\ t # <<>>
  BY <1>4, <1>5, <1>7 DEF Short
<1>10. \A k \in 1 .. Len(all) : \/ k = Len(u) + 1 /\ all[k] = a
                                \/ k \in DOMAIN u /\ all[k] = s[place[k]] /\ place[k] \in I
  BY <1>3, <1>4, <1>5
<1>11. \A k \in 1 .. Len(all) : all[k] = a \/ \E i \in DOMAIN s : all[k] = s[i]
  BY <1>10, <1>i
<1>12. \A i \in DOMAIN t : t[i] = a \/ \E k \in DOMAIN s : t[i] = s[k]
  BY <1>8, <1>9, <1>11
<1>13. ASSUME Unlike(s) PROVE Unlike(t)
  <2>1. ASSUME NEW j \in 1 .. Len(all), NEW k \in 1 .. Len(all), Attest!Renews(all[j], all[k]) PROVE j = k
    <3>1. CASE j = Len(u) + 1 /\ k = Len(u) + 1
      BY <3>1
    <3>2. CASE j \in DOMAIN u /\ k \in DOMAIN u
      <4>1. Attest!Renews(s[place[j]], s[place[k]]) /\ place[j] \in DOMAIN s /\ place[k] \in DOMAIN s
        BY <1>i, <1>10, <2>1, <3>2, <1>4
      <4>2. place[j] = place[k]
        BY <4>1, <1>13 DEF Unlike
      <4> QED BY <1>3, <3>2, <4>2
    <3>3. CASE j \in DOMAIN u /\ k = Len(u) + 1
      <4>1. all[j] = s[place[j]] /\ place[j] \in I /\ all[k] = a
        BY <1>4, <1>5, <1>10, <3>3
      <4>2. Attest!Renews(a, s[place[j]])
        BY <2>1, <4>1 DEF Attest!Renews
      <4> QED BY <1>i, <4>1, <4>2
    <3>4. CASE j = Len(u) + 1 /\ k \in DOMAIN u
      <4>1. all[k] = s[place[k]] /\ place[k] \in I /\ all[j] = a
        BY <1>4, <1>5, <1>10, <3>4
      <4> QED BY <1>i, <2>1, <4>1
    <3> QED BY <1>10, <3>1, <3>2, <3>3, <3>4
  <2>2. ASSUME NEW j \in DOMAIN t, NEW k \in DOMAIN t, Attest!Renews(t[j], t[k]) PROVE j = k
    <3>1. /\ j + shift \in 1 .. Len(all) /\ k + shift \in 1 .. Len(all)
          /\ t[j] = all[j + shift] /\ t[k] = all[k + shift]
      BY <1>8, <1>9
    <3>2. j + shift = k + shift
      BY <2>1, <2>2, <3>1
    <3> QED BY <1>9, <3>2
  <2> QED BY <2>2 DEF Unlike
<1>14. ASSUME Unlike(s), NEW k \in DOMAIN s, Attest!Renews(a, s[k]) PROVE Len(t) = Len(s)
  <2>1. I = DOMAIN s \ {k}
    <3>1. ASSUME NEW i \in DOMAIN s, i \notin I PROVE i = k
      <4>1. Attest!Renews(s[i], s[k])
        BY <1>j, <1>14, <3>1 DEF Attest!Renews
      <4> QED BY <1>14, <4>1 DEF Unlike
    <3>2. k \notin I
      BY <1>i, <1>14
    <3> QED BY <1>i, <3>1, <3>2
  <2>2. Cardinality(I) = Len(s) - 1
    BY <1>1, <1>14, <2>1, FS_RemoveElement
  <2>3. Len(all) = Len(s) /\ Len(s) \in Nat
    BY <1>0, <1>2, <1>5, <2>2
  <2>4. ~(Len(all) > Limit)
    BY <2>3 DEF Short
  <2> QED BY <1>7, <2>3, <2>4
<1>15. ASSUME \A k \in DOMAIN s : ~Attest!Renews(a, s[k]) PROVE Len(t) = Least(Limit, Len(s) + 1)
  <2>1. I = DOMAIN s
    BY <1>i, <1>j, <1>15
  <2> QED BY <1>1, <1>2, <1>5, <1>7, <2>1 DEF Least
<1> QED BY <1>7, <1>9, <1>12, <1>13, <1>14, <1>15 DEF t

\* A list of acceptances that differ holds as many pairs of a person and a digest.
HeldIn(s) == {<<a.by, a.digest>> : a \in Attest!ToSet(s)}
LEMMA HeldCounted ==
  ASSUME NEW s \in Seq(Accepting), Unlike(s)
  PROVE  IsFiniteSet(HeldIn(s)) /\ Cardinality(HeldIn(s)) = Len(s)
<1> DEFINE f == [i \in DOMAIN s |-> <<s[i].by, s[i].digest>>]
<1>1. Len(s) \in Nat /\ DOMAIN s = 1 .. Len(s)
  OBVIOUS
<1>2. IsFiniteSet(DOMAIN s) /\ Cardinality(DOMAIN s) = Len(s)
  <2>1. IsFiniteSet(1 .. Len(s)) /\ Cardinality(1 .. Len(s)) = Len(s)
    BY <1>1, FS_Interval
  <2> QED BY <1>1, <2>1
<1>3. f \in [DOMAIN s -> HeldIn(s)] /\ \A h \in HeldIn(s) : \E i \in DOMAIN s : f[i] = h
  BY DEF HeldIn, Attest!ToSet
<1>4. \A i, k \in DOMAIN s : f[i] = f[k] => i = k
  BY DEF Unlike, Attest!Renews
<1> HIDE DEF f
<1>5. f \in Bijection(DOMAIN s, HeldIn(s))
  BY <1>3, <1>4 DEF Bijection, Injection, Surjection, IsInjective
<1> QED BY <1>2, <1>5, FS_Bijection DEF ExistsBijection

-----------------------------------------------------------------------------
(* Types are kept *)

LEMMA NoneLoaded == Attest!AttestationAssumption => Short(<<>>)
  BY DEF Attest!AttestationAssumption, Short

\* What a process holds at each step, for the processes that do not move.
LEMMA OthersWork ==
  ASSUME Attest!AttestationAssumption, AttestTyped, NEW p \in Attest!Procs, NEW place, NEW w, Moved(p, place, w), pairs' >= pairs, pairs' \in Nat,
         identity # 0 => identity' # 0, public # 0 => public' # 0
  PROVE  \A q \in Attest!Procs : q # p => WorkOf(q)'
<1> SUFFICES ASSUME NEW q \in Attest!Procs, q # p PROVE WorkOf(q)'
  OBVIOUS
<1>1. phase'[q] = phase[q] /\ local'[q] = local[q]
  BY DEF Moved
<1>2. WorkOf(q) /\ pairs \in Nat
  BY DEF AttestTyped
<1>3. 1 .. pairs \subseteq 1 .. pairs'
  BY <1>2
<1> QED BY <1>1, <1>2, <1>3 DEF WorkOf

FilesTyped ==
  /\ latest \in Digests \cup {NoDigest} /\ receipt \in Digests \cup {NoDigest}
  /\ pairs \in Nat /\ key \in 0 .. pairs /\ public \in 0 .. pairs /\ identity \in 0 .. pairs
  /\ AttestStored => store \in Seq(Accepting) /\ Short(store)
  /\ consent \in SUBSET (People \X Digests) /\ IsFiniteSet(consent)
  /\ crashes \in Nat
  /\ identity # 0 => public # 0

LEMMA MovedTyped ==
  ASSUME Attest!AttestationAssumption, AttestTyped, NEW p \in Attest!Procs, NEW place, NEW w, Moved(p, place, w), FilesTyped', WorkOf(p)',
         pairs' >= pairs, identity # 0 => identity' # 0, public # 0 => public' # 0
  PROVE  AttestTyped'
<1>1. pairs' \in Nat
  BY DEF FilesTyped
<1>2. \A q \in Attest!Procs : WorkOf(q)'
  BY <1>1, OthersWork
<1>3. phase' \in [Attest!Procs -> Steps] /\ local' \in [Attest!Procs -> Works]
  BY DEF Moved
<1> QED BY <1>2, <1>3 DEF FilesTyped, AttestTyped

LEMMA TypedStarts ==
  ASSUME Attest!AttestationAssumption, AttestTyped, NEW p \in Attest!Procs,
         \/ Attest!Accept(p) \/ Attest!Attest(p) \/ Attest!Evidence(p)
         \/ \E d \in Digests : Attest!Stop(p, d)
  PROVE  AttestTyped'
<1>0. local[p] \in Works /\ WorkOf(p) /\ pairs \in Nat
  BY DEF AttestTyped
<1>1. CASE Attest!Accept(p)
  <2>1. UNCHANGED Attest!files /\ UNCHANGED <<crashes, consent>> /\ p \in People /\ receipt \in Digests
    BY <1>1 DEF Attest!Accept, AttestTyped
  <2>2. FilesTyped'
    BY <2>1 DEF AttestTyped, FilesTyped, Attest!files, AttestStored, Short
  <2>3. WorkOf(p)'
    <3>1. AttestFields(p, "ensure", receipt, NoDigest, NoDigest, {}, 0, 0, <<>>, TRUE, FALSE)
      BY <1>1, AcceptMoves
    <3> QED BY <2>1, <3>1, NoneLoaded DEF AttestFields, Moved, WorkOf, Short, Attest!files
  <2>4. Moved(p, "ensure", local'[p])
    BY <1>1, AcceptMoves DEF AttestFields
  <2> QED BY <1>0, <2>1, <2>2, <2>3, <2>4, MovedTyped DEF Attest!files
<1>2. CASE Attest!Attest(p)
  <2>1. UNCHANGED Attest!files /\ UNCHANGED <<crashes, consent>>
    BY <1>2 DEF Attest!Attest
  <2>2. FilesTyped'
    BY <2>1 DEF AttestTyped, FilesTyped, Attest!files, AttestStored, Short
  <2>3. Moved(p, "subject", Attest!Fresh)
    BY <1>2, PlainMoves
  <2>4. WorkOf(p)'
    BY <2>3, NoneLoaded DEF Moved, WorkOf, Attest!Fresh, Short
  <2> QED BY <1>0, <2>1, <2>2, <2>3, <2>4, MovedTyped DEF Attest!files
<1>3. CASE Attest!Evidence(p)
  <2>1. UNCHANGED Attest!files /\ UNCHANGED <<crashes, consent>>
    BY <1>3 DEF Attest!Evidence
  <2>2. FilesTyped'
    BY <2>1 DEF AttestTyped, FilesTyped, Attest!files, AttestStored, Short
  <2>3. Moved(p, "receipt", local'[p])
    BY <1>3, EvidenceMoves DEF AttestFields
  <2>4. WorkOf(p)'
    <3>1. AttestFields(p, "receipt", latest, NoDigest, NoDigest, {}, 0, 0, <<>>, FALSE, TRUE)
      BY <1>3, EvidenceMoves
    <3> QED BY <3>1, NoneLoaded DEF AttestFields, Moved, WorkOf, Short
  <2> QED BY <1>0, <2>1, <2>2, <2>3, <2>4, MovedTyped DEF Attest!files
<1>4. ASSUME NEW d \in Digests, Attest!Stop(p, d) PROVE AttestTyped'
  <2>1. UNCHANGED <<receipt, key, public, identity, pairs, store, attestation, bundle, crashes, consent>> /\ latest' = d
    BY <1>4 DEF Attest!Stop
  <2>2. FilesTyped'
    BY <2>1 DEF AttestTyped, FilesTyped, AttestStored, Short
  <2>3. Moved(p, "receipt", local'[p])
    BY <1>4, StopMoves DEF AttestFields
  <2>4. WorkOf(p)'
    <3>1. AttestFields(p, "receipt", d, NoDigest, NoDigest, {}, 0, 0, <<>>, FALSE, FALSE)
      BY <1>4, StopMoves
    <3> QED BY <3>1, NoneLoaded DEF AttestFields, Moved, WorkOf, Short
  <2> QED BY <1>0, <2>1, <2>2, <2>3, <2>4, MovedTyped
<1> QED BY <1>1, <1>2, <1>3, <1>4

LEMMA TypedReads ==
  ASSUME Attest!AttestationAssumption, AttestTyped, NEW p \in Attest!Procs, Attest!WriteReceipt(p) \/ Attest!Subject(p) \/ Attest!Report(p)
  PROVE  AttestTyped'
<1>0. local[p] \in Works /\ WorkOf(p) /\ pairs \in Nat
  BY DEF AttestTyped
<1>1. CASE Attest!WriteReceipt(p)
  <2>1. /\ UNCHANGED <<latest, key, public, identity, pairs, store, attestation, bundle, invoked, crashes, consent>>
        /\ receipt' = local[p].digest /\ Attest!At(p, "receipt")
    BY <1>1 DEF Attest!WriteReceipt
  <2>2. FilesTyped'
    BY <1>0, <2>1 DEF AttestTyped, FilesTyped, AttestStored, Short, Works
  <2>3. Stays(p, "subject")
    BY <1>1, PlainMoves
  <2>4. WorkOf(p)'
    BY <1>0, <2>1, <2>3 DEF Stays, Moved, WorkOf, Attest!At
  <2> QED BY <1>0, <2>1, <2>2, <2>3, <2>4, MovedTyped DEF Stays
<1>2. CASE Attest!Subject(p)
  <2>1. UNCHANGED Attest!files /\ UNCHANGED <<crashes, consent>> /\ Attest!At(p, "subject")
    BY <1>2 DEF Attest!Subject
  <2>2. FilesTyped'
    BY <2>1 DEF AttestTyped, FilesTyped, Attest!files, AttestStored, Short
  <2>3. CASE Moved(p, "idle", Attest!Fresh)
    <3>1. WorkOf(p)'
      BY <2>3, NoneLoaded DEF Moved, WorkOf, Attest!Fresh, Short
    <3> QED BY <1>0, <2>1, <2>2, <2>3, <3>1, MovedTyped DEF Attest!files
  <2>4. CASE ~Moved(p, "idle", Attest!Fresh)
    <3>1. AttestFields(p, "report", local[p].digest, receipt, local[p].about, local[p].accepted, local[p].keyid,
                      local[p].sig, local[p].loaded, local[p].accepting, local[p].bundling)
      BY <1>2, <2>4, SubjectMoves
    <3>2. WorkOf(p)' /\ Moved(p, "report", local'[p])
      BY <1>0, <2>1, <3>1 DEF AttestFields, Moved, WorkOf, Attest!At
    <3> QED BY <1>0, <2>1, <2>2, <3>2, MovedTyped DEF Attest!files
  <2> QED BY <2>3, <2>4
<1>3. CASE Attest!Report(p)
  <2>1. UNCHANGED Attest!files /\ UNCHANGED <<crashes, consent>> /\ Attest!At(p, "report")
    BY <1>3 DEF Attest!Report
  <2>2. FilesTyped'
    BY <2>1 DEF AttestTyped, FilesTyped, Attest!files, AttestStored, Short
  <2>3. WorkOf(p)' /\ Moved(p, "ensure", local'[p])
    BY <1>0, <1>3, <2>1, ReportMoves DEF AttestFields, Moved, WorkOf, Attest!At
  <2> QED BY <1>0, <2>1, <2>2, <2>3, MovedTyped DEF Attest!files
<1> QED BY <1>1, <1>2, <1>3

LEMMA TypedIdentity ==
  ASSUME Attest!AttestationAssumption, AttestTyped, NEW p \in Attest!Procs,
         Attest!Found(p) \/ Attest!Generate(p) \/ Attest!WriteKey(p) \/ Attest!WritePublic(p) \/ Attest!WriteIdentity(p)
  PROVE  AttestTyped'
<1>0. local[p] \in Works /\ WorkOf(p) /\ pairs \in Nat
  BY DEF AttestTyped
<1>a. Attest!AfterEnsure(p) \in {"sign", "accepted"} /\ (Attest!AfterEnsure(p) = "accepted" => ~local[p].accepting)
  BY DEF Attest!AfterEnsure
<1>1. CASE Attest!Found(p)
  <2>1. /\ UNCHANGED <<latest, receipt, key, identity, pairs, store, attestation, bundle, invoked, crashes, consent>>
        /\ public' \in {public, identity} /\ (public # 0 => public' # 0) /\ (identity # 0 => public' # 0)
    BY <1>1 DEF Attest!Found
  <2>2. FilesTyped'
    BY <2>1 DEF AttestTyped, FilesTyped, AttestStored, Short
  <2>3. Moved(p, Attest!AfterEnsure(p), local'[p])
    BY <1>1, FoundMoves DEF AttestFields
  <2>4. WorkOf(p)'
    <3>1. AttestFields(p, Attest!AfterEnsure(p), local[p].digest, local[p].subject, local[p].about, local[p].accepted, identity,
                      local[p].sig, local[p].loaded, local[p].accepting, local[p].bundling)
      BY <1>1, FoundMoves
    <3> QED BY <1>0, <1>a, <3>1 DEF AttestFields, Moved, WorkOf, Short
  <2> QED BY <1>0, <2>1, <2>2, <2>3, <2>4, MovedTyped
<1>2. CASE Attest!Generate(p)
  <2>1. /\ UNCHANGED <<latest, receipt, key, public, identity, store, attestation, bundle, invoked, crashes, consent>>
        /\ pairs' = pairs + 1
    BY <1>2 DEF Attest!Generate
  <2>2. pairs' \in Nat /\ pairs' >= pairs /\ 0 .. pairs \subseteq 0 .. pairs' /\ pairs + 1 \in 1 .. pairs'
    BY <1>0, <2>1
  <2>3. FilesTyped'
    BY <2>1, <2>2 DEF AttestTyped, FilesTyped, AttestStored, Short
  <2>4. Moved(p, "key", local'[p])
    BY <1>2, GenerateMoves DEF AttestFields
  <2>5. WorkOf(p)'
    <3>1. AttestFields(p, "key", local[p].digest, local[p].subject, local[p].about, local[p].accepted, pairs + 1,
                      local[p].sig, local[p].loaded, local[p].accepting, local[p].bundling)
      BY <1>2, GenerateMoves
    <3> QED BY <1>0, <2>2, <3>1 DEF AttestFields, Moved, WorkOf, Short
  <2> QED BY <1>0, <2>1, <2>2, <2>3, <2>4, <2>5, MovedTyped
<1>3. CASE Attest!WriteKey(p)
  <2>1. /\ UNCHANGED <<latest, receipt, public, identity, pairs, store, attestation, bundle, invoked, crashes, consent>>
        /\ key' = local[p].keyid /\ Attest!At(p, "key")
    BY <1>3 DEF Attest!WriteKey, Attest!NewKey
  <2>2. FilesTyped'
    <3>1. key' \in 0 .. pairs
      BY <1>0, <2>1 DEF WorkOf, Attest!At
    <3> QED BY <2>1, <3>1 DEF AttestTyped, FilesTyped, AttestStored, Short
  <2>3. Stays(p, "public")
    BY <1>3, PlainMoves
  <2>4. WorkOf(p)'
    BY <1>0, <2>1, <2>3 DEF Stays, Moved, WorkOf, Attest!At
  <2> QED BY <1>0, <2>1, <2>2, <2>3, <2>4, MovedTyped DEF Stays
<1>4. CASE Attest!WritePublic(p)
  <2>1. /\ UNCHANGED <<latest, receipt, key, identity, pairs, store, attestation, bundle, invoked, crashes, consent>>
        /\ public' = local[p].keyid /\ Attest!At(p, "public")
    BY <1>4 DEF Attest!WritePublic
  <2>2. public' \in 0 .. pairs /\ public' # 0
    BY <1>0, <2>1 DEF WorkOf, Attest!At
  <2>3. FilesTyped'
    BY <2>1, <2>2 DEF AttestTyped, FilesTyped, AttestStored, Short
  <2>4. Stays(p, "identity")
    BY <1>4, PlainMoves
  <2>5. WorkOf(p)'
    BY <1>0, <2>1, <2>2, <2>4 DEF Stays, Moved, WorkOf, Attest!At
  <2> QED BY <1>0, <2>1, <2>2, <2>3, <2>4, <2>5, MovedTyped DEF Stays
<1>5. CASE Attest!WriteIdentity(p)
  <2>1. /\ UNCHANGED <<latest, receipt, key, public, pairs, store, attestation, bundle, invoked, crashes, consent>>
        /\ identity' = local[p].keyid /\ Attest!At(p, "identity")
    BY <1>5 DEF Attest!WriteIdentity
  <2>2. identity' \in 0 .. pairs /\ identity' # 0 /\ public # 0
    BY <1>0, <2>1 DEF WorkOf, Attest!At
  <2>3. FilesTyped'
    BY <2>1, <2>2 DEF AttestTyped, FilesTyped, AttestStored, Short
  <2>4. Stays(p, Attest!AfterEnsure(p))
    BY <1>5, PlainMoves
  <2>5. WorkOf(p)'
    BY <1>0, <1>a, <2>1, <2>4 DEF Stays, Moved, WorkOf, Attest!At
  <2> QED BY <1>0, <2>1, <2>2, <2>3, <2>4, <2>5, MovedTyped DEF Stays
<1> QED BY <1>1, <1>2, <1>3, <1>4, <1>5

LEMMA SavedIsAccepting ==
  ASSUME Attest!AttestationAssumption, AttestTyped, NEW p \in Attest!Procs, Attest!At(p, "save")
  PROVE  /\ Attest!Acceptance(p) \in Accepting /\ local[p].loaded \in Seq(Accepting) /\ Short(local[p].loaded)
         /\ p \in People /\ local[p].digest \in Digests /\ Limit \in Nat \ {0}
<1>1. local[p] \in Works /\ WorkOf(p) /\ Limit \in Nat \ {0}
  BY DEF AttestTyped, Attest!AttestationAssumption
<1>2. p \in People /\ local[p].digest \in Digests /\ Short(local[p].loaded)
  BY <1>1 DEF WorkOf, Attest!At
<1> QED BY <1>1, <1>2 DEF Attest!Acceptance, Accepting, Works

LEMMA TypedAccepts ==
  ASSUME Attest!AttestationAssumption, AttestTyped, NEW p \in Attest!Procs, Attest!Sign(p) \/ Attest!Load(p) \/ Attest!Truncate(p) \/ Attest!Save(p)
  PROVE  AttestTyped'
<1>0. local[p] \in Works /\ WorkOf(p) /\ pairs \in Nat
  BY DEF AttestTyped
<1>1. CASE Attest!Sign(p)
  <2>1. UNCHANGED Attest!files /\ UNCHANGED <<crashes, consent>>
    BY <1>1 DEF Attest!Sign
  <2>2. FilesTyped'
    BY <2>1 DEF AttestTyped, FilesTyped, Attest!files, AttestStored, Short
  <2>3. AttestFields(p, (IF local[p].accepting THEN "load" ELSE "seal"), local[p].digest, local[p].subject,
                    local[p].about, local[p].accepted, local[p].keyid, key, local[p].loaded,
                    local[p].accepting, local[p].bundling)
    BY <1>1, SignMoves
  <2>4. WorkOf(p)' /\ Moved(p, (IF local[p].accepting THEN "load" ELSE "seal"), local'[p])
    BY <1>0, <2>3 DEF AttestFields, Moved, WorkOf, Short
  <2> QED BY <1>0, <2>1, <2>2, <2>4, MovedTyped DEF Attest!files
<1>2. CASE Attest!Load(p)
  <2>1. UNCHANGED Attest!files /\ UNCHANGED <<crashes, consent>> /\ Attest!At(p, "load")
    BY <1>2 DEF Attest!Load
  <2>2. FilesTyped'
    BY <2>1 DEF AttestTyped, FilesTyped, Attest!files, AttestStored, Short
  <2>3. CASE Moved(p, "idle", Attest!Fresh)
    <3>1. WorkOf(p)'
      BY <2>3, NoneLoaded DEF Moved, WorkOf, Attest!Fresh, Short
    <3> QED BY <1>0, <2>1, <2>2, <2>3, <3>1, MovedTyped DEF Attest!files
  <2>4. CASE ~Moved(p, "idle", Attest!Fresh)
    <3>1. AttestFields(p, "open", local[p].digest, local[p].subject, local[p].about, local[p].accepted, local[p].keyid,
                      local[p].sig, store, local[p].accepting, local[p].bundling) /\ AttestStored
      BY <1>2, <2>4, LoadMoves
    <3>2. Short(store)
      BY <3>1 DEF AttestTyped
    <3>3. WorkOf(p)' /\ Moved(p, "open", local'[p])
      BY <1>0, <2>1, <3>1, <3>2 DEF AttestFields, Moved, WorkOf, Attest!At, Short
    <3> QED BY <1>0, <2>1, <2>2, <3>3, MovedTyped DEF Attest!files
  <2> QED BY <2>3, <2>4
<1>3. CASE Attest!Truncate(p)
  <2>1. /\ UNCHANGED <<latest, receipt, key, public, identity, pairs, attestation, bundle, invoked, crashes, consent>>
        /\ store' = Torn /\ Attest!At(p, "open")
    BY <1>3 DEF Attest!Truncate
  <2>2. FilesTyped'
    BY <2>1 DEF AttestTyped, FilesTyped, AttestStored, Short
  <2>3. Stays(p, "save")
    BY <1>3, PlainMoves
  <2>4. WorkOf(p)'
    BY <1>0, <2>1, <2>3 DEF Stays, Moved, WorkOf, Attest!At
  <2> QED BY <1>0, <2>1, <2>2, <2>3, <2>4, MovedTyped DEF Stays
<1>4. CASE Attest!Save(p)
  <2>1. /\ UNCHANGED <<latest, receipt, key, public, identity, pairs, attestation, bundle, invoked, crashes>>
        /\ store' = Attest!Renewed(local[p].loaded, Attest!Acceptance(p)) /\ Attest!At(p, "save")
        /\ consent' = consent \cup {<<p, local[p].digest>>}
    BY <1>4 DEF Attest!Save
  <2>2. store' \in Seq(Accepting) /\ Short(store')
    BY <2>1, SavedIsAccepting, RenewedKeeps
  <2>3. consent' \in SUBSET (People \X Digests) /\ IsFiniteSet(consent')
    <3>1. IsFiniteSet(consent) /\ consent \in SUBSET (People \X Digests)
      BY DEF AttestTyped
    <3>2. IsFiniteSet(consent \cup {<<p, local[p].digest>>})
      BY <3>1, FS_AddElement
    <3> QED BY <2>1, <3>1, <3>2, SavedIsAccepting
  <2>4. FilesTyped'
    <3>1. Short(store)'
      BY <2>2 DEF Short
    <3> QED BY <2>1, <2>2, <2>3, <3>1 DEF AttestTyped, FilesTyped
  <2>5. Moved(p, "subject", Attest!Fresh)
    BY <1>4, PlainMoves
  <2>6. WorkOf(p)'
    BY <2>5, NoneLoaded DEF Moved, WorkOf, Attest!Fresh, Short
  <2> QED BY <1>0, <2>1, <2>4, <2>5, <2>6, MovedTyped
<1> QED BY <1>1, <1>2, <1>3, <1>4

LEMMA TypedSeals ==
  ASSUME Attest!AttestationAssumption, AttestTyped, NEW p \in Attest!Procs, Attest!Accepted(p) \/ Attest!Seal(p) \/ Attest!Bundle(p) \/ Attest!Crash(p)
  PROVE  AttestTyped'
<1>0. local[p] \in Works /\ WorkOf(p) /\ pairs \in Nat
  BY DEF AttestTyped
<1>1. /\ UNCHANGED <<latest, receipt, key, public, identity, pairs, store, consent>>
      /\ crashes' \in {crashes, crashes + 1}
  BY DEF Attest!Accepted, Attest!Seal, Attest!Bundle, Attest!Crash, Attest!files
<1>2. FilesTyped'
  BY <1>1 DEF AttestTyped, FilesTyped, AttestStored, Short
<1>3. CASE Moved(p, "idle", Attest!Fresh)
  <2>1. WorkOf(p)'
    BY <1>3, NoneLoaded DEF Moved, WorkOf, Attest!Fresh, Short
  <2> QED BY <1>0, <1>1, <1>2, <1>3, <2>1, MovedTyped
<1>4. CASE Attest!Accepted(p) /\ ~Moved(p, "idle", Attest!Fresh)
  <2>1. AttestFields(p, "sign", local[p].digest, local[p].subject, local[p].about,
                    Attest!Counted(store, local[p].about, local[p].keyid), local[p].keyid, local[p].sig, local[p].loaded,
                    local[p].accepting, local[p].bundling)
    BY <1>4, AcceptedMoves
  <2>2. WorkOf(p)' /\ Moved(p, "sign", local'[p])
    BY <1>0, <2>1 DEF AttestFields, Moved, WorkOf, Short
  <2> QED BY <1>0, <1>1, <1>2, <2>2, MovedTyped
<1>5. CASE Attest!Seal(p) /\ ~Moved(p, "idle", Attest!Fresh)
  <2>1. Stays(p, "bundle") /\ local[p].bundling /\ Attest!At(p, "seal")
    BY <1>5, PlainMoves DEF Attest!Seal
  <2>2. WorkOf(p)'
    BY <1>0, <2>1 DEF Stays, Moved, WorkOf, Attest!At, Short
  <2> QED BY <1>0, <1>1, <1>2, <2>1, <2>2, MovedTyped DEF Stays
<1> QED BY <1>3, <1>4, <1>5, PlainMoves

LEMMA TypedKept ==
  ASSUME Attest!AttestationAssumption, AttestTyped, [Attest!Next]_Attest!vars
  PROVE  AttestTyped'
<1>1. ASSUME UNCHANGED Attest!vars PROVE AttestTyped'
  <2>1. /\ UNCHANGED <<latest, receipt, key, public, identity, pairs, store>>
        /\ UNCHANGED <<phase, local, crashes, consent>>
    BY <1>1 DEF Attest!vars, Attest!files
  <2>2. \A p \in Attest!Procs : WorkOf(p)'
    BY <2>1 DEF AttestTyped, WorkOf, Short
  <2> QED BY <2>1, <2>2 DEF AttestTyped, AttestStored, Short
<1> QED BY <1>1, AttestStepCases, TypedStarts, TypedReads, TypedIdentity, TypedAccepts, TypedSeals

LEMMA TypedStart == Attest!AttestationAssumption /\ Attest!Init => AttestTyped
<1> SUFFICES ASSUME Attest!AttestationAssumption, Attest!Init PROVE AttestTyped
  OBVIOUS
<1>1. /\ pairs \in {0, 1} /\ key = pairs /\ public = pairs /\ identity = pairs /\ consent = {}
      /\ latest = NoDigest /\ receipt = NoDigest /\ store = <<>> /\ crashes = 0
  BY DEF Attest!Init
<1>2. IsFiniteSet(consent)
  BY <1>1, FS_EmptySet
<1>3. phase \in [Attest!Procs -> Steps] /\ local \in [Attest!Procs -> Works]
  BY FreshWork DEF Attest!Init, Steps
<1>4. \A p \in Attest!Procs : phase[p] = "idle" /\ local[p] = Attest!Fresh
  BY DEF Attest!Init
<1>5. \A p \in Attest!Procs : WorkOf(p)
  <2>1. Attest!Fresh.accepting = FALSE /\ Attest!Fresh.loaded = <<>>
    BY DEF Attest!Fresh
  <2> QED BY <1>4, <2>1, NoneLoaded DEF WorkOf
<1>6. store \in Seq(Accepting) /\ Short(store)
  BY <1>1, NoneLoaded
<1> QED BY <1>1, <1>2, <1>3, <1>5, <1>6 DEF AttestTyped

-----------------------------------------------------------------------------
(* Nobody accepts for another *)

LEMMA ConsentsMoved ==
  ASSUME AttestTyped, Consents, NEW p \in Attest!Procs, NEW place, NEW w, Moved(p, place, w), consent \subseteq consent',
         AttestStored' => AllConsent(store)', Attest!OnlyConsented',
         AllConsent(local[p].loaded)', \A q \in local'[p].accepted : <<q, local'[p].about>> \in consent'
  PROVE  Consents'
<1>1. ASSUME NEW r \in Attest!Procs, r # p
      PROVE  AllConsent(local[r].loaded)' /\ \A q \in local'[r].accepted : <<q, local'[r].about>> \in consent'
  <2>1. local'[r] = local[r]
    BY <1>1 DEF Moved
  <2> QED BY <2>1 DEF Consents, AllConsent
<1> QED BY <1>1 DEF Consents

LEMMA OnlyConsentedStays ==
  ASSUME Attest!OnlyConsented, consent \subseteq consent', attestation' = attestation
  PROVE  Attest!OnlyConsented'
  BY DEF Attest!OnlyConsented

\* A step that leaves the files of this invariant alone, and reads no list and no name.
LEMMA ConsentsCarried ==
  ASSUME AttestTyped, Consents, NEW p \in Attest!Procs, NEW place, NEW w, Moved(p, place, w), UNCHANGED <<consent, store, attestation>>,
         w.loaded = local[p].loaded \/ w.loaded = <<>>,
         w.accepted = {} \/ (w.accepted = local[p].accepted /\ w.about = local[p].about)
  PROVE  Consents'
<1>1. Attest!OnlyConsented' /\ (AttestStored' => AllConsent(store)')
  BY OnlyConsentedStays DEF Consents, AttestStored, AllConsent
<1>2. local'[p] = w
  BY DEF Moved
<1>3. AllConsent(local[p].loaded)'
  BY <1>2 DEF Consents, AllConsent
<1>4. \A q \in local'[p].accepted : <<q, local'[p].about>> \in consent'
  BY <1>2 DEF Consents
<1> QED BY <1>1, <1>3, <1>4, ConsentsMoved

LEMMA FreshEmpty == Attest!Fresh.loaded = <<>> /\ Attest!Fresh.accepted = {} /\ Attest!Fresh.accepting = FALSE /\ Attest!Fresh.bundling = FALSE
  BY DEF Attest!Fresh

LEMMA ConsentsKept ==
  ASSUME Attest!AttestationAssumption, AttestTyped, Consents, [Attest!Next]_Attest!vars
  PROVE  Consents'
<1>1. CASE UNCHANGED Attest!vars
  BY <1>1 DEF Attest!vars, Attest!files, Consents, AllConsent, Attest!OnlyConsented, AttestStored
<1>2. ASSUME NEW p \in Attest!Procs, Attest!Accept(p) \/ Attest!Attest(p) \/ Attest!Evidence(p) PROVE Consents'
  <2>1. UNCHANGED <<consent, store, attestation>>
    BY <1>2 DEF Attest!Accept, Attest!Attest, Attest!Evidence, Attest!files
  <2>2. CASE Attest!Accept(p)
    BY <2>1, <2>2, AcceptMoves, ConsentsCarried DEF AttestFields
  <2>3. CASE Attest!Attest(p)
    BY <2>1, <2>3, PlainMoves, FreshEmpty, ConsentsCarried
  <2>4. CASE Attest!Evidence(p)
    BY <2>1, <2>4, EvidenceMoves, ConsentsCarried DEF AttestFields
  <2> QED BY <1>2, <2>2, <2>3, <2>4
<1>3. ASSUME NEW p \in Attest!Procs, NEW d \in Digests, Attest!Stop(p, d) PROVE Consents'
  <2>1. UNCHANGED <<consent, store, attestation>>
    BY <1>3 DEF Attest!Stop
  <2> QED BY <1>3, <2>1, StopMoves, ConsentsCarried DEF AttestFields
<1>4. ASSUME NEW p \in Attest!Procs, Attest!WriteReceipt(p) \/ Attest!Subject(p) \/ Attest!Report(p) PROVE Consents'
  <2>1. UNCHANGED <<consent, store, attestation>>
    BY <1>4 DEF Attest!WriteReceipt, Attest!Subject, Attest!Report, Attest!files
  <2>2. CASE Attest!WriteReceipt(p)
    BY <2>1, <2>2, PlainMoves, ConsentsCarried DEF Stays
  <2>3. CASE Attest!Subject(p)
    BY <2>1, <2>3, SubjectMoves, FreshEmpty, ConsentsCarried DEF AttestFields
  <2>4. CASE Attest!Report(p)
    <3>1. local[p].accepted = {}
      BY <2>4 DEF Attest!Report, Attest!At, AttestTyped, WorkOf
    <3> QED BY <2>1, <2>4, <3>1, ReportMoves, ConsentsCarried DEF AttestFields
  <2> QED BY <1>4, <2>2, <2>3, <2>4
<1>5. ASSUME NEW p \in Attest!Procs, Attest!Found(p) \/ Attest!Generate(p) PROVE Consents'
  <2>1. UNCHANGED <<consent, store, attestation>>
    BY <1>5 DEF Attest!Found, Attest!Generate
  <2>2. CASE Attest!Found(p)
    BY <2>1, <2>2, FoundMoves, ConsentsCarried DEF AttestFields
  <2>3. CASE Attest!Generate(p)
    BY <2>1, <2>3, GenerateMoves, ConsentsCarried DEF AttestFields
  <2> QED BY <1>5, <2>2, <2>3
<1>6. ASSUME NEW p \in Attest!Procs, Attest!WriteKey(p) \/ Attest!WritePublic(p) \/ Attest!WriteIdentity(p) PROVE Consents'
  <2>1. UNCHANGED <<consent, store, attestation>>
    BY <1>6 DEF Attest!WriteKey, Attest!WritePublic, Attest!WriteIdentity
  <2> QED BY <1>6, <2>1, PlainMoves, ConsentsCarried DEF Stays
<1>7. ASSUME NEW p \in Attest!Procs, Attest!Sign(p) \/ Attest!Load(p) \/ Attest!Truncate(p) \/ Attest!Save(p) PROVE Consents'
  <2>1. CASE Attest!Sign(p)
    <3>1. UNCHANGED <<consent, store, attestation>>
      BY <2>1 DEF Attest!Sign, Attest!files
    <3> QED BY <2>1, <3>1, SignMoves, ConsentsCarried DEF AttestFields
  <2>2. CASE Attest!Load(p)
    <3>1. UNCHANGED <<consent, store, attestation>>
      BY <2>2 DEF Attest!Load, Attest!files
    <3>2. CASE Moved(p, "idle", Attest!Fresh)
      BY <3>1, <3>2, FreshEmpty, ConsentsCarried
    <3>3. CASE ~Moved(p, "idle", Attest!Fresh)
      <4>1. /\ AttestFields(p, "open", local[p].digest, local[p].subject, local[p].about, local[p].accepted,
                           local[p].keyid, local[p].sig, store, local[p].accepting, local[p].bundling)
            /\ AttestStored
        BY <2>2, <3>3, LoadMoves
      <4>2. AllConsent(local[p].loaded)'
        BY <3>1, <4>1 DEF AttestFields, Consents, AllConsent
      <4>3. Attest!OnlyConsented' /\ (AttestStored' => AllConsent(store)')
        BY <3>1, OnlyConsentedStays DEF Consents, AttestStored, AllConsent
      <4>4. \A q \in local'[p].accepted : <<q, local'[p].about>> \in consent'
        BY <3>1, <4>1 DEF AttestFields, Consents
      <4> QED BY <3>1, <4>1, <4>2, <4>3, <4>4, ConsentsMoved DEF AttestFields
    <3> QED BY <3>2, <3>3
  <2>3. CASE Attest!Truncate(p)
    <3>1. UNCHANGED <<consent, attestation>> /\ store' = Torn /\ Stays(p, "save")
      BY <2>3, PlainMoves DEF Attest!Truncate
    <3>2. Attest!OnlyConsented' /\ ~AttestStored'
      BY <3>1, OnlyConsentedStays DEF Consents, AttestStored
    <3>3. local'[p] = local[p]
      BY <3>1 DEF Stays, Moved
    <3>4. AllConsent(local[p].loaded)' /\ \A q \in local'[p].accepted : <<q, local'[p].about>> \in consent'
      BY <3>1, <3>3 DEF Consents, AllConsent
    <3> QED BY <3>1, <3>2, <3>4, ConsentsMoved DEF Stays
  <2>4. CASE Attest!Save(p)
    <3>1. /\ store' = Attest!Renewed(local[p].loaded, Attest!Acceptance(p)) /\ Attest!At(p, "save") /\ attestation' = attestation
          /\ consent' = consent \cup {<<p, local[p].digest>>} /\ Moved(p, "subject", Attest!Fresh)
      BY <2>4, PlainMoves DEF Attest!Save
    <3>2. \A i \in DOMAIN store' : store'[i] = Attest!Acceptance(p) \/ \E k \in DOMAIN local[p].loaded : store'[i] = local[p].loaded[k]
      BY <3>1, SavedIsAccepting, RenewedKeeps
    <3>3. AllConsent(store)'
      BY <3>1, <3>2 DEF Consents, AllConsent, Attest!Acceptance
    <3>4. Attest!OnlyConsented'
      BY <3>1, OnlyConsentedStays DEF Consents
    <3>5. local'[p].loaded = <<>> /\ local'[p].accepted = {}
      BY <3>1, FreshEmpty DEF Moved
    <3>6. AllConsent(local[p].loaded)'
      BY <3>5 DEF AllConsent
    <3> QED BY <3>1, <3>3, <3>4, <3>5, <3>6, ConsentsMoved
  <2> QED BY <1>7, <2>1, <2>2, <2>3, <2>4
<1>8. ASSUME NEW p \in Attest!Procs, Attest!Accepted(p) \/ Attest!Seal(p) \/ Attest!Bundle(p) \/ Attest!Crash(p) PROVE Consents'
  <2>1. CASE Attest!Accepted(p)
    <3>1. UNCHANGED <<consent, store, attestation>>
      BY <2>1 DEF Attest!Accepted, Attest!files
    <3>2. CASE Moved(p, "idle", Attest!Fresh)
      BY <3>1, <3>2, FreshEmpty, ConsentsCarried
    <3>3. CASE ~Moved(p, "idle", Attest!Fresh)
      <4>1. /\ AttestFields(p, "sign", local[p].digest, local[p].subject, local[p].about,
                           Attest!Counted(store, local[p].about, local[p].keyid), local[p].keyid, local[p].sig,
                           local[p].loaded, local[p].accepting, local[p].bundling)
            /\ AttestStored
        BY <2>1, <3>3, AcceptedMoves
      <4>2. \A q \in Attest!Counted(store, local[p].about, local[p].keyid) : <<q, local[p].about>> \in consent
        BY <4>1, CountedPeople DEF Consents, AllConsent, AttestTyped
      <4>3. Attest!OnlyConsented' /\ (AttestStored' => AllConsent(store)')
        BY <3>1, OnlyConsentedStays DEF Consents, AttestStored, AllConsent
      <4>4. AllConsent(local[p].loaded)'
        BY <3>1, <4>1 DEF AttestFields, Consents, AllConsent
      <4>5. \A q \in local'[p].accepted : <<q, local'[p].about>> \in consent'
        BY <3>1, <4>1, <4>2 DEF AttestFields
      <4> QED BY <3>1, <4>1, <4>3, <4>4, <4>5, ConsentsMoved DEF AttestFields
    <3> QED BY <3>2, <3>3
  <2>2. CASE Attest!Seal(p)
    <3>1. /\ UNCHANGED <<consent, store>>
          /\ attestation'.accepted = local[p].accepted /\ attestation'.about = local[p].about
      BY <2>2 DEF Attest!Seal
    <3>2. Attest!OnlyConsented'
      BY <3>1 DEF Attest!OnlyConsented, Consents
    <3>3. AttestStored' => AllConsent(store)'
      BY <3>1 DEF Consents, AttestStored, AllConsent
    <3>4. CASE Moved(p, "idle", Attest!Fresh)
      <4>1. local'[p].loaded = <<>> /\ local'[p].accepted = {}
        BY <3>4, FreshEmpty DEF Moved
      <4>2. AllConsent(local[p].loaded)'
        BY <4>1 DEF AllConsent
      <4> QED BY <3>1, <3>2, <3>3, <3>4, <4>1, <4>2, ConsentsMoved
    <3>5. CASE Stays(p, "bundle")
      <4>1. AllConsent(local[p].loaded)' /\ local'[p] = local[p]
        BY <3>1, <3>5 DEF Stays, Moved, Consents, AllConsent
      <4>2. \A q \in local'[p].accepted : <<q, local'[p].about>> \in consent'
        BY <3>1, <4>1 DEF Consents
      <4> QED BY <3>1, <3>2, <3>3, <3>5, <4>1, <4>2, ConsentsMoved DEF Stays
    <3> QED BY <2>2, <3>4, <3>5, PlainMoves
  <2>3. CASE Attest!Bundle(p) \/ Attest!Crash(p)
    <3>1. UNCHANGED <<consent, store, attestation>>
      BY <2>3 DEF Attest!Bundle, Attest!Crash, Attest!files
    <3> QED BY <2>3, <3>1, PlainMoves, FreshEmpty, ConsentsCarried
  <2> QED BY <1>8, <2>1, <2>2, <2>3
<1> QED BY <1>1, <1>2, <1>3, <1>4, <1>5, <1>6, <1>7, <1>8, AttestStepCases

LEMMA ConsentsStart == Attest!Init => Consents
<1> SUFFICES ASSUME Attest!Init PROVE Consents
  OBVIOUS
<1>1. store = <<>> /\ attestation = NoFile /\ \A p \in Attest!Procs : local[p] = Attest!Fresh
  BY DEF Attest!Init
<1> QED BY <1>1, FreshEmpty DEF Consents, AllConsent, Attest!OnlyConsented

-----------------------------------------------------------------------------
(* Acceptances are kept *)

\* A step that leaves the acceptances alone and does not begin to write them.
LEMMA KeepingCarried ==
  ASSUME Keeping, NEW p \in Attest!Procs, NEW place, NEW w, Moved(p, place, w), UNCHANGED <<consent, store>>, place \notin {"open", "save"}
  PROVE  Keeping'
<1>1. AttestStored' => Complete(store)'
  BY DEF Keeping, AttestStored, Complete, AllConsent
<1>2. ASSUME NEW q \in Attest!Procs, q # p
      PROVE  /\ phase'[q] = "open" => Complete(local[q].loaded)' /\ local'[q].loaded = store'
             /\ phase'[q] = "save" => Complete(local[q].loaded)'
  <2>1. phase'[q] = phase[q] /\ local'[q] = local[q]
    BY <1>2 DEF Moved
  <2>2. Complete(local[q].loaded) => Complete(local[q].loaded)'
    BY <2>1 DEF Complete, AllConsent
  <2> QED BY <2>1, <2>2 DEF Keeping
<1>3. phase'[p] = place
  BY DEF Moved
<1> QED BY <1>1, <1>2, <1>3 DEF Keeping

\* What is written back keeps all that was read, and adds the new acceptance.
LEMMA CompleteRenewed ==
  ASSUME Attest!AttestationAssumption, AttestTyped, NEW p \in Attest!Procs, Attest!At(p, "save"), Complete(local[p].loaded),
         consent' = consent \cup {<<p, local[p].digest>>}, store' = Attest!Renewed(local[p].loaded, Attest!Acceptance(p)),
         AllConsent(store)'
  PROVE  Complete(store)'
<1> DEFINE s == local[p].loaded
           a == Attest!Acceptance(p)
           t == Attest!Renewed(s, a)
           c == Cardinality(consent)
<1>1. a \in Accepting /\ s \in Seq(Accepting) /\ Short(s) /\ Limit \in Nat \ {0}
  BY SavedIsAccepting
<1>2. Unlike(s) /\ AllConsent(s) /\ Len(s) = Least(Limit, c)
  BY DEF Complete
<1>3. Unlike(t) /\ Len(t) = IF \E k \in DOMAIN s : Attest!Renews(a, s[k]) THEN Len(s) ELSE Least(Limit, Len(s) + 1)
  BY <1>1, <1>2, RenewedKeeps
<1>4. a.by = p /\ a.digest = local[p].digest
  BY DEF Attest!Acceptance
<1>5. /\ IsFiniteSet(consent) /\ c \in Nat
      /\ Cardinality(consent') = IF <<p, local[p].digest>> \in consent THEN c ELSE c + 1
  <2>1. IsFiniteSet(consent)
    BY DEF AttestTyped
  <2> QED BY <2>1, FS_AddElement, FS_CardinalityType
<1>6. IsFiniteSet(HeldIn(s)) /\ Cardinality(HeldIn(s)) = Len(s) /\ HeldIn(s) \subseteq consent
  <2>1. HeldIn(s) \subseteq consent
    BY <1>2 DEF HeldIn, AllConsent, Attest!ToSet
  <2> QED BY <1>1, <1>2, <2>1, HeldCounted
<1>7. (\E k \in DOMAIN s : Attest!Renews(a, s[k])) <=> <<p, local[p].digest>> \in HeldIn(s)
  BY <1>4 DEF Attest!Renews, HeldIn, Attest!ToSet
<1>8. Len(s) \in Nat
  BY <1>1
<1> HIDE DEF s, a, t, c
<1>9. Len(t) = Least(Limit, Cardinality(consent'))
  <2>1. CASE <<p, local[p].digest>> \in HeldIn(s)
    BY <1>2, <1>3, <1>5, <1>6, <1>7, <2>1
  <2>2. CASE <<p, local[p].digest>> \notin HeldIn(s) /\ <<p, local[p].digest>> \in consent
    <3>1. HeldIn(s) # consent
      BY <2>2
    <3>2. Len(s) # c
      BY <1>5, <1>6, <3>1, FS_Subset DEF c
    <3>3. Len(s) = Limit
      BY <1>2, <3>2 DEF Least
    <3> QED BY <1>1, <1>2, <1>3, <1>5, <1>7, <1>8, <2>2, <3>2, <3>3 DEF Least
  <2>3. CASE <<p, local[p].digest>> \notin consent
    <3>1. <<p, local[p].digest>> \notin HeldIn(s)
      BY <1>6, <2>3
    <3>2. Len(t) = Least(Limit, Len(s) + 1) /\ Cardinality(consent') = c + 1
      BY <1>3, <1>5, <1>7, <2>3, <3>1
    <3> QED BY <1>1, <1>2, <1>5, <1>8, <3>2 DEF Least
  <2> QED BY <2>1, <2>2, <2>3
<1> QED BY <1>3, <1>9 DEF Complete, t, s, a

LEMMA KeepingKept ==
  ASSUME Attest!AttestationAssumption, AttestTyped, Consents', Keeping, OneStoring, [Attest!Next]_Attest!vars
  PROVE  Keeping'
<1>1. CASE UNCHANGED Attest!vars
  BY <1>1 DEF Attest!vars, Attest!files, Keeping, Complete, AllConsent, AttestStored
<1>2. ASSUME NEW p \in Attest!Procs, Attest!Accept(p) \/ Attest!Attest(p) \/ Attest!Evidence(p) PROVE Keeping'
  <2>1. UNCHANGED <<consent, store>>
    BY <1>2 DEF Attest!Accept, Attest!Attest, Attest!Evidence, Attest!files
  <2>2. PICK place \in {"ensure", "subject", "receipt"} : \E w : Moved(p, place, w)
    BY <1>2, AcceptMoves, PlainMoves, EvidenceMoves DEF AttestFields
  <2> QED BY <2>1, <2>2, KeepingCarried
<1>3. ASSUME NEW p \in Attest!Procs, NEW d \in Digests, Attest!Stop(p, d) PROVE Keeping'
  <2>1. UNCHANGED <<consent, store>>
    BY <1>3 DEF Attest!Stop
  <2>2. Moved(p, "receipt", local'[p])
    BY <1>3, StopMoves DEF AttestFields
  <2> QED BY <2>1, <2>2, KeepingCarried
<1>4. ASSUME NEW p \in Attest!Procs, Attest!WriteReceipt(p) \/ Attest!Subject(p) \/ Attest!Report(p) PROVE Keeping'
  <2>1. UNCHANGED <<consent, store>>
    BY <1>4 DEF Attest!WriteReceipt, Attest!Subject, Attest!Report, Attest!files
  <2> QED BY <1>4, <2>1, PlainMoves, SubjectMoves, ReportMoves, KeepingCarried DEF AttestFields, Stays
<1>5. ASSUME NEW p \in Attest!Procs, Attest!Found(p) \/ Attest!Generate(p) PROVE Keeping'
  <2>1. UNCHANGED <<consent, store>> /\ Attest!AfterEnsure(p) \in {"sign", "accepted"}
    BY <1>5 DEF Attest!Found, Attest!Generate, Attest!AfterEnsure
  <2> QED BY <1>5, <2>1, FoundMoves, GenerateMoves, KeepingCarried DEF AttestFields
<1>6. ASSUME NEW p \in Attest!Procs, Attest!WriteKey(p) \/ Attest!WritePublic(p) \/ Attest!WriteIdentity(p) PROVE Keeping'
  <2>1. UNCHANGED <<consent, store>> /\ Attest!AfterEnsure(p) \in {"sign", "accepted"}
    BY <1>6 DEF Attest!WriteKey, Attest!WritePublic, Attest!WriteIdentity, Attest!AfterEnsure
  <2> QED BY <1>6, <2>1, PlainMoves, KeepingCarried DEF Stays
<1>7. ASSUME NEW p \in Attest!Procs, Attest!Sign(p) \/ Attest!Load(p) \/ Attest!Truncate(p) \/ Attest!Save(p) PROVE Keeping'
  <2>1. CASE Attest!Sign(p)
    <3>1. UNCHANGED <<consent, store>>
      BY <2>1 DEF Attest!Sign, Attest!files
    <3> QED BY <2>1, <3>1, SignMoves, KeepingCarried DEF AttestFields
  <2>2. CASE Attest!Load(p)
    <3>1. UNCHANGED <<consent, store>>
      BY <2>2 DEF Attest!Load, Attest!files
    <3>2. CASE Moved(p, "idle", Attest!Fresh)
      BY <3>1, <3>2, KeepingCarried
    <3>3. CASE ~Moved(p, "idle", Attest!Fresh)
      <4>1. /\ AttestFields(p, "open", local[p].digest, local[p].subject, local[p].about, local[p].accepted,
                           local[p].keyid, local[p].sig, store, local[p].accepting, local[p].bundling)
            /\ AttestStored
        BY <2>2, <3>3, LoadMoves
      <4>2. \A q \in Attest!Procs : q # p => phase'[q] = phase[q] /\ local'[q] = local[q]
        BY <4>1 DEF AttestFields, Moved
      <4>3. phase'[p] = "open" /\ local'[p].loaded = store
        BY <4>1 DEF AttestFields, Moved
      <4>4. Complete(store) /\ (\A q \in Attest!Procs : Complete(local[q].loaded) /\ q # p => Complete(local[q].loaded)')
        BY <3>1, <4>1, <4>2 DEF Keeping, Complete, AllConsent
      <4>5. Complete(store)' /\ Complete(local[p].loaded)'
        BY <3>1, <4>3, <4>4 DEF Complete, AllConsent
      <4> QED BY <3>1, <4>2, <4>3, <4>4, <4>5 DEF Keeping
    <3> QED BY <3>2, <3>3
  <2>3. CASE Attest!Truncate(p)
    <3>1. UNCHANGED consent /\ store' = Torn /\ Stays(p, "save") /\ Attest!At(p, "open")
      BY <2>3, PlainMoves DEF Attest!Truncate
    <3>2. \A q \in Attest!Procs : q # p => phase'[q] = phase[q] /\ phase[q] \notin {"open", "save"}
      BY <3>1 DEF Stays, Moved, OneStoring, Storing, Attest!At
    <3>3. local'[p] = local[p] /\ phase'[p] = "save" /\ Complete(local[p].loaded)
      BY <3>1 DEF Stays, Moved, Keeping, Attest!At
    <3>4. Complete(local[p].loaded)'
      BY <3>1, <3>3 DEF Complete, AllConsent
    <3> QED BY <3>1, <3>2, <3>3, <3>4 DEF Keeping, AttestStored
  <2>4. CASE Attest!Save(p)
    <3>1. /\ store' = Attest!Renewed(local[p].loaded, Attest!Acceptance(p)) /\ Attest!At(p, "save")
          /\ consent' = consent \cup {<<p, local[p].digest>>} /\ Moved(p, "subject", Attest!Fresh)
      BY <2>4, PlainMoves DEF Attest!Save
    <3>2. \A q \in Attest!Procs : q # p => phase'[q] = phase[q] /\ phase[q] \notin {"open", "save"}
      BY <3>1 DEF Moved, OneStoring, Storing, Attest!At
    <3>3. store' \in Seq(Accepting) /\ Torn \notin Seq(Accepting)
      BY <3>1, SavedIsAccepting, RenewedKeeps DEF Attest!AttestationAssumption, Accepting
    <3>4. AllConsent(store)'
      BY <3>3 DEF Consents, AttestStored
    <3>5. Complete(local[p].loaded)
      BY <3>1 DEF Keeping, Attest!At
    <3>6. Complete(store)'
      BY <3>1, <3>4, <3>5, CompleteRenewed
    <3>7. phase'[p] = "subject"
      BY <3>1 DEF Moved
    <3> QED BY <3>2, <3>6, <3>7 DEF Keeping
  <2> QED BY <1>7, <2>1, <2>2, <2>3, <2>4
<1>8. ASSUME NEW p \in Attest!Procs, Attest!Accepted(p) \/ Attest!Seal(p) \/ Attest!Bundle(p) \/ Attest!Crash(p) PROVE Keeping'
  <2>1. UNCHANGED <<consent, store>>
    BY <1>8 DEF Attest!Accepted, Attest!Seal, Attest!Bundle, Attest!Crash, Attest!files
  <2> QED BY <1>8, <2>1, AcceptedMoves, PlainMoves, KeepingCarried DEF AttestFields, Stays
<1> QED BY <1>1, <1>2, <1>3, <1>4, <1>5, <1>6, <1>7, <1>8, AttestStepCases

LEMMA KeepingStart == Attest!AttestationAssumption /\ Attest!Init => Keeping
<1> SUFFICES ASSUME Attest!AttestationAssumption, Attest!Init PROVE Keeping
  OBVIOUS
<1>1. store = <<>> /\ consent = {} /\ \A p \in Attest!Procs : phase[p] = "idle"
  BY DEF Attest!Init
<1>2. Cardinality(consent) = 0 /\ Limit \in Nat \ {0}
  BY <1>1, FS_EmptySet DEF Attest!AttestationAssumption
<1>3. Len(store) = Least(Limit, Cardinality(consent))
  BY <1>1, <1>2 DEF Least
<1>4. AllConsent(store) /\ Unlike(store)
  BY <1>1 DEF AllConsent, Unlike
<1> QED BY <1>1, <1>3, <1>4 DEF Keeping, Complete

-----------------------------------------------------------------------------
(* Steps of one process while the others wait *)

Others(p) == \A q \in Attest!Procs : q # p => phase[q] = "idle" /\ local[q] = Attest!Fresh

\* A process that starts finds no other under way.
LEMMA StartsAlone ==
  ASSUME AttestTyped, OneByOne, NEW p \in Attest!Procs, Attest!Starts(p)
  PROVE  Others(p) /\ phase[p] = "idle" /\ local[p] = Attest!Fresh
  BY DEF Attest!Starts, Others, Attest!At, AttestTyped, WorkOf

LEMMA BusyAlone ==
  ASSUME AttestTyped, OneBusy, NEW p \in Attest!Procs, phase[p] # "idle"
  PROVE  Others(p)
  BY DEF OneBusy, Others, AttestTyped, WorkOf

\* The others have nothing under way before a step of p, nor after it.
Lone(p) == Others(p) /\ Others(p)'
LEMMA MovedAlone ==
  ASSUME NEW p \in Attest!Procs, Others(p), NEW place, NEW w, Moved(p, place, w)
  PROVE  Lone(p)
  BY DEF Lone, Others, Moved

LEMMA LoneSteps ==
  ASSUME Attest!AttestationAssumption, AttestTyped, OneByOne, OneBusy, NEW p \in Attest!Procs,
         \/ Attest!Accept(p) \/ Attest!Attest(p) \/ Attest!Evidence(p) \/ (\E d \in Digests : Attest!Stop(p, d))
         \/ Attest!WriteReceipt(p) \/ Attest!Subject(p) \/ Attest!Report(p)
         \/ Attest!Found(p) \/ Attest!Generate(p) \/ Attest!WriteKey(p) \/ Attest!WritePublic(p) \/ Attest!WriteIdentity(p)
         \/ Attest!Sign(p) \/ Attest!Load(p) \/ Attest!Truncate(p) \/ Attest!Save(p) \/ Attest!Accepted(p)
         \/ Attest!Seal(p) \/ Attest!Bundle(p) \/ Attest!Crash(p)
  PROVE  Lone(p)
<1>1. CASE Attest!Accept(p) \/ Attest!Attest(p) \/ Attest!Evidence(p)
  <2>1. Attest!Starts(p)
    BY <1>1 DEF Attest!Accept, Attest!Attest, Attest!Evidence
  <2>2. PICK place, w : Moved(p, place, w)
    BY <1>1, AcceptMoves, PlainMoves, EvidenceMoves DEF AttestFields
  <2> QED BY <2>1, <2>2, StartsAlone, MovedAlone
<1>2. CASE \E d \in Digests : Attest!Stop(p, d)
  <2>1. PICK d \in Digests : Attest!Stop(p, d)
    BY <1>2
  <2>2. Attest!Starts(p)
    BY <2>1 DEF Attest!Stop
  <2>3. Moved(p, "receipt", local'[p])
    BY <2>1, StopMoves DEF AttestFields
  <2> QED BY <2>2, <2>3, StartsAlone, MovedAlone
<1>3. CASE Attest!WriteReceipt(p) \/ Attest!Subject(p) \/ Attest!Report(p)
  <2>1. phase[p] # "idle"
    BY <1>3 DEF Attest!WriteReceipt, Attest!Subject, Attest!Report, Attest!At
  <2>2. PICK place, w : Moved(p, place, w)
    BY <1>3, PlainMoves, SubjectMoves, ReportMoves DEF AttestFields, Stays
  <2> QED BY <2>1, <2>2, BusyAlone, MovedAlone
<1>4. CASE Attest!Found(p) \/ Attest!Generate(p)
  <2>1. phase[p] # "idle"
    BY <1>4 DEF Attest!Found, Attest!Generate, Attest!At
  <2>2. PICK place, w : Moved(p, place, w)
    BY <1>4, FoundMoves, GenerateMoves DEF AttestFields
  <2> QED BY <2>1, <2>2, BusyAlone, MovedAlone
<1>5. CASE Attest!WriteKey(p) \/ Attest!WritePublic(p) \/ Attest!WriteIdentity(p)
  <2>1. phase[p] # "idle"
    BY <1>5 DEF Attest!WriteKey, Attest!WritePublic, Attest!WriteIdentity, Attest!At
  <2>2. PICK place, w : Moved(p, place, w)
    BY <1>5, PlainMoves DEF Stays
  <2> QED BY <2>1, <2>2, BusyAlone, MovedAlone
<1>6. CASE Attest!Sign(p) \/ Attest!Load(p) \/ Attest!Accepted(p)
  <2>1. phase[p] # "idle"
    BY <1>6 DEF Attest!Sign, Attest!Load, Attest!Accepted, Attest!At
  <2>2. PICK place, w : Moved(p, place, w)
    BY <1>6, SignMoves, LoadMoves, AcceptedMoves DEF AttestFields
  <2> QED BY <2>1, <2>2, BusyAlone, MovedAlone
<1>7. CASE Attest!Truncate(p) \/ Attest!Save(p) \/ Attest!Seal(p) \/ Attest!Bundle(p) \/ Attest!Crash(p)
  <2>1. phase[p] # "idle"
    BY <1>7 DEF Attest!Truncate, Attest!Save, Attest!Seal, Attest!Bundle, Attest!Crash, Attest!At
  <2>2. PICK place, w : Moved(p, place, w)
    BY <1>7, PlainMoves DEF Stays
  <2> QED BY <2>1, <2>2, BusyAlone, MovedAlone
<1> QED BY <1>1, <1>2, <1>3, <1>4, <1>5, <1>6, <1>7

LEMMA OneBusyKept ==
  ASSUME Attest!AttestationAssumption, AttestTyped, OneByOne, OneBusy, [Attest!Next]_Attest!vars
  PROVE  OneBusy'
<1>1. CASE UNCHANGED Attest!vars
  BY <1>1 DEF Attest!vars, OneBusy
<1>2. CASE Attest!Next
  <2>1. PICK p \in Attest!Procs : Attest!Step(p)
    BY <1>2 DEF Attest!Next
  <2>2. Lone(p)
    BY <2>1, LoneSteps DEF Attest!Step
  <2> QED BY <2>2 DEF Lone, Others, OneBusy
<1> QED BY <1>1, <1>2

-----------------------------------------------------------------------------
(* One identity *)

LEMMA KeysMoved ==
  ASSUME Attest!AttestationAssumption, NEW p \in Attest!Procs, Lone(p), KeyFiles', KeyWork(p)'
  PROVE  Keys'
<1>1. ASSUME NEW q \in Attest!Procs, q # p PROVE KeyWork(q)'
  <2>1. phase'[q] = "idle" /\ local'[q] = Attest!Fresh
    BY <1>1 DEF Lone, Others
  <2> QED BY <2>1, FreshEmpty DEF KeyWork, SignedBy
<1> QED BY <1>1 DEF Keys

\* Steps of a process that leave the keys, the acceptances and the attestation alone.
KeyFilesStay == UNCHANGED <<key, identity, store, attestation>>
LEMMA KeyFilesCarried == KeyFiles /\ KeyFilesStay => KeyFiles'
  BY DEF KeyFiles, KeyFilesStay, AttestStored, SignedBy

LEMMA KeysStart ==
  ASSUME Attest!AttestationAssumption, AttestTyped, OneByOne, OneBusy, Keys, NEW p \in Attest!Procs,
         \/ Attest!Accept(p) \/ Attest!Attest(p) \/ Attest!Evidence(p) \/ (\E d \in Digests : Attest!Stop(p, d))
  PROVE  Keys'
<1>1. Lone(p)
  BY LoneSteps
<1>2. KeyFilesStay
  BY DEF Attest!Accept, Attest!Attest, Attest!Evidence, Attest!Stop, Attest!files, KeyFilesStay
<1>3. phase'[p] \in {"ensure", "subject", "receipt"} /\ local'[p].loaded = <<>>
  <2>1. CASE Attest!Accept(p)
    BY <2>1, AcceptMoves DEF AttestFields, Moved
  <2>2. CASE Attest!Attest(p)
    BY <2>2, PlainMoves, FreshEmpty DEF Moved
  <2>3. CASE Attest!Evidence(p)
    BY <2>3, EvidenceMoves DEF AttestFields, Moved
  <2>4. ASSUME NEW d \in Digests, Attest!Stop(p, d) PROVE phase'[p] \in {"ensure", "subject", "receipt"} /\ local'[p].loaded = <<>>
    BY <2>4, StopMoves DEF AttestFields, Moved
  <2> QED BY <2>1, <2>2, <2>3, <2>4
<1>4. KeyWork(p)'
  BY <1>3 DEF KeyWork, SignedBy
<1> QED BY <1>1, <1>2, <1>4, KeyFilesCarried, KeysMoved DEF Keys

\* A process that goes on with what it had loaded, or ends.
LEMMA KeysGoOn ==
  ASSUME Attest!AttestationAssumption, AttestTyped, OneByOne, OneBusy, Keys, NEW p \in Attest!Procs, NEW place, NEW w, Moved(p, place, w),
         Lone(p), KeyFilesStay, place \in {"idle", "subject", "report", "ensure", "bundle"},
         w.loaded = local[p].loaded \/ w.loaded = <<>>
  PROVE  Keys'
<1>1. KeyWork(p)'
  <2>1. phase'[p] = place /\ local'[p] = w /\ identity' = identity
    BY DEF Moved, KeyFilesStay
  <2>2. SignedBy(local[p].loaded, identity) /\ (local[p].loaded # <<>> => identity # 0)
    BY DEF Keys, KeyWork
  <2> QED BY <2>1, <2>2 DEF KeyWork, SignedBy
<1> QED BY <1>1, KeyFilesCarried, KeysMoved DEF Keys

LEMMA KeysIdentity ==
  ASSUME Attest!AttestationAssumption, AttestTyped, OneByOne, OneBusy, Keys, NEW p \in Attest!Procs,
         Attest!Found(p) \/ Attest!Generate(p) \/ Attest!WriteKey(p) \/ Attest!WritePublic(p) \/ Attest!WriteIdentity(p)
  PROVE  Keys'
<1>0. Lone(p) /\ KeyWork(p) /\ KeyFiles /\ WorkOf(p)
  BY LoneSteps DEF Keys, AttestTyped
<1>a. Attest!AfterEnsure(p) \in {"sign", "accepted"}
  BY DEF Attest!AfterEnsure
<1>1. CASE Attest!Found(p)
  <2>1. KeyFilesStay /\ identity # 0
    BY <1>1 DEF Attest!Found, KeyFilesStay
  <2>2. phase'[p] = Attest!AfterEnsure(p) /\ local'[p].keyid = identity /\ local'[p].loaded = local[p].loaded
    BY <1>1, FoundMoves DEF AttestFields, Moved
  <2>3. KeyWork(p)'
    BY <1>0, <1>a, <2>1, <2>2 DEF KeyWork, KeyFilesStay, HasIdentity, SignedBy
  <2> QED BY <1>0, <2>1, <2>3, KeyFilesCarried, KeysMoved
<1>2. CASE Attest!Generate(p)
  <2>1. KeyFilesStay /\ identity = 0
    BY <1>0, <1>2 DEF Attest!Generate, KeyFilesStay, KeyFiles
  <2>2. phase'[p] = "key" /\ local'[p].loaded = local[p].loaded
    BY <1>2, GenerateMoves DEF AttestFields, Moved
  <2>3. KeyWork(p)'
    BY <1>0, <2>1, <2>2 DEF KeyWork, KeyFilesStay, SignedBy
  <2> QED BY <1>0, <2>1, <2>3, KeyFilesCarried, KeysMoved
<1>3. CASE Attest!WriteKey(p)
  <2>1. /\ UNCHANGED <<identity, store, attestation>> /\ identity = 0 /\ key' = local[p].keyid
        /\ phase'[p] = "public" /\ local'[p] = local[p]
    BY <1>0, <1>3, PlainMoves DEF Attest!WriteKey, Attest!NewKey, Attest!At, KeyWork, Stays, Moved
  <2>2. KeyFiles'
    BY <1>0, <2>1 DEF KeyFiles, AttestStored, SignedBy
  <2>3. KeyWork(p)'
    BY <1>0, <2>1 DEF KeyWork, SignedBy
  <2> QED BY <1>0, <2>2, <2>3, KeysMoved
<1>4. CASE Attest!WritePublic(p)
  <2>1. KeyFilesStay /\ identity = 0 /\ key = local[p].keyid /\ phase'[p] = "identity" /\ local'[p] = local[p]
    BY <1>0, <1>4, PlainMoves DEF Attest!WritePublic, Attest!At, KeyWork, KeyFilesStay, Stays, Moved
  <2>2. KeyWork(p)'
    BY <1>0, <2>1 DEF KeyWork, KeyFilesStay, SignedBy
  <2> QED BY <1>0, <2>1, <2>2, KeyFilesCarried, KeysMoved
<1>5. CASE Attest!WriteIdentity(p)
  <2>1. /\ UNCHANGED <<key, store, attestation>> /\ identity = 0 /\ key = local[p].keyid /\ identity' = key
        /\ phase'[p] = Attest!AfterEnsure(p) /\ local'[p] = local[p]
    BY <1>0, <1>5, PlainMoves DEF Attest!WriteIdentity, Attest!At, KeyWork, Stays, Moved
  <2>2. identity' # 0
    <3>1. local[p].keyid \in 1 .. pairs /\ pairs \in Nat
      BY <1>0, <1>5 DEF Attest!WriteIdentity, Attest!At, WorkOf, AttestTyped
    <3> QED BY <2>1, <3>1
  <2>3. local[p].loaded = <<>> /\ (AttestStored => store = <<>>)
    BY <1>0, <2>1 DEF KeyWork, KeyFiles
  <2>4. KeyFiles'
    BY <1>0, <2>1, <2>3 DEF KeyFiles, AttestStored, SignedBy
  <2>5. KeyWork(p)'
    BY <1>a, <2>1, <2>2, <2>3 DEF KeyWork, SignedBy, HasIdentity
  <2> QED BY <1>0, <2>4, <2>5, KeysMoved
<1> QED BY <1>1, <1>2, <1>3, <1>4, <1>5

LEMMA KeysAccepts ==
  ASSUME Attest!AttestationAssumption, AttestTyped, OneByOne, OneBusy, Keys, NEW p \in Attest!Procs,
         Attest!Sign(p) \/ Attest!Load(p) \/ Attest!Truncate(p) \/ Attest!Save(p)
  PROVE  Keys'
<1>0. Lone(p) /\ KeyWork(p) /\ KeyFiles /\ WorkOf(p)
  BY LoneSteps DEF Keys, AttestTyped
<1>1. CASE Attest!Sign(p)
  <2>1. KeyFilesStay /\ HasIdentity(p) /\ key = identity
    BY <1>0, <1>1 DEF Attest!Sign, Attest!At, Attest!files, KeyFilesStay, KeyWork, KeyFiles, HasIdentity
  <2>2. /\ phase'[p] \in {"load", "seal"} /\ local'[p].loaded = local[p].loaded
        /\ local'[p].keyid = local[p].keyid /\ local'[p].sig = key
    BY <1>1, SignMoves DEF AttestFields, Moved
  <2>3. KeyWork(p)'
    BY <1>0, <2>1, <2>2 DEF KeyWork, KeyFilesStay, HasIdentity, SignedBy
  <2> QED BY <1>0, <2>1, <2>3, KeyFilesCarried, KeysMoved
<1>2. CASE Attest!Load(p)
  <2>1. KeyFilesStay /\ Attest!At(p, "load")
    BY <1>2 DEF Attest!Load, Attest!files, KeyFilesStay
  <2>2. CASE Moved(p, "idle", Attest!Fresh)
    BY <1>0, <2>1, <2>2, FreshEmpty, KeysGoOn
  <2>3. CASE ~Moved(p, "idle", Attest!Fresh)
    <3>1. /\ AttestFields(p, "open", local[p].digest, local[p].subject, local[p].about, local[p].accepted,
                         local[p].keyid, local[p].sig, store, local[p].accepting, local[p].bundling)
          /\ AttestStored
      BY <1>2, <2>3, LoadMoves
    <3>2. /\ phase'[p] = "open" /\ local'[p].loaded = store
          /\ local'[p].keyid = local[p].keyid /\ local'[p].sig = local[p].sig
      BY <3>1 DEF AttestFields, Moved
    <3>3. KeyWork(p)'
      BY <1>0, <2>1, <3>1, <3>2 DEF KeyWork, KeyFiles, KeyFilesStay, HasIdentity, SignedBy, Attest!At
    <3> QED BY <1>0, <2>1, <3>3, KeyFilesCarried, KeysMoved
  <2> QED BY <2>2, <2>3
<1>3. CASE Attest!Truncate(p)
  <2>1. UNCHANGED <<key, identity, attestation>> /\ store' = Torn /\ Attest!At(p, "open") /\ phase'[p] = "save" /\ local'[p] = local[p]
    BY <1>3, PlainMoves DEF Attest!Truncate, Stays, Moved
  <2>2. KeyFiles'
    BY <1>0, <2>1 DEF KeyFiles, AttestStored
  <2>3. KeyWork(p)'
    BY <1>0, <2>1 DEF KeyWork, SignedBy, HasIdentity, Attest!At
  <2> QED BY <1>0, <2>2, <2>3, KeysMoved
<1>4. CASE Attest!Save(p)
  <2>1. /\ UNCHANGED <<key, identity, attestation>> /\ store' = Attest!Renewed(local[p].loaded, Attest!Acceptance(p)) /\ Attest!At(p, "save")
        /\ phase'[p] = "subject" /\ local'[p].loaded = <<>>
    BY <1>4, PlainMoves, FreshEmpty DEF Attest!Save, Moved
  <2>2. HasIdentity(p) /\ local[p].sig = identity /\ SignedBy(local[p].loaded, identity)
    BY <1>0, <2>1 DEF KeyWork, Attest!At
  <2>3. \A i \in DOMAIN store' : store'[i] = Attest!Acceptance(p) \/ \E k \in DOMAIN local[p].loaded : store'[i] = local[p].loaded[k]
    BY <2>1, SavedIsAccepting, RenewedKeeps
  <2>4. \A i \in DOMAIN store' : store'[i].sig = identity /\ store'[i].keyid = identity
    BY <2>2, <2>3 DEF SignedBy, HasIdentity, Attest!Acceptance
  <2>5. KeyFiles'
    BY <1>0, <2>1, <2>2, <2>4 DEF KeyFiles, SignedBy, HasIdentity
  <2>6. KeyWork(p)'
    BY <2>1 DEF KeyWork, SignedBy
  <2> QED BY <1>0, <2>5, <2>6, KeysMoved
<1> QED BY <1>1, <1>2, <1>3, <1>4

LEMMA KeysSeals ==
  ASSUME Attest!AttestationAssumption, AttestTyped, OneByOne, OneBusy, Keys, NEW p \in Attest!Procs,
         Attest!Accepted(p) \/ Attest!Seal(p) \/ Attest!Bundle(p) \/ Attest!Crash(p)
  PROVE  Keys'
<1>0. Lone(p) /\ KeyWork(p) /\ KeyFiles /\ WorkOf(p)
  BY LoneSteps DEF Keys, AttestTyped
<1>1. CASE Attest!Accepted(p)
  <2>1. KeyFilesStay /\ Attest!At(p, "accepted")
    BY <1>1 DEF Attest!Accepted, Attest!files, KeyFilesStay
  <2>2. CASE Moved(p, "idle", Attest!Fresh)
    BY <1>0, <2>1, <2>2, FreshEmpty, KeysGoOn
  <2>3. CASE ~Moved(p, "idle", Attest!Fresh)
    <3>1. /\ phase'[p] = "sign" /\ local'[p].loaded = local[p].loaded
          /\ local'[p].keyid = local[p].keyid /\ local'[p].sig = local[p].sig
      BY <1>1, <2>3, AcceptedMoves DEF AttestFields, Moved
    <3>2. KeyWork(p)'
      BY <1>0, <2>1, <3>1 DEF KeyWork, KeyFilesStay, HasIdentity, SignedBy, Attest!At
    <3> QED BY <1>0, <2>1, <3>2, KeyFilesCarried, KeysMoved
  <2> QED BY <2>2, <2>3
<1>2. CASE Attest!Seal(p)
  <2>1. /\ UNCHANGED <<key, identity, store>> /\ Attest!At(p, "seal")
        /\ attestation'.sig = local[p].sig /\ attestation'.keyid = identity
    BY <1>2 DEF Attest!Seal
  <2>2. /\ phase'[p] \in {"bundle", "idle"} /\ (local'[p] = local[p] \/ local'[p].loaded = <<>>)
    BY <1>2, PlainMoves, FreshEmpty DEF Stays, Moved
  <2>3. KeyFiles'
    BY <1>0, <2>1 DEF KeyFiles, KeyWork, AttestStored, SignedBy, Attest!At
  <2>4. KeyWork(p)'
    BY <1>0, <2>1, <2>2 DEF KeyWork, SignedBy
  <2> QED BY <1>0, <2>3, <2>4, KeysMoved
<1>3. CASE Attest!Bundle(p) \/ Attest!Crash(p)
  <2>1. KeyFilesStay
    BY <1>3 DEF Attest!Bundle, Attest!Crash, Attest!files, KeyFilesStay
  <2> QED BY <1>0, <1>3, <2>1, PlainMoves, FreshEmpty, KeysGoOn
<1> QED BY <1>1, <1>2, <1>3

LEMMA KeysKept ==
  ASSUME Attest!AttestationAssumption, AttestTyped, OneByOne, OneBusy, Keys, [Attest!Next]_Attest!vars
  PROVE  Keys'
<1>1. CASE UNCHANGED Attest!vars
  BY <1>1 DEF Attest!vars, Attest!files, Keys, KeyFiles, KeyWork, SignedBy, HasIdentity, AttestStored
<1>2. ASSUME NEW p \in Attest!Procs, Attest!WriteReceipt(p) \/ Attest!Subject(p) \/ Attest!Report(p) PROVE Keys'
  <2>1. KeyFilesStay /\ Lone(p)
    BY <1>2, LoneSteps DEF Attest!WriteReceipt, Attest!Subject, Attest!Report, Attest!files, KeyFilesStay
  <2>2. CASE Attest!WriteReceipt(p)
    BY <2>1, <2>2, PlainMoves, KeysGoOn DEF Stays
  <2>3. CASE Attest!Subject(p)
    BY <2>1, <2>3, SubjectMoves, FreshEmpty, KeysGoOn DEF AttestFields
  <2>4. CASE Attest!Report(p)
    BY <2>1, <2>4, ReportMoves, KeysGoOn DEF AttestFields
  <2> QED BY <1>2, <2>2, <2>3, <2>4
<1> QED BY <1>1, <1>2, AttestStepCases, KeysStart, KeysIdentity, KeysAccepts, KeysSeals

LEMMA KeysBegin == Attest!Init => Keys
<1> SUFFICES ASSUME Attest!Init PROVE Keys
  OBVIOUS
<1>1. /\ store = <<>> /\ attestation = NoFile /\ key = identity
      /\ \A p \in Attest!Procs : phase[p] = "idle" /\ local[p] = Attest!Fresh
  BY DEF Attest!Init
<1> QED BY <1>1, FreshEmpty DEF Keys, KeyFiles, KeyWork, SignedBy

-----------------------------------------------------------------------------
(* One change *)

LEMMA ChangesMoved ==
  ASSUME NEW p \in Attest!Procs, Lone(p), Attest!OneChange', ChangeWork(p)'
  PROVE  AttestChanges'
<1>1. ASSUME NEW q \in Attest!Procs, q # p PROVE ChangeWork(q)'
  <2>1. phase'[q] = "idle"
    BY <1>1 DEF Lone, Others
  <2> QED BY <2>1 DEF ChangeWork, AttestChanged
<1> QED BY <1>1 DEF AttestChanges

\* A process that ends, or starts on nothing, is about no change yet.
LEMMA ChangesPlain ==
  ASSUME AttestChanges, NEW p \in Attest!Procs, Lone(p), NEW place \in {"idle", "subject"}, Moved(p, place, Attest!Fresh), Attest!OneChange'
  PROVE  AttestChanges'
<1>1. phase'[p] = place /\ local'[p].bundling = FALSE
  BY FreshEmpty DEF Moved
<1> QED BY <1>1, ChangesMoved DEF ChangeWork, AttestChanged

OneChangeStays == UNCHANGED <<receipt, attestation, bundle>>
LEMMA OneChangeCarried == AttestChanges /\ OneChangeStays => Attest!OneChange'
  BY DEF AttestChanges, Attest!OneChange, OneChangeStays

\* A process that goes on with the change it is about.
LEMMA ChangesGoOn ==
  ASSUME AttestChanges, NEW p \in Attest!Procs, Lone(p), Attest!OneChange', receipt' = receipt, phase[p] \notin {"idle", "receipt"},
         phase'[p] # "report", AttestChanged(p)' => AttestChanged(p),
         local'[p].digest = local[p].digest, local'[p].subject = local[p].subject,
         local'[p].about = local[p].about, local'[p].bundling = local[p].bundling
  PROVE  AttestChanges'
<1>1. ChangeWork(p)
  BY DEF AttestChanges
<1>2. ChangeWork(p)'
  BY <1>1 DEF ChangeWork
<1> QED BY <1>2, ChangesMoved

LEMMA ChangesStart ==
  ASSUME Attest!AttestationAssumption, AttestTyped, OneByOne, OneBusy, AttestChanges, NEW p \in Attest!Procs,
         \/ Attest!Accept(p) \/ Attest!Attest(p) \/ Attest!Evidence(p) \/ (\E d \in Digests : Attest!Stop(p, d))
  PROVE  AttestChanges'
<1>1. Lone(p)
  BY LoneSteps
<1>2. Attest!OneChange'
  BY OneChangeCarried DEF Attest!Accept, Attest!Attest, Attest!Evidence, Attest!Stop, Attest!files, OneChangeStays
<1>3. CASE Attest!Accept(p)
  <2>1. phase'[p] = "ensure" /\ local'[p].accepting = TRUE /\ local'[p].bundling = FALSE
    BY <1>3, AcceptMoves DEF AttestFields, Moved
  <2> QED BY <1>1, <1>2, <2>1, ChangesMoved DEF ChangeWork, AttestChanged
<1>4. CASE Attest!Attest(p)
  BY <1>1, <1>2, <1>4, PlainMoves, ChangesPlain
<1>5. CASE Attest!Evidence(p) \/ \E d \in Digests : Attest!Stop(p, d)
  <2>1. phase'[p] = "receipt"
    BY <1>5, EvidenceMoves, StopMoves DEF AttestFields, Moved
  <2> QED BY <1>1, <1>2, <2>1, ChangesMoved DEF ChangeWork, AttestChanged
<1> QED BY <1>3, <1>4, <1>5

LEMMA ChangesReads ==
  ASSUME Attest!AttestationAssumption, AttestTyped, OneByOne, OneBusy, AttestChanges, NEW p \in Attest!Procs,
         Attest!WriteReceipt(p) \/ Attest!Subject(p) \/ Attest!Report(p)
  PROVE  AttestChanges'
<1>1. Lone(p) /\ WorkOf(p) /\ ChangeWork(p)
  BY LoneSteps DEF AttestTyped, AttestChanges
<1>2. Attest!OneChange'
  BY DEF Attest!WriteReceipt, Attest!Subject, Attest!Report, Attest!files, AttestChanges, Attest!OneChange
<1>3. CASE Attest!WriteReceipt(p)
  <2>1. phase'[p] = "subject" /\ local'[p] = local[p] /\ receipt' = local[p].digest
    BY <1>3, PlainMoves DEF Attest!WriteReceipt, Stays, Moved
  <2> QED BY <1>1, <1>2, <2>1, ChangesMoved DEF ChangeWork, AttestChanged
<1>4. CASE Attest!Subject(p)
  <2>1. CASE Moved(p, "idle", Attest!Fresh)
    BY <1>1, <1>2, <2>1, ChangesPlain
  <2>2. CASE ~Moved(p, "idle", Attest!Fresh)
    <3>1. /\ phase'[p] = "report" /\ local'[p].subject = receipt /\ receipt # NoDigest /\ receipt' = receipt
          /\ local'[p].digest = local[p].digest /\ local'[p].bundling = local[p].bundling /\ phase[p] = "subject"
      BY <1>4, <2>2, SubjectMoves DEF AttestFields, Moved, Attest!Subject, Attest!At, Attest!files
    <3> QED BY <1>1, <1>2, <3>1, ChangesMoved DEF ChangeWork, AttestChanged
  <2> QED BY <2>1, <2>2
<1>5. CASE Attest!Report(p)
  <2>1. /\ phase'[p] = "ensure" /\ local'[p].subject = local[p].subject /\ local'[p].about = receipt
        /\ local'[p].digest = local[p].digest /\ local'[p].bundling = local[p].bundling /\ phase[p] = "report"
        /\ receipt' = receipt
    BY <1>5, ReportMoves DEF AttestFields, Moved, Attest!Report, Attest!At, Attest!files
  <2> QED BY <1>1, <1>2, <2>1, ChangesMoved DEF ChangeWork, AttestChanged
<1> QED BY <1>3, <1>4, <1>5

LEMMA ChangesIdentity ==
  ASSUME Attest!AttestationAssumption, AttestTyped, OneByOne, OneBusy, AttestChanges, NEW p \in Attest!Procs,
         Attest!Found(p) \/ Attest!Generate(p) \/ Attest!WriteKey(p) \/ Attest!WritePublic(p) \/ Attest!WriteIdentity(p)
  PROVE  AttestChanges'
<1>1. Lone(p)
  BY LoneSteps
<1>2. Attest!OneChange' /\ receipt' = receipt
  BY DEF Attest!Found, Attest!Generate, Attest!WriteKey, Attest!WritePublic, Attest!WriteIdentity, AttestChanges, Attest!OneChange
<1>3. phase[p] \in {"ensure", "key", "public", "identity"}
  BY DEF Attest!Found, Attest!Generate, Attest!WriteKey, Attest!WritePublic, Attest!WriteIdentity, Attest!At
<1>4. phase'[p] # "report" /\ local'[p].digest = local[p].digest /\ local'[p].subject = local[p].subject
      /\ local'[p].about = local[p].about /\ local'[p].bundling = local[p].bundling /\ local'[p].accepting = local[p].accepting
  <2>1. CASE Attest!Found(p)
    BY <2>1, FoundMoves DEF AttestFields, Moved, Attest!AfterEnsure
  <2>2. CASE Attest!Generate(p)
    BY <2>2, GenerateMoves DEF AttestFields, Moved
  <2>3. CASE Attest!WriteKey(p) \/ Attest!WritePublic(p) \/ Attest!WriteIdentity(p)
    BY <2>3, PlainMoves DEF Stays, Moved, Attest!AfterEnsure
  <2> QED BY <2>1, <2>2, <2>3
<1> QED BY <1>1, <1>2, <1>3, <1>4, ChangesGoOn DEF AttestChanged

LEMMA ChangesAccepts ==
  ASSUME Attest!AttestationAssumption, AttestTyped, OneByOne, OneBusy, AttestChanges, NEW p \in Attest!Procs,
         Attest!Sign(p) \/ Attest!Load(p) \/ Attest!Truncate(p) \/ Attest!Save(p) \/ Attest!Accepted(p)
  PROVE  AttestChanges'
<1>1. Lone(p) /\ WorkOf(p)
  BY LoneSteps DEF AttestTyped
<1>2. Attest!OneChange' /\ receipt' = receipt
  BY DEF Attest!Sign, Attest!Load, Attest!Truncate, Attest!Save, Attest!Accepted, Attest!files, AttestChanges, Attest!OneChange
<1>3. CASE Attest!Sign(p)
  <2>1. /\ phase[p] = "sign" /\ phase'[p] \in {"load", "seal"}
        /\ local'[p].digest = local[p].digest /\ local'[p].subject = local[p].subject
        /\ local'[p].about = local[p].about /\ local'[p].bundling = local[p].bundling /\ local'[p].accepting = local[p].accepting
    BY <1>3, SignMoves DEF AttestFields, Moved, Attest!Sign, Attest!At
  <2> QED BY <1>1, <1>2, <2>1, ChangesGoOn DEF AttestChanged
<1>4. CASE Attest!Load(p) \/ Attest!Accepted(p)
  <2>1. CASE Moved(p, "idle", Attest!Fresh)
    BY <1>1, <1>2, <2>1, ChangesPlain
  <2>2. CASE ~Moved(p, "idle", Attest!Fresh)
    <3>1. /\ (phase[p] = "load" /\ phase'[p] = "open") \/ (phase[p] = "accepted" /\ phase'[p] = "sign")
          /\ local'[p].digest = local[p].digest /\ local'[p].subject = local[p].subject
          /\ local'[p].about = local[p].about /\ local'[p].bundling = local[p].bundling /\ local'[p].accepting = local[p].accepting
      BY <1>4, <2>2, LoadMoves, AcceptedMoves DEF AttestFields, Moved, Attest!Load, Attest!Accepted, Attest!At
    <3> QED BY <1>1, <1>2, <3>1, ChangesGoOn DEF AttestChanged
  <2> QED BY <2>1, <2>2
<1>5. CASE Attest!Truncate(p)
  <2>1. phase[p] = "open" /\ phase'[p] = "save" /\ local'[p] = local[p]
    BY <1>5, PlainMoves DEF Stays, Moved, Attest!Truncate, Attest!At
  <2> QED BY <1>1, <1>2, <2>1, ChangesGoOn DEF AttestChanged
<1>6. CASE Attest!Save(p)
  BY <1>1, <1>2, <1>6, PlainMoves, ChangesPlain
<1> QED BY <1>3, <1>4, <1>5, <1>6

LEMMA ChangesSeals ==
  ASSUME Attest!AttestationAssumption, AttestTyped, OneByOne, OneBusy, AttestChanges, NEW p \in Attest!Procs, Attest!Seal(p) \/ Attest!Bundle(p) \/ Attest!Crash(p)
  PROVE  AttestChanges'
<1>1. Lone(p) /\ WorkOf(p) /\ ChangeWork(p) /\ Attest!OneChange
  BY LoneSteps DEF AttestTyped, AttestChanges
<1>2. receipt' = receipt
  BY DEF Attest!Seal, Attest!Bundle, Attest!Crash, Attest!files
<1>3. CASE Attest!Seal(p)
  <2>1. /\ phase[p] = "seal" /\ bundle' = bundle
        /\ attestation'.about = local[p].about /\ attestation'.subject = local[p].subject
    BY <1>3 DEF Attest!Seal, Attest!At
  <2>2. Attest!OneChange'
    BY <1>1, <2>1 DEF Attest!OneChange, ChangeWork, AttestChanged, WorkOf
  <2>3. CASE local[p].bundling
    <3>1. phase'[p] = "bundle" /\ local'[p] = local[p]
      BY <1>3, <2>3, PlainMoves DEF Stays, Moved
    <3> QED BY <1>1, <1>2, <2>1, <2>2, <3>1, ChangesGoOn DEF AttestChanged
  <2>4. CASE ~local[p].bundling
    BY <1>1, <1>3, <2>2, <2>4, PlainMoves, ChangesPlain
  <2> QED BY <2>3, <2>4
<1>4. CASE Attest!Bundle(p)
  <2>1. phase[p] = "bundle" /\ attestation' = attestation
    BY <1>4 DEF Attest!Bundle, Attest!At
  <2>2. bundle' = bundle \/ (bundle'.receipt = local[p].digest /\ bundle'.subject = local[p].subject /\ bundle'.about = receipt)
    BY <1>4 DEF Attest!Bundle
  <2>3. Attest!OneChange'
    BY <1>1, <2>1, <2>2 DEF Attest!OneChange, ChangeWork, AttestChanged, WorkOf
  <2> QED BY <1>1, <1>4, <2>3, PlainMoves, ChangesPlain
<1>5. CASE Attest!Crash(p)
  <2>1. Attest!OneChange'
    BY <1>5 DEF Attest!Crash, Attest!files, AttestChanges, Attest!OneChange
  <2> QED BY <1>1, <1>5, <2>1, PlainMoves, ChangesPlain
<1> QED BY <1>3, <1>4, <1>5

LEMMA ChangesKept ==
  ASSUME Attest!AttestationAssumption, AttestTyped, OneByOne, OneBusy, AttestChanges, [Attest!Next]_Attest!vars
  PROVE  AttestChanges'
<1>1. CASE UNCHANGED Attest!vars
  BY <1>1 DEF Attest!vars, Attest!files, AttestChanges, Attest!OneChange, ChangeWork, AttestChanged
<1> QED BY <1>1, AttestStepCases, ChangesStart, ChangesReads, ChangesIdentity, ChangesAccepts, ChangesSeals

LEMMA ChangesBegin == Attest!Init => AttestChanges
  BY DEF Attest!Init, AttestChanges, Attest!OneChange, ChangeWork, AttestChanged

-----------------------------------------------------------------------------
(* The attestation is that of the last change *)

LEMMA UpMine ==
  ASSUME UpToDate, NEW p \in Attest!Procs, Lone(p)
  PROVE  UpFiles(p) /\ UpWork(p)
<1>1. PICK q \in Attest!Procs : UpFiles(q)
  BY DEF UpToDate
<1>2. UpFiles(p)
  <2>1. CASE q # p
    <3>1. phase[q] = "idle"
      BY <2>1 DEF Lone, Others
    <3>2. ~Reports(q)
      BY <3>1 DEF Reports, AttestChanged
    <3> QED BY <1>1, <3>1, <3>2 DEF UpFiles
  <2> QED BY <1>1, <2>1
<1> QED BY <1>2 DEF UpToDate

LEMMA UpMoved ==
  ASSUME NEW p \in Attest!Procs, Lone(p), UpFiles(p)', UpWork(p)'
  PROVE  UpToDate'
<1>1. ASSUME NEW q \in Attest!Procs, q # p PROVE UpWork(q)'
  <2>1. phase'[q] = "idle"
    BY <1>1 DEF Lone, Others
  <2> QED BY <2>1 DEF UpWork
<1> QED BY <1>1 DEF UpToDate

\* A process that goes on under the same files.
LEMMA UpGoOn ==
  ASSUME NEW p \in Attest!Procs, Lone(p), UpFiles(p), UNCHANGED <<latest, receipt, store, attestation, consent>>,
         phase[p] # "save", Reports(p) => Reports(p)', UpWork(p)'
  PROVE  UpToDate'
<1>1. UpFiles(p)'
  BY DEF UpFiles, AttestStored, Current, Consenting
<1> QED BY <1>1, UpMoved

\* The people a report names, when it is complete.
LEMMA AllNamed ==
  ASSUME Attest!AttestationAssumption, AttestTyped, Keeping, Few, AttestStored, NEW k, SignedBy(store, k)
  PROVE  Attest!Counted(store, receipt, k) = Consenting
<1>1. store \in Seq(Accepting) /\ Complete(store) /\ IsFiniteSet(consent) /\ Limit \in Nat
  BY DEF AttestTyped, Keeping, Attest!AttestationAssumption
<1>2. IsFiniteSet(HeldIn(store)) /\ Cardinality(HeldIn(store)) = Len(store)
  BY <1>1, HeldCounted DEF Complete
<1>3. Cardinality(consent) \in Nat
  BY <1>1, FS_CardinalityType
<1>4. Len(store) = Cardinality(consent)
  BY <1>1, <1>3 DEF Complete, Least, Few
<1>5. HeldIn(store) \subseteq consent
  BY <1>1 DEF Complete, AllConsent, HeldIn, Attest!ToSet
<1>6. HeldIn(store) = consent
  BY <1>1, <1>2, <1>4, <1>5, FS_Subset
<1>7. consent \in SUBSET (People \X Digests)
  BY DEF AttestTyped
<1>8. ASSUME NEW q PROVE q \in Attest!Counted(store, receipt, k) <=> q \in Consenting
  <2>1. q \in Attest!Counted(store, receipt, k) <=>
          \E i \in DOMAIN store : store[i].by = q /\ store[i].digest = receipt
    BY <1>1, CountedPeople DEF SignedBy
  <2>2. <<q, receipt>> \in HeldIn(store) <=> \E i \in DOMAIN store : store[i].by = q /\ store[i].digest = receipt
    BY DEF HeldIn, Attest!ToSet
  <2>3. q \in Consenting <=> <<q, receipt>> \in consent
    BY <1>7 DEF Consenting
  <2> QED BY <1>6, <2>1, <2>2, <2>3
<1> QED BY <1>8

LEMMA UpStart ==
  ASSUME Attest!AttestationAssumption, AttestTyped, OneByOne, OneBusy, UpToDate, NEW p \in Attest!Procs,
         \/ Attest!Accept(p) \/ Attest!Attest(p) \/ Attest!Evidence(p) \/ (\E d \in Digests : Attest!Stop(p, d))
  PROVE  UpToDate'
<1>1. Lone(p) /\ UpFiles(p) /\ phase[p] = "idle"
  BY LoneSteps, UpMine DEF Attest!Accept, Attest!Attest, Attest!Evidence, Attest!Stop, Attest!Starts, Attest!At
<1>2. UNCHANGED <<receipt, store, attestation, consent>>
  BY DEF Attest!Accept, Attest!Attest, Attest!Evidence, Attest!Stop, Attest!files
<1>3. ~Reports(p)
  BY <1>1 DEF Reports, AttestChanged
<1>4. CASE Attest!Accept(p)
  <2>1. phase'[p] = "ensure" /\ latest' = latest
    BY <1>4, AcceptMoves DEF AttestFields, Moved, Attest!Accept, Attest!files
  <2> QED BY <1>1, <1>2, <1>3, <2>1, UpGoOn DEF UpWork
<1>5. CASE Attest!Attest(p)
  <2>1. phase'[p] = "subject" /\ latest' = latest
    BY <1>5, PlainMoves DEF Moved, Attest!Attest, Attest!files
  <2> QED BY <1>1, <1>2, <1>3, <2>1, UpGoOn DEF UpWork
<1>6. CASE Attest!Evidence(p)
  <2>1. phase'[p] = "receipt" /\ latest' = latest /\ local'[p].digest = latest
    BY <1>6, EvidenceMoves DEF AttestFields, Moved, Attest!Evidence, Attest!files
  <2> QED BY <1>1, <1>2, <1>3, <2>1, UpGoOn DEF UpWork
<1>7. ASSUME NEW d \in Digests, Attest!Stop(p, d) PROVE UpToDate'
  <2>1. phase'[p] = "receipt" /\ latest' = d /\ local'[p].digest = d /\ d # NoDigest
    BY <1>7, StopMoves DEF AttestFields, Moved, Attest!Stop, Attest!AttestationAssumption
  <2>2. UpFiles(p)' /\ UpWork(p)'
    BY <1>1, <1>2, <1>3, <2>1 DEF UpFiles, UpWork, AttestStored, Current, Consenting
  <2> QED BY <1>1, <2>2, UpMoved
<1> QED BY <1>4, <1>5, <1>6, <1>7

LEMMA UpReads ==
  ASSUME Attest!AttestationAssumption, AttestTyped, OneByOne, OneBusy, UpToDate, NEW p \in Attest!Procs,
         Attest!WriteReceipt(p) \/ Attest!Subject(p) \/ Attest!Report(p)
  PROVE  UpToDate'
<1>1. Lone(p) /\ UpFiles(p) /\ UpWork(p) /\ WorkOf(p)
  BY LoneSteps, UpMine DEF AttestTyped
<1>2. CASE Attest!WriteReceipt(p)
  <2>1. /\ phase[p] = "receipt" /\ phase'[p] = "subject" /\ local'[p] = local[p] /\ receipt' = local[p].digest
        /\ UNCHANGED <<latest, store, attestation>>
    BY <1>2, PlainMoves DEF Attest!WriteReceipt, Stays, Moved, Attest!At
  <2>2. UpFiles(p)' /\ UpWork(p)'
    BY <1>1, <2>1 DEF UpFiles, UpWork, AttestStored, Reports
  <2> QED BY <1>1, <2>2, UpMoved
<1>3. CASE Attest!Subject(p)
  <2>0. UNCHANGED <<latest, receipt, store, attestation, consent>> /\ phase[p] = "subject"
    BY <1>3 DEF Attest!Subject, Attest!files, Attest!At
  <2>1. CASE receipt = NoDigest
    <3>1. Moved(p, "idle", Attest!Fresh)
      BY <1>3, <2>1, SubjectMoves
    <3>2. attestation = NoFile /\ AttestStored
      BY <1>1, <2>0, <2>1 DEF UpFiles
    <3>3. UpFiles(p)' /\ UpWork(p)'
      BY <2>0, <2>1, <3>1, <3>2 DEF Moved, UpFiles, UpWork, AttestStored
    <3> QED BY <1>1, <3>3, UpMoved
  <2>2. CASE receipt # NoDigest
    <3>1. phase'[p] = "report"
      BY <1>3, <2>2, SubjectMoves DEF AttestFields, Moved
    <3> QED BY <1>1, <2>0, <3>1, UpGoOn DEF Reports, UpWork
  <2> QED BY <2>1, <2>2
<1>4. CASE Attest!Report(p)
  <2>1. /\ UNCHANGED <<latest, receipt, store, attestation, consent>> /\ phase[p] = "report"
        /\ phase'[p] = "ensure" /\ ~local'[p].accepting
    BY <1>1, <1>4, ReportMoves DEF Attest!Report, Attest!files, Attest!At, AttestFields, Moved, WorkOf
  <2> QED BY <1>1, <2>1, UpGoOn DEF Reports, AttestChanged, UpWork
<1> QED BY <1>2, <1>3, <1>4

LEMMA UpIdentity ==
  ASSUME Attest!AttestationAssumption, AttestTyped, OneByOne, OneBusy, UpToDate, NEW p \in Attest!Procs,
         Attest!Found(p) \/ Attest!Generate(p) \/ Attest!WriteKey(p) \/ Attest!WritePublic(p) \/ Attest!WriteIdentity(p)
  PROVE  UpToDate'
<1>1. Lone(p) /\ UpFiles(p)
  BY LoneSteps, UpMine
<1>2. UNCHANGED <<latest, receipt, store, attestation, consent>>
  BY DEF Attest!Found, Attest!Generate, Attest!WriteKey, Attest!WritePublic, Attest!WriteIdentity
<1>3. phase[p] \in {"ensure", "key", "public", "identity"}
  BY DEF Attest!Found, Attest!Generate, Attest!WriteKey, Attest!WritePublic, Attest!WriteIdentity, Attest!At
<1>4. /\ phase'[p] \in {"key", "public", "identity", Attest!AfterEnsure(p)}
      /\ local'[p].accepting = local[p].accepting
  <2>1. CASE Attest!Found(p)
    BY <2>1, FoundMoves DEF AttestFields, Moved
  <2>2. CASE Attest!Generate(p)
    BY <2>2, GenerateMoves DEF AttestFields, Moved
  <2>3. CASE Attest!WriteKey(p) \/ Attest!WritePublic(p) \/ Attest!WriteIdentity(p)
    BY <2>3, PlainMoves DEF Stays, Moved
  <2> QED BY <2>1, <2>2, <2>3
<1>5. UpWork(p)' /\ (Reports(p) => Reports(p)')
  BY <1>3, <1>4 DEF UpWork, Reports, AttestChanged, Attest!AfterEnsure
<1> QED BY <1>1, <1>2, <1>3, <1>5, UpGoOn

LEMMA UpAccepts ==
  ASSUME Attest!AttestationAssumption, AttestTyped, OneByOne, OneBusy, UpToDate, NEW p \in Attest!Procs,
         Attest!Sign(p) \/ Attest!Load(p) \/ Attest!Truncate(p) \/ Attest!Save(p)
  PROVE  UpToDate'
<1>1. Lone(p) /\ UpFiles(p) /\ UpWork(p) /\ WorkOf(p)
  BY LoneSteps, UpMine DEF AttestTyped
<1>2. CASE Attest!Sign(p)
  <2>1. /\ UNCHANGED <<latest, receipt, store, attestation, consent>> /\ phase[p] = "sign"
        /\ local[p].accepting \in BOOLEAN
    BY <1>2 DEF Attest!Sign, Attest!files, Attest!At, AttestTyped, Works
  <2>2. /\ phase'[p] = (IF local[p].accepting THEN "load" ELSE "seal")
        /\ local'[p].accepting = local[p].accepting /\ local'[p].accepted = local[p].accepted
    BY <1>2, SignMoves DEF AttestFields, Moved
  <2>3. Consenting' = Consenting
    BY <2>1 DEF Consenting
  <2>4. UpWork(p)' /\ (Reports(p) => Reports(p)')
    BY <1>1, <2>1, <2>2, <2>3 DEF UpWork, Reports, AttestChanged
  <2> QED BY <1>1, <2>1, <2>4, UpGoOn
<1>3. CASE Attest!Load(p)
  <2>1. UNCHANGED <<latest, receipt, store, attestation, consent>> /\ phase[p] = "load"
    BY <1>3 DEF Attest!Load, Attest!files, Attest!At
  <2>2. AttestStored
    BY <1>1, <2>1 DEF UpFiles
  <2>3. phase'[p] = "open"
    BY <1>3, <2>2, LoadMoves DEF AttestFields, Moved
  <2> QED BY <1>1, <2>1, <2>3, UpGoOn DEF UpWork, Reports, AttestChanged
<1>4. CASE Attest!Truncate(p)
  <2>1. /\ UNCHANGED <<latest, receipt, attestation, consent>> /\ phase[p] = "open" /\ store' = Torn /\ phase'[p] = "save"
    BY <1>4, PlainMoves DEF Attest!Truncate, Attest!At, Stays, Moved
  <2>2. UpFiles(p)' /\ UpWork(p)'
    BY <1>1, <2>1 DEF UpFiles, UpWork, Reports, AttestChanged, Current, Consenting
  <2> QED BY <1>1, <2>2, UpMoved
<1>5. CASE Attest!Save(p)
  <2>1. /\ UNCHANGED <<latest, receipt, attestation>> /\ phase'[p] = "subject" /\ Attest!At(p, "save")
        /\ store' = Attest!Renewed(local[p].loaded, Attest!Acceptance(p))
    BY <1>5, PlainMoves DEF Attest!Save, Moved
  <2>2. AttestStored'
    <3>1. store' \in Seq(Accepting) /\ Torn \notin Seq(Accepting)
      BY <2>1, SavedIsAccepting, RenewedKeeps DEF Attest!AttestationAssumption, Accepting
    <3> QED BY <3>1 DEF AttestStored
  <2>3. UpFiles(p)' /\ UpWork(p)'
    BY <1>1, <2>1, <2>2 DEF UpFiles, UpWork, Reports
  <2> QED BY <1>1, <2>3, UpMoved
<1> QED BY <1>2, <1>3, <1>4, <1>5

LEMMA UpSeals ==
  ASSUME Attest!AttestationAssumption, AttestTyped, OneByOne, OneBusy, Keys, AttestChanges, Keeping, Few, Crashes = 0, UpToDate,
         NEW p \in Attest!Procs, Attest!Accepted(p) \/ Attest!Seal(p) \/ Attest!Bundle(p) \/ Attest!Crash(p)
  PROVE  UpToDate'
<1>1. Lone(p) /\ UpFiles(p) /\ UpWork(p) /\ WorkOf(p) /\ ChangeWork(p) /\ KeyWork(p) /\ KeyFiles
  BY LoneSteps, UpMine DEF AttestTyped, AttestChanges, Keys
<1>2. CASE Attest!Accepted(p)
  <2>1. UNCHANGED <<latest, receipt, store, attestation, consent>> /\ phase[p] = "accepted"
    BY <1>2 DEF Attest!Accepted, Attest!files, Attest!At
  <2>2. AttestStored
    BY <1>1, <2>1 DEF UpFiles
  <2>3. /\ phase'[p] = "sign" /\ local'[p].accepted = Attest!Counted(store, local[p].about, local[p].keyid)
        /\ local'[p].accepting = local[p].accepting
    BY <1>2, <2>2, AcceptedMoves DEF AttestFields, Moved
  <2>4. local[p].about = receipt /\ SignedBy(store, local[p].keyid) /\ ~local[p].accepting
    BY <1>1, <2>1, <2>2 DEF ChangeWork, AttestChanged, WorkOf, KeyWork, HasIdentity, KeyFiles
  <2>5. local'[p].accepted = Consenting /\ Consenting' = Consenting
    <3>1. Attest!Counted(store, receipt, local[p].keyid) = Consenting
      BY <2>2, <2>4, AllNamed
    <3> QED BY <2>1, <2>3, <2>4, <3>1 DEF Consenting
  <2>6. UpWork(p)' /\ (Reports(p) => Reports(p)')
    BY <2>1, <2>3, <2>5 DEF UpWork, Reports, AttestChanged
  <2> QED BY <1>1, <2>1, <2>6, UpGoOn
<1>3. CASE Attest!Seal(p)
  <2>1. /\ UNCHANGED <<latest, receipt, store, consent>> /\ phase[p] = "seal"
        /\ attestation'.subject = local[p].subject /\ attestation'.accepted = local[p].accepted
    BY <1>3 DEF Attest!Seal, Attest!At
  <2>2. phase'[p] \in {"bundle", "idle"}
    BY <1>3, PlainMoves DEF Stays, Moved
  <2>3. local[p].subject = receipt /\ receipt # NoDigest /\ local[p].accepted = Consenting
    BY <1>1, <2>1 DEF ChangeWork, AttestChanged, WorkOf, UpWork
  <2>4. Current'
    BY <2>1, <2>3 DEF Current, Consenting
  <2>5. UpFiles(p)' /\ UpWork(p)'
    BY <1>1, <2>1, <2>2, <2>3, <2>4 DEF UpFiles, UpWork, AttestStored
  <2> QED BY <1>1, <2>5, UpMoved
<1>4. CASE Attest!Bundle(p)
  <2>1. UNCHANGED <<latest, receipt, store, attestation, consent>> /\ phase[p] = "bundle" /\ phase'[p] = "idle"
    BY <1>4, PlainMoves DEF Attest!Bundle, Attest!At, Moved
  <2> QED BY <1>1, <2>1, UpGoOn DEF UpWork, Reports, AttestChanged
<1>5. ~Attest!Crash(p)
  BY DEF Attest!Crash, AttestTyped
<1> QED BY <1>2, <1>3, <1>4, <1>5

LEMMA UpKept ==
  ASSUME Attest!AttestationAssumption, AttestTyped, OneByOne, OneBusy, Keys, AttestChanges, Keeping, Few, Crashes = 0, UpToDate, [Attest!Next]_Attest!vars
  PROVE  UpToDate'
<1>1. CASE UNCHANGED Attest!vars
  BY <1>1 DEF Attest!vars, Attest!files, UpToDate, UpFiles, UpWork, AttestStored, Current, Consenting, Reports, AttestChanged
<1> QED BY <1>1, AttestStepCases, UpStart, UpReads, UpIdentity, UpAccepts, UpSeals

LEMMA UpBegin == Attest!AttestationAssumption /\ Attest!Init /\ Attest!Procs # {} => UpToDate
<1> SUFFICES ASSUME Attest!AttestationAssumption, Attest!Init, Attest!Procs # {} PROVE UpToDate
  OBVIOUS
<1>1. store # Torn
  <2>1. store = <<>> /\ Torn \notin Seq(Accepting)
    BY DEF Attest!Init, Attest!AttestationAssumption, Accepting
  <2>2. <<>> \in Seq(Accepting)
    OBVIOUS
  <2> QED BY <2>1, <2>2
<1>2. \A p \in Attest!Procs : UpFiles(p) /\ UpWork(p)
  BY <1>1 DEF Attest!Init, UpFiles, UpWork, AttestStored
<1> QED BY <1>2 DEF UpToDate

-----------------------------------------------------------------------------
(* The theorems *)

LEMMA TypedInvariant == ASSUME Attest!AttestationAssumption PROVE Attest!Spec => []AttestTyped
  BY TypedStart, TypedKept, PTL DEF Attest!Spec

\* The files hold digests, key pairs that were generated and at most Limit
\* acceptances of people, whatever several processes do at once.
THEOREM AttestationTypeCorrect == ASSUME Attest!AttestationAssumption PROVE Attest!Spec => []Attest!TypeOK
<1>1. AttestTyped => Attest!TypeOK
  <2> SUFFICES ASSUME AttestTyped PROVE Attest!TypeOK
    OBVIOUS
  <2>1. {latest, receipt} \subseteq Digests \cup {NoDigest} /\ {key, public, identity} \subseteq 0 .. pairs
    BY DEF AttestTyped
  <2>2. store # Torn => Len(store) <= Limit
    BY DEF AttestTyped, AttestStored, Short
  <2>3. consent \subseteq People \X Digests /\ (identity # 0 => public # 0)
    BY DEF AttestTyped
  <2> QED BY <2>1, <2>2, <2>3 DEF Attest!TypeOK
<1> QED BY <1>1, TypedInvariant, PTL

LEMMA ConsentsInvariant == ASSUME Attest!AttestationAssumption PROVE Attest!Spec => []Consents
<1>1. AttestTyped /\ Consents /\ [Attest!Next]_Attest!vars => Consents'
  BY ConsentsKept
<1> QED BY <1>1, TypedInvariant, ConsentsStart, PTL DEF Attest!Spec

\* Nobody is reported to have accepted what they never accepted, by any number of
\* hooks, people and tools that run at once or die (responsibilityReport).
THEOREM NamesConsented == ASSUME Attest!AttestationAssumption PROVE Attest!Spec => []Attest!OnlyConsented
<1>1. Consents => Attest!OnlyConsented
  BY DEF Consents
<1> QED BY <1>1, ConsentsInvariant, PTL

LEMMA KeepingInvariant == ASSUME Attest!AttestationAssumption PROVE Attest!Spec /\ []OneStoring => []Keeping
<1>1. AttestTyped /\ Consents' /\ Keeping /\ OneStoring /\ [Attest!Next]_Attest!vars => Keeping'
  BY KeepingKept
<1>2. Attest!Init => Keeping
  BY KeepingStart
<1> QED BY <1>1, <1>2, TypedInvariant, ConsentsInvariant, PTL DEF Attest!Spec

\* What people accepted stays in the file up to Limit, once each, as long as no two
\* acceptances are stored at the same moment: the file is under no lock
\* (acceptResponsibility).
THEOREM AcceptancesStay == ASSUME Attest!AttestationAssumption PROVE Attest!Spec /\ []OneStoring => []Attest!AcceptancesKept
<1>1. AttestTyped /\ Keeping => Attest!AcceptancesKept
  <2> SUFFICES ASSUME AttestTyped, Keeping, AttestStored PROVE Attest!AcceptancesKept
    BY DEF Attest!AcceptancesKept, AttestStored
  <2>1. store \in Seq(Accepting) /\ Complete(store) /\ IsFiniteSet(consent) /\ Limit \in Nat
    BY DEF AttestTyped, Keeping, Attest!AttestationAssumption
  <2>2. Cardinality(HeldIn(store)) = Len(store)
    BY <2>1, HeldCounted DEF Complete
  <2>3. HeldIn(store) \subseteq consent
    BY <2>1 DEF Complete, AllConsent, HeldIn, Attest!ToSet
  <2>4. \A m, n \in Nat : Attest!Min({m, n}) = Least(m, n)
    <3> SUFFICES ASSUME NEW m \in Nat, NEW n \in Nat PROVE Attest!Min({m, n}) = Least(m, n)
      OBVIOUS
    <3>1. Least(m, n) \in {m, n} /\ \A k \in {m, n} : Least(m, n) <= k
      BY DEF Least
    <3>2. \A i \in {m, n} : (\A k \in {m, n} : i <= k) => i = Least(m, n)
      BY <3>1 DEF Least
    <3> QED BY <3>1, <3>2 DEF Attest!Min
  <2>5. Len(store) = Attest!Min({Limit, Cardinality(consent)})
    BY <2>1, <2>4, FS_CardinalityType DEF Complete
  <2> QED BY AttestLibrary, <2>2, <2>3, <2>5 DEF Attest!AcceptancesKept, HeldIn
<1> QED BY <1>1, TypedInvariant, KeepingInvariant, PTL

LEMMA BusyInvariant == ASSUME Attest!AttestationAssumption, OneByOne PROVE Attest!Spec => []OneBusy
<1>1. AttestTyped /\ OneBusy /\ [Attest!Next]_Attest!vars => OneBusy'
  BY OneBusyKept
<1>2. Attest!Init => OneBusy
  BY DEF Attest!Init, OneBusy
<1> QED BY <1>1, <1>2, TypedInvariant, PTL DEF Attest!Spec

\* No two acceptances are stored at the same moment where processes run one after
\* another, or where one person accepts.
THEOREM OneStoresAtATime ==
  ASSUME Attest!AttestationAssumption, OneByOne \/ \A p, q \in People : p = q
  PROVE  Attest!Spec => []OneStoring
<1>1. CASE OneByOne
  <2>1. OneBusy => OneStoring
    BY DEF OneBusy, OneStoring, Storing
  <2> QED BY <1>1, <2>1, BusyInvariant, PTL
<1>2. CASE \A p, q \in People : p = q
  <2>1. AttestTyped => OneStoring
    BY <1>2 DEF AttestTyped, WorkOf, OneStoring, Storing
  <2> QED BY <2>1, TypedInvariant, PTL
<1> QED BY <1>1, <1>2

\* Where processes run one after another, and die anywhere, every attestation is
\* signed with the key it names, and every acceptance with the recorder's
\* (ensureIdentity, signBytes, createAttestation).
THEOREM SignaturesHold == ASSUME Attest!AttestationAssumption, OneByOne PROVE Attest!Spec => []Attest!SignaturesVerify
<1>1. AttestTyped /\ OneBusy /\ Keys /\ [Attest!Next]_Attest!vars => Keys'
  BY KeysKept
<1>2. Keys => Attest!SignaturesVerify
  <2> SUFFICES ASSUME Keys PROVE Attest!SignaturesVerify
    OBVIOUS
  <2>1. store # Torn => \A a \in Attest!ToSet(store) : a.sig = identity /\ a.keyid = identity
    BY DEF Keys, KeyFiles, AttestStored, SignedBy, Attest!ToSet
  <2>2. attestation # NoFile => attestation.sig = attestation.keyid
    BY DEF Keys, KeyFiles
  <2> QED BY <2>1, <2>2 DEF Attest!SignaturesVerify
<1> QED BY <1>1, <1>2, TypedInvariant, BusyInvariant, KeysBegin, PTL DEF Attest!Spec

LEMMA ChangesInvariant == ASSUME Attest!AttestationAssumption, OneByOne PROVE Attest!Spec => []AttestChanges
<1>1. AttestTyped /\ OneBusy /\ AttestChanges /\ [Attest!Next]_Attest!vars => AttestChanges'
  BY ChangesKept
<1> QED BY <1>1, TypedInvariant, BusyInvariant, ChangesBegin, PTL DEF Attest!Spec

\* There, an attestation and an evidence bundle are about one change, although they
\* read the receipt three times (buildStatement, responsibilityReport, evidence).
THEOREM OneChangeEach == ASSUME Attest!AttestationAssumption, OneByOne PROVE Attest!Spec => []Attest!OneChange
<1>1. AttestChanges => Attest!OneChange
  BY DEF AttestChanges
<1> QED BY <1>1, ChangesInvariant, PTL

\* Where none dies either, and no acceptance was dropped for another (200 fit), the
\* attestation that is there when nothing is under way is that of the receipt, and
\* names exactly the people who accepted its change.
THEOREM AttestationIsCurrent ==
  ASSUME Attest!AttestationAssumption, OneByOne, Crashes = 0, Attest!Procs # {}
  PROVE  Attest!Spec /\ []Few => []Attest!AttestationCurrent
<1>1. AttestTyped /\ OneBusy /\ Keys /\ [Attest!Next]_Attest!vars => Keys'
  BY KeysKept
<1>2. AttestTyped /\ OneBusy /\ Keys /\ AttestChanges /\ Keeping /\ Few /\ UpToDate /\ [Attest!Next]_Attest!vars => UpToDate'
  BY UpKept
<1>3. Attest!Init => UpToDate
  BY UpBegin
<1>4. UpToDate => Attest!AttestationCurrent
  <2> SUFFICES ASSUME UpToDate, Attest!Quiet, attestation # NoFile PROVE Current
    BY DEF Attest!AttestationCurrent, Current, Consenting
  <2>1. PICK p \in Attest!Procs : UpFiles(p)
    BY DEF UpToDate
  <2>2. ~Reports(p)
    BY DEF Attest!Quiet, Attest!At, Reports, AttestChanged
  <2> QED BY <2>1, <2>2 DEF UpFiles
<1> QED BY <1>1, <1>2, <1>3, <1>4, TypedInvariant, BusyInvariant, ChangesInvariant, KeepingInvariant,
           OneStoresAtATime, KeysBegin, PTL DEF Attest!Spec

\* What a few people can accept of a few changes always fits.
LEMMA FewConsents ==
  ASSUME Attest!AttestationAssumption, IsFiniteSet(People \X Digests), Cardinality(People \X Digests) <= Limit
  PROVE  Attest!Spec => []Few
<1>1. AttestTyped => Few
  <2> SUFFICES ASSUME AttestTyped PROVE Few
    OBVIOUS
  <2>1. consent \subseteq People \X Digests /\ IsFiniteSet(consent) /\ Limit \in Nat
    BY DEF AttestTyped, Attest!AttestationAssumption
  <2>2. Cardinality(consent) <= Cardinality(People \X Digests)
    BY <2>1, FS_Subset
  <2>3. Cardinality(consent) \in Nat /\ Cardinality(People \X Digests) \in Nat
    BY <2>1, FS_CardinalityType
  <2> QED BY <2>1, <2>2, <2>3 DEF Few
<1> QED BY <1>1, TypedInvariant, PTL

-----------------------------------------------------------------------------
(* The building of a page of the journal, for any events, sizes and bounds:   *)
(* the search ends at the longest prefix that fits, and what a page leaves    *)
(* out is counted, also when it is cut within its first event.                *)

\* An instance has its own copy of the library's operators.
LEMMA ComposerLibrary == \A S : Composer!Cardinality(S) = Cardinality(S)
  BY Zenon DEF Composer!Cardinality, Cardinality

-----------------------------------------------------------------------------
(* Counting                                                                *)

LEMMA FiniteUnion ==
  ASSUME NEW I, IsFiniteSet(I), NEW f, \A i \in I : IsFiniteSet(f[i])
  PROVE  IsFiniteSet(UNION {f[i] : i \in I})
<1> DEFINE T == {f[i] : i \in I}
           g == [i \in I |-> f[i]]
<1>1. g \in Surjection(I, T)
  BY DEF Surjection
<1>2. IsFiniteSet(T)
  BY <1>1, FS_Surjection
<1>3. \A S \in T : IsFiniteSet(S)
  OBVIOUS
<1>4. IsFiniteSet(UNION T)
  <2> HIDE DEF T
  <2> QED BY <1>2, <1>3, FS_UNION
<1> QED BY <1>4

LEMMA PartsCount ==
  ASSUME NEW i, NEW K, IsFiniteSet(K)
  PROVE  IsFiniteSet(Composer!PartsOf(i, K)) /\ Cardinality(Composer!PartsOf(i, K)) = Cardinality(K)
<1> DEFINE f == [k \in K |-> <<i, k>>]
<1>1. f \in Surjection(K, Composer!PartsOf(i, K))
  BY DEF Surjection, Composer!PartsOf
<1>2. f \in Injection(K, Composer!PartsOf(i, K))
  BY DEF Injection, IsInjective, Composer!PartsOf
<1> HIDE DEF f
<1> QED BY <1>1, <1>2, FS_Surjection

LEMMA Ranges ==
  ASSUME NEW a \in Nat, NEW b \in Nat
  PROVE  /\ IsFiniteSet(a + 1 .. a + b) /\ Cardinality(a + 1 .. a + b) = b
         /\ IsFiniteSet(1 .. b) /\ Cardinality(1 .. b) = b
<1>1. a + 1 \in Int /\ a + b \in Int /\ 1 \in Int /\ b \in Int
  OBVIOUS
<1>2. /\ IsFiniteSet(a + 1 .. a + b)
      /\ Cardinality(a + 1 .. a + b) = IF a + 1 > a + b THEN 0 ELSE a + b - (a + 1) + 1
      /\ IsFiniteSet(1 .. b) /\ Cardinality(1 .. b) = IF 1 > b THEN 0 ELSE b - 1 + 1
  BY <1>1, FS_Interval
<1> QED BY <1>2

-----------------------------------------------------------------------------
(* Prefixes of the events                                                  *)

Listed == entries \in Seq(Shapes) /\ Len(entries) \in Nat \ {0}

LEMMA EventFacts ==
  ASSUME Composer!PageAssumption, Listed, NEW i \in 1 .. Len(entries)
  PROVE  /\ entries[i].sizes \in Seq(Nat \ {0}) /\ Composer!Items(i) \in Nat /\ entries[i].drops \in Nat
         /\ entries[i].sizes = <<>> <=> Composer!Items(i) = 0
         /\ \A k \in 1 .. Composer!Items(i) : entries[i].sizes[k] \in Nat \ {0}
<1>1. entries[i] \in Shapes
  BY DEF Listed
<1>2. entries[i].sizes \in Seq(Nat \ {0}) /\ entries[i].drops \in Nat
  BY <1>1 DEF Composer!PageAssumption
<1>3. PICK s \in Seq(Nat \ {0}) : s = entries[i].sizes
  BY <1>2
<1>4. Len(s) \in Nat /\ (s = <<>> <=> Len(s) = 0) /\ \A k \in 1 .. Len(s) : s[k] \in Nat \ {0}
  OBVIOUS
<1> QED BY <1>2, <1>3, <1>4 DEF Composer!Items

\* The items and the counters of a prefix are finite, and grow with it.
LEMMA PrefixFinite ==
  ASSUME Composer!PageAssumption, Listed, NEW n \in 0 .. Len(entries)
  PROVE  /\ IsFiniteSet(Composer!ItemsOf(n)) /\ IsFiniteSet(Composer!BytesOf(Composer!ItemsOf(n))) /\ IsFiniteSet(Composer!PartialOf(n))
         /\ IsFiniteSet(1 .. n) /\ Cardinality(1 .. n) = n
         /\ IsFiniteSet(Composer!Represented(n)) /\ IsFiniteSet((1 .. n) \ Composer!Represented(n))
<1>1. n \in Nat /\ \A i \in 1 .. n : i \in 1 .. Len(entries)
  BY DEF Listed
<1>2. IsFiniteSet(1 .. n) /\ Cardinality(1 .. n) = n
  BY <1>1, Ranges
<1>3. IsFiniteSet(Composer!Represented(n)) /\ IsFiniteSet((1 .. n) \ Composer!Represented(n))
  BY <1>2, FS_Subset DEF Composer!Represented
<1>4. IsFiniteSet(Composer!ItemsOf(n))
  <2> DEFINE f == [i \in 1 .. n |-> Composer!PartsOf(i, 1 .. Composer!Items(i))]
  <2>1. ASSUME NEW i \in 1 .. n PROVE IsFiniteSet(f[i])
    <3>1. Composer!Items(i) \in Nat
      BY <1>1, EventFacts
    <3>2. IsFiniteSet(1 .. Composer!Items(i))
      BY <3>1, Ranges
    <3> QED BY <3>2, PartsCount
  <2>2. IsFiniteSet(UNION {f[i] : i \in 1 .. n})
    <3> HIDE DEF f
    <3> QED BY <1>2, <2>1, FiniteUnion
  <2>3. Composer!ItemsOf(n) = UNION {f[i] : i \in 1 .. n}
    BY DEF Composer!ItemsOf
  <2> QED BY <2>2, <2>3
<1>5. IsFiniteSet(Composer!PartialOf(n))
  <2> DEFINE f == [i \in Composer!Represented(n) |-> Composer!PartsOf(i, Composer!Items(i) + 1 .. Composer!Items(i) + entries[i].drops)]
  <2>1. ASSUME NEW i \in Composer!Represented(n) PROVE IsFiniteSet(f[i])
    <3>1. Composer!Items(i) \in Nat /\ entries[i].drops \in Nat
      BY <1>1, EventFacts DEF Composer!Represented
    <3>2. IsFiniteSet(Composer!Items(i) + 1 .. Composer!Items(i) + entries[i].drops)
      BY <3>1, Ranges
    <3> QED BY <3>2, PartsCount
  <2>2. IsFiniteSet(UNION {f[i] : i \in Composer!Represented(n)})
    <3> HIDE DEF f
    <3> QED BY <1>3, <2>1, FiniteUnion
  <2>3. Composer!PartialOf(n) = UNION {f[i] : i \in Composer!Represented(n)}
    BY DEF Composer!PartialOf
  <2> QED BY <2>2, <2>3
<1>6. IsFiniteSet(Composer!BytesOf(Composer!ItemsOf(n)))
  <2> DEFINE f == [it \in Composer!ItemsOf(n) |-> {<<it, b>> : b \in 1 .. entries[it[1]].sizes[it[2]]}]
  <2>1. ASSUME NEW it \in Composer!ItemsOf(n) PROVE IsFiniteSet(f[it])
    <3>1. PICK i \in 1 .. n : \E k \in 1 .. Composer!Items(i) : it = <<i, k>>
      BY DEF Composer!ItemsOf, Composer!PartsOf
    <3>2. PICK c \in Nat : c = entries[it[1]].sizes[it[2]]
      BY <1>1, <3>1, EventFacts
    <3>3. f[it] = Composer!PartsOf(it, 1 .. c)
      BY <3>2 DEF Composer!PartsOf
    <3>4. IsFiniteSet(1 .. c)
      BY Ranges
    <3> QED BY <3>3, <3>4, PartsCount
  <2>2. IsFiniteSet(UNION {f[it] : it \in Composer!ItemsOf(n)})
    <3> HIDE DEF f
    <3> QED BY <1>4, <2>1, FiniteUnion
  <2>3. Composer!BytesOf(Composer!ItemsOf(n)) = UNION {f[it] : it \in Composer!ItemsOf(n)}
    BY DEF Composer!BytesOf
  <2> QED BY <2>2, <2>3
<1> QED BY <1>2, <1>3, <1>4, <1>5, <1>6

\* A prefix fits if a longer one does.
LEMMA FitsShorter ==
  ASSUME Composer!PageAssumption, Listed, NEW m \in 0 .. Len(entries), NEW n \in 0 .. Len(entries),
         n <= m, Composer!Fits(Composer!Composed(m))
  PROVE  Composer!Fits(Composer!Composed(n))
<1>1. Len(entries) \in Nat /\ m \in Nat /\ n \in Nat /\ 1 .. n \subseteq 1 .. m
  BY DEF Listed
<1>2. /\ Composer!ItemsOf(n) \subseteq Composer!ItemsOf(m) /\ Composer!Represented(n) \subseteq Composer!Represented(m)
      /\ (1 .. n) \ Composer!Represented(n) \subseteq (1 .. m) \ Composer!Represented(m)
  BY <1>1 DEF Composer!ItemsOf, Composer!Represented
<1>3. Composer!PartialOf(n) \subseteq Composer!PartialOf(m)
  BY <1>2 DEF Composer!PartialOf
<1>4. Composer!BytesOf(Composer!ItemsOf(n)) \subseteq Composer!BytesOf(Composer!ItemsOf(m))
  BY <1>2 DEF Composer!BytesOf
<1>5. \A S, T : IsFiniteSet(T) /\ S \subseteq T =>
                  Cardinality(S) \in Nat /\ Cardinality(T) \in Nat /\ Cardinality(S) <= Cardinality(T)
  BY FS_Subset, FS_CardinalityType
<1>6. /\ Cardinality(Composer!ItemsOf(n)) \in Nat /\ Cardinality(Composer!ItemsOf(m)) \in Nat
      /\ Cardinality(Composer!ItemsOf(n)) <= Cardinality(Composer!ItemsOf(m))
  BY <1>2, <1>5, PrefixFinite
<1>7. /\ Cardinality(Composer!BytesOf(Composer!ItemsOf(n))) \in Nat /\ Cardinality(Composer!BytesOf(Composer!ItemsOf(m))) \in Nat
      /\ Cardinality(Composer!BytesOf(Composer!ItemsOf(n))) <= Cardinality(Composer!BytesOf(Composer!ItemsOf(m)))
  BY <1>4, <1>5, PrefixFinite
<1>8. /\ Cardinality(Composer!PartialOf(n)) \in Nat /\ Cardinality(Composer!PartialOf(m)) \in Nat
      /\ Cardinality(Composer!PartialOf(n)) <= Cardinality(Composer!PartialOf(m))
  BY <1>3, <1>5, PrefixFinite
<1>9. /\ Cardinality((1 .. n) \ Composer!Represented(n)) \in Nat /\ Cardinality((1 .. m) \ Composer!Represented(m)) \in Nat
      /\ Cardinality((1 .. n) \ Composer!Represented(n)) <= Cardinality((1 .. m) \ Composer!Represented(m))
  BY <1>2, <1>5, PrefixFinite
<1>10. \A k : /\ Composer!Composed(k).items = Composer!ItemsOf(k) /\ Composer!Composed(k).partial = Cardinality(Composer!PartialOf(k))
              /\ Composer!Composed(k).omitted = Cardinality((1 .. k) \ Composer!Represented(k))
  BY ComposerLibrary DEF Composer!Composed
<1>11. Composer!Bytes(Composer!Composed(n)) <= Composer!Bytes(Composer!Composed(m)) /\ Composer!Bytes(Composer!Composed(n)) \in Nat /\ Composer!Bytes(Composer!Composed(m)) \in Nat
  BY ComposerLibrary, <1>7, <1>8, <1>9, <1>10 DEF Composer!Bytes
<1>12. MaxItems \in Nat /\ PageBytes \in Nat
  BY DEF Composer!PageAssumption
<1>13. Cardinality(Composer!Composed(m).items) <= MaxItems /\ Composer!Bytes(Composer!Composed(m)) <= PageBytes
  BY ComposerLibrary DEF Composer!Fits
<1>14. Cardinality(Composer!Composed(n).items) <= MaxItems
  BY <1>6, <1>10, <1>12, <1>13
<1>15. Composer!Bytes(Composer!Composed(n)) <= PageBytes
  BY <1>11, <1>12, <1>13
<1> QED BY ComposerLibrary, <1>14, <1>15 DEF Composer!Fits

-----------------------------------------------------------------------------
(* The search, and the cut within the first event                          *)

\* What trimming leaves of the first event: its first m items.
CutTo(g, m) ==
  /\ g.to = 1 /\ g.items = Composer!PartsOf(1, 1 .. m)
  /\ m = 0 => g.partial = 0 /\ g.omitted = 1
  /\ m > 0 => g.omitted = 0 /\ g.partial = entries[1].drops + (Composer!Items(1) - m)

IsPage(g) == g = [to |-> g.to, items |-> g.items, partial |-> g.partial, omitted |-> g.omitted]

PageInv ==
  /\ Listed
  /\ low \in 1 .. Len(entries) + 1 /\ high \in 0 .. Len(entries)
  /\ building \in {"search", "trim", "built", "refused"}
  /\ \A n \in high + 1 .. Len(entries) : ~Composer!Fits(Composer!Composed(n))
  /\ building = "search" => low <= high + 1
  /\ building # "search" => low = high + 1
  /\ low > 1 => building \in {"search", "built"} /\ page = Composer!Composed(low - 1) /\ Composer!Fits(page)
  /\ low = 1 /\ building = "search" => page = Composer!NoPage
  /\ low = 1 /\ building # "search" => IsPage(page) /\ \E m \in 0 .. Composer!Items(1) : CutTo(page, m)
  /\ building = "built" => Composer!Fits(page)

LEMMA InitPage ==
  ASSUME Composer!PageAssumption, Composer!Init PROVE PageInv
<1>1. PICK n \in 1 .. MaxEvents : entries \in [1 .. n -> Shapes]
  BY DEF Composer!Init
<1>2. n \in Nat \ {0} /\ Len(entries) = n /\ entries \in Seq(Shapes)
  BY <1>1 DEF Composer!PageAssumption
<1>3. low = 1 /\ high = Len(entries) /\ page = Composer!NoPage /\ building = "search"
  BY DEF Composer!Init
<1>4. \A k \in high + 1 .. Len(entries) : ~Composer!Fits(Composer!Composed(k))
  BY <1>2, <1>3
<1>5. Listed
  BY <1>2 DEF Listed
<1>6. high \in Nat \ {0}
  BY <1>2, <1>3
<1> QED BY <1>3, <1>4, <1>5, <1>6 DEF PageInv

LEMMA SearchPage ==
  ASSUME Composer!PageAssumption, PageInv, Composer!Search PROVE PageInv'
<1> DEFINE mid == (low + high) \div 2
<1>1. /\ building = "search" /\ low <= high /\ UNCHANGED <<entries, building>>
      /\ \/ Composer!Fits(Composer!Composed(mid)) /\ page' = Composer!Composed(mid) /\ low' = mid + 1 /\ high' = high
         \/ ~Composer!Fits(Composer!Composed(mid)) /\ high' = mid - 1 /\ page' = page /\ low' = low
  BY DEF Composer!Search, Composer!Narrowed
<1>2. Len(entries) \in Nat /\ low \in 1 .. Len(entries) + 1 /\ high \in 0 .. Len(entries) /\ Listed
  BY DEF PageInv, Listed
<1>3. mid \in low .. high
  <2>1. low \in Nat /\ high \in Nat
    BY <1>2
  <2> QED BY <2>1, <1>1
<1>4. \A n \in high + 1 .. Len(entries) : ~Composer!Fits(Composer!Composed(n))
  BY DEF PageInv
<1> HIDE DEF mid
<1>5. /\ Listed' /\ Len(entries)' = Len(entries)
      /\ \A n : Composer!Composed(n)' = Composer!Composed(n) /\ \A g : Composer!Fits(g)' = Composer!Fits(g)
  BY <1>1, <1>2 DEF Listed, Composer!Composed, Composer!ItemsOf, Composer!PartialOf, Composer!Represented, Composer!Items, Composer!Fits, Composer!Bytes, Composer!BytesOf
<1>6. CASE Composer!Fits(Composer!Composed(mid)) /\ page' = Composer!Composed(mid) /\ low' = mid + 1 /\ high' = high
  <2>1. low' - 1 = mid /\ low' > 1 /\ low' <= high' + 1 /\ low' \in 1 .. Len(entries) + 1
    BY <1>2, <1>3, <1>6
  <2>2. page' = Composer!Composed(low - 1)' /\ Composer!Fits(page)'
    BY <1>5, <1>6, <2>1
  <2>3. \A n \in high' + 1 .. Len(entries) : ~Composer!Fits(Composer!Composed(n))'
    BY <1>4, <1>5, <1>6
  <2>4. low' # 1
    BY <2>1
  <2> QED BY <1>1, <1>2, <1>5, <1>6, <2>1, <2>2, <2>3, <2>4 DEF PageInv
<1>7. CASE ~Composer!Fits(Composer!Composed(mid)) /\ high' = mid - 1 /\ page' = page /\ low' = low
  <2>1. high' \in 0 .. Len(entries) /\ low' <= high' + 1
    BY <1>2, <1>3, <1>7
  <2>2. ASSUME NEW n \in high' + 1 .. Len(entries) PROVE ~Composer!Fits(Composer!Composed(n))'
    <3>1. mid <= n /\ n \in 0 .. Len(entries) /\ mid \in 0 .. Len(entries)
      BY <1>2, <1>3, <1>7
    <3>2. ~Composer!Fits(Composer!Composed(n))
      BY <1>2, <1>7, <3>1, FitsShorter
    <3> QED BY <3>2, <1>5
  <2>3. low > 1 => page = Composer!Composed(low - 1) /\ Composer!Fits(page)
    BY DEF PageInv
  <2>4. low' > 1 => page' = Composer!Composed(low - 1)' /\ Composer!Fits(page)'
    BY <1>5, <1>7, <2>3
  <2>5. low = 1 => page = Composer!NoPage
    BY <1>1 DEF PageInv
  <2>6. low' = 1 => page' = Composer!NoPage'
    BY <2>5, <1>7 DEF Composer!NoPage
  <2> QED BY <1>1, <1>2, <1>5, <1>7, <2>1, <2>2, <2>4, <2>6 DEF PageInv
<1> QED BY <1>1, <1>6, <1>7

\* The page of one event, as the trimming starts with it.
LEMMA FirstEvent ==
  ASSUME Composer!PageAssumption, Listed
  PROVE  CutTo(Composer!Composed(1), Composer!Items(1)) /\ IsPage(Composer!Composed(1)) /\ Composer!Items(1) \in Nat
<1>1. 1 \in 1 .. Len(entries)
  BY DEF Listed
<1>2. /\ Composer!Items(1) \in Nat /\ entries[1].drops \in Nat
      /\ entries[1].sizes = <<>> <=> Composer!Items(1) = 0
  BY <1>1, EventFacts
<1>3. Composer!ItemsOf(1) = Composer!PartsOf(1, 1 .. Composer!Items(1))
  <2>1. 1 .. 1 = {1}
    OBVIOUS
  <2> QED BY <2>1 DEF Composer!ItemsOf
<1>4. /\ Composer!Composed(1).to = 1 /\ Composer!Composed(1).items = Composer!PartsOf(1, 1 .. Composer!Items(1))
      /\ Composer!Composed(1).partial = Cardinality(Composer!PartialOf(1))
      /\ Composer!Composed(1).omitted = Cardinality((1 .. 1) \ Composer!Represented(1)) /\ IsPage(Composer!Composed(1))
  BY ComposerLibrary, <1>3 DEF Composer!Composed, IsPage
<1>5. CASE Composer!Items(1) = 0
  <2>1. Composer!Represented(1) = {} /\ (1 .. 1) \ Composer!Represented(1) = {1}
    BY <1>2, <1>5 DEF Composer!Represented
  <2>2. Composer!PartialOf(1) = {}
    BY <2>1 DEF Composer!PartialOf
  <2>3. Cardinality({1}) = 1 /\ Cardinality({}) = 0
    BY FS_Singleton, FS_EmptySet
  <2>4. Composer!Composed(1).partial = 0 /\ Composer!Composed(1).omitted = 1
    BY <1>4, <2>1, <2>2, <2>3
  <2> QED BY <1>2, <1>4, <1>5, <2>4 DEF CutTo
<1>6. CASE Composer!Items(1) # 0
  <2>1. Composer!Represented(1) = {1} /\ (1 .. 1) \ Composer!Represented(1) = {}
    BY <1>2, <1>6 DEF Composer!Represented
  <2>2. Composer!PartialOf(1) = Composer!PartsOf(1, Composer!Items(1) + 1 .. Composer!Items(1) + entries[1].drops)
    BY <2>1 DEF Composer!PartialOf
  <2>3. Cardinality(Composer!PartialOf(1)) = entries[1].drops
    BY <1>2, <2>2, Ranges, PartsCount
  <2>4. Cardinality({}) = 0
    BY FS_EmptySet
  <2>5. Composer!Composed(1).partial = entries[1].drops /\ Composer!Composed(1).omitted = 0
    BY <1>4, <2>1, <2>3, <2>4
  <2>6. entries[1].drops = entries[1].drops + (Composer!Items(1) - Composer!Items(1))
    BY <1>2
  <2> QED BY <1>2, <1>4, <1>6, <2>5, <2>6 DEF CutTo
<1> QED BY <1>5, <1>6

LEMMA TrimmedOne ==
  ASSUME NEW g, IsPage(g), NEW m \in Nat \ {0}, CutTo(g, m), Composer!Items(1) \in Nat, entries[1].drops \in Nat
  PROVE  CutTo(Composer!Trimmed(g), m - 1) /\ IsPage(Composer!Trimmed(g))
<1> DEFINE left == g.items \ {<<1, Cardinality(g.items)>>}
<1>1. Cardinality(g.items) = m
  BY Ranges, PartsCount DEF CutTo
<1>2. left = Composer!PartsOf(1, 1 .. m - 1)
  <2>1. left = {<<1, k>> : k \in 1 .. m} \ {<<1, m>>}
    BY <1>1 DEF CutTo, Composer!PartsOf
  <2>2. 1 .. m - 1 = (1 .. m) \ {m}
    OBVIOUS
  <2> QED BY <2>1, <2>2 DEF Composer!PartsOf
<1>3. left # {} <=> m - 1 > 0
  <2>1. (\E k : k \in 1 .. m - 1) <=> m - 1 > 0
    <3>1. m - 1 > 0 => 1 \in 1 .. m - 1
      OBVIOUS
    <3>2. \A k \in 1 .. m - 1 : m - 1 > 0
      OBVIOUS
    <3> QED BY <3>1, <3>2
  <2>2. left # {} <=> \E k : k \in 1 .. m - 1
    BY <1>2 DEF Composer!PartsOf
  <2> QED BY <2>1, <2>2
<1>4. g.to = 1 /\ g.omitted = 0 /\ g.partial = entries[1].drops + (Composer!Items(1) - m)
  BY DEF CutTo
<1>5. Composer!Trimmed(g) = [to |-> g.to, items |-> left,
                             omitted |-> IF left # {} THEN g.omitted ELSE g.omitted + 1,
                             partial |-> IF left # {} THEN g.partial + 1 ELSE 0]
  BY ComposerLibrary DEF Composer!Trimmed
<1> HIDE DEF left
<1>6. CASE m - 1 > 0
  <2>1. Composer!Trimmed(g) = [to |-> 1, items |-> left, omitted |-> 0, partial |-> g.partial + 1]
    BY <1>3, <1>4, <1>5, <1>6
  <2>2. g.partial + 1 = entries[1].drops + (Composer!Items(1) - (m - 1))
    BY <1>4
  <2> QED BY <1>2, <1>6, <2>1, <2>2 DEF CutTo, IsPage
<1>7. CASE m - 1 = 0
  <2>1. Composer!Trimmed(g) = [to |-> 1, items |-> left, omitted |-> 1, partial |-> 0]
    BY <1>3, <1>4, <1>5, <1>7
  <2> QED BY <1>2, <1>7, <2>1 DEF CutTo, IsPage
<1> QED BY <1>6, <1>7

LEMMA SameEvents ==
  ASSUME UNCHANGED entries
  PROVE  /\ \A n : Composer!Composed(n)' = Composer!Composed(n) /\ Composer!Items(n)' = Composer!Items(n)
         /\ \A g : Composer!Fits(g)' = Composer!Fits(g) /\ Composer!Trimmed(g)' = Composer!Trimmed(g)
         /\ \A g, m : CutTo(g, m)' = CutTo(g, m) /\ IsPage(g)' = IsPage(g)
         /\ Listed' = Listed
BY DEF Listed, Composer!Composed, Composer!ItemsOf, Composer!PartialOf, Composer!Represented, Composer!Items, Composer!Fits, Composer!Bytes, Composer!BytesOf, CutTo, IsPage,
       Composer!PartsOf, Composer!Trimmed

LEMMA SearchedPage ==
  ASSUME Composer!PageAssumption, PageInv, Composer!Searched PROVE PageInv'
<1>1. /\ building = "search" /\ low > high /\ UNCHANGED <<entries, low, high>>
      /\ \/ page # Composer!NoPage /\ building' = "built" /\ page' = page
         \/ page = Composer!NoPage /\ building' = "trim" /\ page' = Composer!Composed(1)
  BY DEF Composer!Searched
<1>2. Len(entries) \in Nat /\ low \in 1 .. Len(entries) + 1 /\ high \in 0 .. Len(entries) /\ Listed
  BY DEF PageInv, Listed
<1>3. low = high + 1
  <2>1. low <= high + 1
    BY <1>1 DEF PageInv
  <2> QED BY <1>1, <1>2, <2>1
<1>4. /\ \A n \in high + 1 .. Len(entries) : ~Composer!Fits(Composer!Composed(n))
      /\ low > 1 => page = Composer!Composed(low - 1) /\ Composer!Fits(page)
      /\ low = 1 => page = Composer!NoPage
  BY <1>1 DEF PageInv
<1>5. UNCHANGED entries
  BY <1>1
<1>6. \A n \in high' + 1 .. Len(entries)' : ~Composer!Fits(Composer!Composed(n))'
  BY <1>1, <1>4, <1>5, SameEvents
<1>7. Listed' /\ low' \in 1 .. Len(entries)' + 1 /\ high' \in 0 .. Len(entries)' /\ low' = high' + 1
  BY <1>1, <1>2, <1>3, <1>5, SameEvents
<1>8. CASE low > 1
  <2>1. page # Composer!NoPage
    BY <1>2, <1>4, <1>8 DEF Composer!Composed, Composer!NoPage
  <2>2. building' = "built" /\ page' = Composer!Composed(low - 1)' /\ Composer!Fits(page)' /\ low' > 1 /\ low' # 1
    <3>1. page' = page /\ page = Composer!Composed(low - 1) /\ Composer!Fits(page)
      BY <1>1, <1>4, <1>8, <2>1
    <3>2. Composer!Composed(low - 1)' = Composer!Composed(low - 1)
      BY <1>1, <1>5, SameEvents
    <3>3. Composer!Fits(page)' = Composer!Fits(page)
      BY <3>1, <1>5, SameEvents
    <3>4. low' = low /\ low \in Nat
      BY <1>1, <1>2
    <3>5. Composer!Composed(low - 1)' = Composer!Composed(low - 1) /\ Composer!Fits(page)'
      BY <3>1, <3>2, <3>3
    <3>6. page' = Composer!Composed(low - 1)'
      BY <3>1, <3>5
    <3> QED BY <1>1, <1>8, <2>1, <3>4, <3>5, <3>6
  <2> QED BY <1>6, <1>7, <2>2 DEF PageInv
<1>9. CASE low = 1
  <2>1. building' = "trim" /\ page' = Composer!Composed(1) /\ low' = 1
    BY <1>1, <1>4, <1>9
  <2>2. CutTo(page', Composer!Items(1)) /\ IsPage(page') /\ Composer!Items(1) \in 0 .. Composer!Items(1)
    BY <1>2, <2>1, FirstEvent
  <2>3. CutTo(page, Composer!Items(1))' /\ IsPage(page)' /\ Composer!Items(1)' \in 0 .. Composer!Items(1)'
    BY <1>5, <2>2 DEF CutTo, IsPage, Composer!PartsOf, Composer!Items
  <2>4. ~(low' > 1) /\ building' # "search" /\ building' # "built"
    BY <2>1
  <2>5. (\E m \in 0 .. Composer!Items(1) : CutTo(page, m))'
    BY <2>3
  <2> QED BY <1>6, <1>7, <2>1, <2>3, <2>4, <2>5 DEF PageInv
<1>10. low > 1 \/ low = 1
  BY <1>2
<1> QED BY <1>8, <1>9, <1>10

LEMMA TrimPage ==
  ASSUME Composer!PageAssumption, PageInv, Composer!Trim PROVE PageInv'
<1>1. /\ building = "trim" /\ UNCHANGED <<entries, low, high>>
      /\ \/ page.items # {} /\ ~Composer!Fits(page) /\ page' = Composer!Trimmed(page) /\ building' = building
         \/ Composer!Fits(page) /\ building' = "built" /\ page' = page
         \/ ~Composer!Fits(page) /\ building' = "refused" /\ page' = page
  BY DEF Composer!Trim
<1>2. Len(entries) \in Nat /\ low \in 1 .. Len(entries) + 1 /\ high \in 0 .. Len(entries) /\ Listed
      /\ low = high + 1 /\ ~(low > 1)
      /\ \A n \in high + 1 .. Len(entries) : ~Composer!Fits(Composer!Composed(n))
  BY <1>1 DEF PageInv, Listed
<1>3. low = 1 /\ UNCHANGED entries
  BY <1>1, <1>2
<1>4. IsPage(page) /\ \E m \in 0 .. Composer!Items(1) : CutTo(page, m)
  BY <1>1, <1>3 DEF PageInv
<1>5. PICK m \in 0 .. Composer!Items(1) : CutTo(page, m)
  BY <1>4
<1>6. Composer!Items(1) \in Nat /\ entries[1].drops \in Nat
  <2>1. 1 \in 1 .. Len(entries)
    BY <1>2 DEF Listed
  <2> QED BY <1>2, <2>1, EventFacts
<1>7. /\ Listed' /\ low' \in 1 .. Len(entries)' + 1 /\ high' \in 0 .. Len(entries)' /\ low' = high' + 1
      /\ low' = 1 /\ ~(low' > 1)
      /\ \A n \in high' + 1 .. Len(entries)' : ~Composer!Fits(Composer!Composed(n))'
  BY <1>1, <1>2, <1>3, SameEvents
<1>8. IsPage(page') /\ \E k \in 0 .. Composer!Items(1) : CutTo(page', k)
  <2>1. CASE page.items # {} /\ page' = Composer!Trimmed(page)
    <3>1. m # 0
      BY <1>5, <2>1 DEF CutTo, Composer!PartsOf
    <3>2. m \in Nat \ {0} /\ m - 1 \in 0 .. Composer!Items(1)
      BY <1>6, <3>1
    <3>3. CutTo(Composer!Trimmed(page), m - 1) /\ IsPage(Composer!Trimmed(page))
      BY <1>4, <1>5, <1>6, <3>2, TrimmedOne
    <3> QED BY <2>1, <3>2, <3>3
  <2>2. CASE page' = page
    BY <2>2, <1>4
  <2> QED BY <1>1, <2>1, <2>2
<1>9. IsPage(page)' /\ (\E k \in 0 .. Composer!Items(1) : CutTo(page, k))'
  BY <1>3, <1>8 DEF CutTo, IsPage, Composer!PartsOf, Composer!Items
<1>10. building' \in {"trim", "built", "refused"} /\ (building' = "built" => Composer!Fits(page)')
  <2>1. page' = page => Composer!Fits(page)' = Composer!Fits(page)
    BY <1>3, SameEvents
  <2> QED BY <1>1, <2>1
<1> QED BY <1>7, <1>9, <1>10 DEF PageInv

LEMMA PageInvariant ==
  ASSUME Composer!PageAssumption PROVE Composer!Spec => []PageInv
<1>1. Composer!Init => PageInv
  BY InitPage
<1>2. PageInv /\ [Composer!Next]_Composer!vars => PageInv'
  <2> SUFFICES ASSUME PageInv, [Composer!Next]_Composer!vars PROVE PageInv'
    OBVIOUS
  <2>1. CASE Composer!Search
    BY <2>1, SearchPage
  <2>2. CASE Composer!Searched
    BY <2>2, SearchedPage
  <2>3. CASE Composer!Trim
    BY <2>3, TrimPage
  <2>4. CASE UNCHANGED Composer!vars
    <3>1. UNCHANGED <<entries, low, high, page, building>>
      BY <2>4 DEF Composer!vars
    <3>2. (Composer!NoPage = Composer!NoPage') /\ UNCHANGED Len(entries)
      BY <3>1 DEF Composer!NoPage
    <3> QED BY <3>1, <3>2, SameEvents DEF PageInv
  <2> QED BY <2>1, <2>2, <2>3, <2>4 DEF Composer!Next
<1> QED BY <1>1, <1>2, PTL DEF Composer!Spec

-----------------------------------------------------------------------------
(* What a built page shows and counts                                      *)

\* A built page is a prefix of the events, or a cut of the first one.
LEMMA BuiltPage ==
  ASSUME PageInv, building = "built"
  PROVE  /\ Listed /\ low = high + 1 /\ low \in 1 .. Len(entries) + 1 /\ Composer!Fits(page)
         /\ \/ low > 1 /\ page = Composer!Composed(low - 1) /\ low - 1 \in 1 .. Len(entries)
            \/ low = 1 /\ \E m \in 0 .. Composer!Items(1) : CutTo(page, m)
<1>1. Listed /\ low = high + 1 /\ low \in 1 .. Len(entries) + 1 /\ Composer!Fits(page)
  BY DEF PageInv
<1>2. low > 1 => page = Composer!Composed(low - 1)
  BY DEF PageInv
<1>3. low = 1 => \E m \in 0 .. Composer!Items(1) : CutTo(page, m)
  BY DEF PageInv
<1>4. low > 1 => low - 1 \in 1 .. Len(entries)
  BY <1>1 DEF Listed
<1>5. low > 1 \/ low = 1
  BY <1>1 DEF Listed
<1> QED BY <1>1, <1>2, <1>3, <1>4, <1>5

LEMMA PrefixShown ==
  ASSUME Composer!PageAssumption, Listed, NEW n \in 1 .. Len(entries)
  PROVE  {it[1] : it \in Composer!ItemsOf(n)} = Composer!Represented(n)
<1>1. \A i \in 1 .. n : i \in 1 .. Len(entries)
  BY DEF Listed
<1>2. \A i \in 1 .. n : Composer!Items(i) \in Nat /\ (entries[i].sizes = <<>> <=> Composer!Items(i) = 0)
  BY <1>1, EventFacts
<1>3. ASSUME NEW i \in Composer!Represented(n) PROVE i \in {it[1] : it \in Composer!ItemsOf(n)}
  <2>1. i \in 1 .. n /\ Composer!Items(i) \in Nat \ {0}
    BY <1>2, <1>3 DEF Composer!Represented
  <2>2. 1 \in 1 .. Composer!Items(i)
    BY <2>1
  <2>3. <<i, 1>> \in Composer!ItemsOf(n) /\ <<i, 1>>[1] = i
    BY <2>1, <2>2 DEF Composer!ItemsOf, Composer!PartsOf
  <2> QED BY <2>3
<1>4. ASSUME NEW it \in Composer!ItemsOf(n) PROVE it[1] \in Composer!Represented(n)
  <2>1. PICK i \in 1 .. n : \E k \in 1 .. Composer!Items(i) : it = <<i, k>>
    BY DEF Composer!ItemsOf, Composer!PartsOf
  <2>2. it[1] = i /\ Composer!Items(i) # 0
    BY <1>2, <2>1
  <2> QED BY <1>2, <2>1, <2>2 DEF Composer!Represented
<1> QED BY <1>3, <1>4

LEMMA CutShown ==
  ASSUME NEW m \in Nat
  PROVE  {it[1] : it \in Composer!PartsOf(1, 1 .. m)} = IF m = 0 THEN {} ELSE {1}
<1>1. Composer!PartsOf(1, 1 .. m) = {<<1, k>> : k \in 1 .. m}
  BY DEF Composer!PartsOf
<1>2. CASE m = 0
  BY <1>1, <1>2
<1>3. CASE m # 0
  <2>1. 1 \in 1 .. m
    BY <1>3
  <2>2. <<1, 1>> \in Composer!PartsOf(1, 1 .. m) /\ <<1, 1>>[1] = 1
    BY <1>1, <2>1
  <2>3. \A it \in Composer!PartsOf(1, 1 .. m) : it[1] = 1
    BY <1>1
  <2> QED BY <1>3, <2>2, <2>3
<1> QED BY <1>2, <1>3

LEMMA Accounted ==
  ASSUME Composer!PageAssumption, PageInv PROVE Composer!EveryEventAccounted
<1> SUFFICES ASSUME building = "built"
             PROVE  Composer!Fits(page) /\ page.to > 0 /\ Cardinality(Composer!Shown) + page.omitted = page.to
  BY ComposerLibrary DEF Composer!EveryEventAccounted
<1>1. CASE low > 1 /\ page = Composer!Composed(low - 1) /\ low - 1 \in 1 .. Len(entries)
  <2> DEFINE n == low - 1
  <2>1. Listed /\ n \in 1 .. Len(entries) /\ Composer!Fits(page) /\ page = Composer!Composed(n)
    BY <1>1, BuiltPage
  <2> HIDE DEF n
  <2>2. page.to = n /\ page.omitted = Cardinality((1 .. n) \ Composer!Represented(n)) /\ page.items = Composer!ItemsOf(n)
    BY ComposerLibrary, <2>1 DEF Composer!Composed
  <2>3. Composer!Shown = Composer!Represented(n)
    BY <2>1, <2>2, PrefixShown DEF Composer!Shown
  <2>4. IsFiniteSet(1 .. n) /\ Cardinality(1 .. n) = n /\ IsFiniteSet(Composer!Represented(n)) /\ n \in Nat \ {0}
    <3>1. n \in 0 .. Len(entries) /\ n \in Nat \ {0}
      BY <2>1 DEF Listed
    <3> QED BY <2>1, <3>1, PrefixFinite
  <2>5. (1 .. n) \cap Composer!Represented(n) = Composer!Represented(n)
    BY DEF Composer!Represented
  <2>6. Cardinality((1 .. n) \ Composer!Represented(n)) = n - Cardinality(Composer!Represented(n))
    BY <2>4, <2>5, FS_Difference
  <2>7. Cardinality(Composer!Represented(n)) \in Nat
    BY <2>4, FS_CardinalityType
  <2> QED BY <2>1, <2>2, <2>3, <2>4, <2>6, <2>7
<1>2. ASSUME NEW m \in 0 .. Composer!Items(1), CutTo(page, m) PROVE Composer!Fits(page) /\ page.to > 0
                                                                    /\ Cardinality(Composer!Shown) + page.omitted = page.to
  <2>1. m \in Nat /\ Listed /\ Composer!Fits(page)
    <3>1. Composer!Items(1) \in Nat /\ Listed /\ Composer!Fits(page)
      BY BuiltPage, FirstEvent
    <3> QED BY <3>1
  <2>2. Composer!Shown = IF m = 0 THEN {} ELSE {1}
    BY <1>2, <2>1, CutShown DEF Composer!Shown, CutTo
  <2>3. Cardinality({}) = 0 /\ Cardinality({1}) = 1
    BY FS_EmptySet, FS_Singleton
  <2> QED BY <1>2, <2>1, <2>2, <2>3 DEF CutTo
<1> QED BY <1>1, <1>2, BuiltPage

LEMMA Dropped ==
  ASSUME Composer!PageAssumption, PageInv PROVE Composer!NothingDroppedSilently
<1> DEFINE All(S) == UNION {Composer!PartsOf(i, 1 .. Composer!Items(i) + entries[i].drops) : i \in S}
<1> SUFFICES ASSUME building = "built"
             PROVE  Cardinality(page.items) + page.partial = Cardinality(All(Composer!Shown))
  BY ComposerLibrary DEF Composer!NothingDroppedSilently
<1>1. CASE low > 1 /\ page = Composer!Composed(low - 1) /\ low - 1 \in 1 .. Len(entries)
  <2> DEFINE n == low - 1
  <2>1. Listed /\ n \in 1 .. Len(entries) /\ page = Composer!Composed(n) /\ n \in 0 .. Len(entries)
    BY <1>1, BuiltPage
  <2> HIDE DEF n
  <2>2. page.partial = Cardinality(Composer!PartialOf(n)) /\ page.items = Composer!ItemsOf(n)
    BY ComposerLibrary, <2>1 DEF Composer!Composed
  <2>3. Composer!Shown = Composer!Represented(n)
    BY <2>1, <2>2, PrefixShown DEF Composer!Shown
  <2>4. IsFiniteSet(Composer!ItemsOf(n)) /\ IsFiniteSet(Composer!PartialOf(n))
    BY <2>1, PrefixFinite
  <2>5. \A i \in 1 .. n : i \in 1 .. Len(entries)
    BY <2>1 DEF Listed
  <2>6. \A i \in 1 .. n : /\ Composer!Items(i) \in Nat /\ entries[i].drops \in Nat
                          /\ entries[i].sizes = <<>> <=> Composer!Items(i) = 0
    BY <2>1, <2>5, EventFacts
  <2>7. Composer!ItemsOf(n) \cap Composer!PartialOf(n) = {}
    <3>1. \A it \in Composer!ItemsOf(n) : it[1] \in 1 .. n /\ it[2] \in 1 .. Composer!Items(it[1])
      BY DEF Composer!ItemsOf, Composer!PartsOf
    <3>2. \A it \in Composer!PartialOf(n) : it[2] \in Composer!Items(it[1]) + 1 .. Composer!Items(it[1]) + entries[it[1]].drops
      BY DEF Composer!PartialOf, Composer!PartsOf
    <3> QED BY <2>6, <3>1, <3>2
  <2>8. Composer!ItemsOf(n) \cup Composer!PartialOf(n) = All(Composer!Represented(n))
    <3>1. \A i \in Composer!Represented(n) : i \in 1 .. n
      BY DEF Composer!Represented
    <3>2. \A i \in 1 .. n : Composer!PartsOf(i, 1 .. Composer!Items(i) + entries[i].drops)
                 = Composer!PartsOf(i, 1 .. Composer!Items(i)) \cup Composer!PartsOf(i, Composer!Items(i) + 1 .. Composer!Items(i) + entries[i].drops)
      <4> TAKE i \in 1 .. n
      <4>1. 1 .. Composer!Items(i) + entries[i].drops
              = (1 .. Composer!Items(i)) \cup (Composer!Items(i) + 1 .. Composer!Items(i) + entries[i].drops)
        BY <2>6
      <4> QED BY <4>1 DEF Composer!PartsOf
    <3>3. \A i \in 1 .. n : i \notin Composer!Represented(n) => Composer!PartsOf(i, 1 .. Composer!Items(i)) = {}
      BY <2>6 DEF Composer!Represented, Composer!PartsOf
    <3>4. Composer!ItemsOf(n) = UNION {Composer!PartsOf(i, 1 .. Composer!Items(i)) : i \in Composer!Represented(n)}
      BY <3>1, <3>3 DEF Composer!ItemsOf
    <3> QED BY <3>1, <3>2, <3>4 DEF Composer!PartialOf
  <2>9. Cardinality(Composer!ItemsOf(n) \cup Composer!PartialOf(n))
          = Cardinality(Composer!ItemsOf(n)) + Cardinality(Composer!PartialOf(n)) - Cardinality(Composer!ItemsOf(n) \cap Composer!PartialOf(n))
    BY <2>4, FS_Union
  <2>10. Cardinality(Composer!ItemsOf(n)) \in Nat /\ Cardinality(Composer!PartialOf(n)) \in Nat
    BY <2>4, FS_CardinalityType
  <2>11. Cardinality(Composer!ItemsOf(n) \cap Composer!PartialOf(n)) = 0
    BY <2>7, FS_EmptySet
  <2>12. Cardinality(All(Composer!Shown)) = Cardinality(Composer!ItemsOf(n)) + Cardinality(Composer!PartialOf(n))
    <3>1. All(Composer!Shown) = Composer!ItemsOf(n) \cup Composer!PartialOf(n)
      BY <2>3, <2>8
    <3> HIDE DEF All
    <3> QED BY <2>9, <2>10, <2>11, <3>1
  <2> QED BY <2>2, <2>12
<1>2. ASSUME NEW m \in 0 .. Composer!Items(1), CutTo(page, m)
      PROVE  Cardinality(page.items) + page.partial = Cardinality(All(Composer!Shown))
  <2>1. m \in Nat /\ Composer!Items(1) \in Nat /\ Listed /\ entries[1].drops \in Nat
    <3>1. Composer!Items(1) \in Nat /\ Listed
      BY BuiltPage, FirstEvent
    <3>2. 1 \in 1 .. Len(entries)
      BY <3>1 DEF Listed
    <3> QED BY <3>1, <3>2, EventFacts
  <2>2. Composer!Shown = IF m = 0 THEN {} ELSE {1}
    BY <1>2, <2>1, CutShown DEF Composer!Shown, CutTo
  <2>3. Cardinality(page.items) = m
    BY <1>2, <2>1, Ranges, PartsCount DEF CutTo
  <2>4. CASE m = 0
    <3>1. All(Composer!Shown) = {} /\ page.partial = 0
      BY <1>2, <2>2, <2>4 DEF CutTo
    <3>2. Cardinality({}) = 0
      BY FS_EmptySet
    <3> HIDE DEF All
    <3> QED BY <2>3, <2>4, <3>1, <3>2
  <2>5. CASE m # 0
    <3>1. All(Composer!Shown) = Composer!PartsOf(1, 1 .. Composer!Items(1) + entries[1].drops)
      BY <2>2, <2>5
    <3>2. Composer!Items(1) + entries[1].drops \in Nat
      BY <2>1
    <3>3. Cardinality(All(Composer!Shown)) = Composer!Items(1) + entries[1].drops
      <4> HIDE DEF All
      <4> DEFINE b == Composer!Items(1) + entries[1].drops
      <4>1. b \in Nat
        BY <3>2
      <4> HIDE DEF b
      <4>2. IsFiniteSet(1 .. b) /\ Cardinality(1 .. b) = b
        BY <4>1, Ranges
      <4>3. Cardinality(Composer!PartsOf(1, 1 .. b)) = b
        BY <4>2, PartsCount
      <4>4. All(Composer!Shown) = Composer!PartsOf(1, 1 .. b)
        BY <3>1 DEF b
      <4>5. Cardinality(All(Composer!Shown)) = b
        BY <4>3, <4>4
      <4> QED BY <4>5 DEF b
    <3>4. page.partial = entries[1].drops + (Composer!Items(1) - m)
      BY <1>2, <2>1, <2>5 DEF CutTo
    <3> HIDE DEF All
    <3> QED BY <2>1, <2>3, <3>3, <3>4
  <2> QED BY <2>4, <2>5
<1> QED BY <1>1, <1>2, BuiltPage

LEMMA Longest ==
  ASSUME Composer!PageAssumption, PageInv PROVE Composer!LongestPrefix
<1> SUFFICES ASSUME building = "built", NEW n \in page.to + 1 .. Len(entries) PROVE ~Composer!Fits(Composer!Composed(n))
  BY DEF Composer!LongestPrefix
<1>1. Listed /\ low = high + 1 /\ low \in 1 .. Len(entries) + 1 /\ Len(entries) \in Nat
  BY BuiltPage DEF Listed
<1>2. page.to = low - 1 \/ (page.to = 1 /\ low = 1)
  <2>1. CASE low > 1 /\ page = Composer!Composed(low - 1)
    BY <2>1 DEF Composer!Composed
  <2>2. CASE low = 1 /\ \E m \in 0 .. Composer!Items(1) : CutTo(page, m)
    BY <2>2 DEF CutTo
  <2> QED BY <2>1, <2>2, BuiltPage
<1>3. n \in high + 1 .. Len(entries)
  <2>1. high \in Int
    BY DEF PageInv
  <2> QED BY <1>1, <1>2, <2>1
<1> QED BY <1>3 DEF PageInv

LEMMA PageTyped ==
  ASSUME Composer!PageAssumption, PageInv PROVE Composer!TypeOK
<1>1. Len(entries) \in Nat \ {0} /\ low \in 1 .. Len(entries) + 1 /\ high \in 0 .. Len(entries)
      /\ building \in {"search", "trim", "built", "refused"}
  BY DEF PageInv, Listed
<1>2. page.to \in 0 .. Len(entries)
  <2>1. CASE low > 1
    <3>1. page.to = low - 1
      BY <2>1 DEF PageInv, Composer!Composed
    <3> QED BY <1>1, <2>1, <3>1
  <2>2. CASE low = 1
    <3>1. page.to = 0 \/ page.to = 1
      BY <2>2 DEF PageInv, Composer!NoPage, CutTo
    <3> QED BY <1>1, <3>1
  <2> QED BY <1>1, <2>1, <2>2
<1> QED BY <1>1, <1>2 DEF Composer!TypeOK

(* A page says of each event of its range and of each item of an event that  *)
(* it is there or that it was left out, within the bounds of a page, and it  *)
(* is the longest that can be sent, for any history and any bounds.          *)
THEOREM PagesAccount ==
  ASSUME Composer!PageAssumption
  PROVE  Composer!Spec => [](Composer!TypeOK /\ Composer!EveryEventAccounted /\ Composer!NothingDroppedSilently /\ Composer!LongestPrefix)
<1>1. PageInv => Composer!TypeOK /\ Composer!EveryEventAccounted /\ Composer!NothingDroppedSilently /\ Composer!LongestPrefix
  BY PageTyped, Accounted, Dropped, Longest
<1> QED BY <1>1, PageInvariant, PTL

-----------------------------------------------------------------------------
(* The building of a snapshot, for any memory and any limits: what is missing *)
(* is told, no relation names a row that was left out, and the budget takes   *)
(* the lists in their order.                                                  *)

\* An instance has its own copy of the library's operators.
LEMMA SnapshotLibrary ==
  /\ \A S : Snapshot!Cardinality(S) = Cardinality(S)
  /\ \A I, i : Snapshot!Rank(I, i) = Rank(I, i)
  /\ \A s, I : Snapshot!Sub(s, I) = Sub(s, I)
<1>1. \A S : Snapshot!Cardinality(S) = Cardinality(S)
  BY Zenon DEF Snapshot!Cardinality, Cardinality
<1>2. \A I, i : Snapshot!Rank(I, i) = Rank(I, i)
  BY Zenon DEF Snapshot!Rank, Rank, Snapshot!Cardinality, Cardinality
<1>3. \A s, I : Snapshot!Sub(s, I) = Sub(s, I)
  BY Zenon DEF Snapshot!Sub, Sub, Snapshot!Rank, Rank, Snapshot!Cardinality, Cardinality
<1> QED BY <1>1, <1>2, <1>3

-----------------------------------------------------------------------------
(* The start of a list                                                     *)

\* What is left out of a sequence moves no element back.
LEMMA SubEarlier ==
  ASSUME NEW S, NEW s \in Seq(S), NEW I \in SUBSET DOMAIN s, NEW i \in I
  PROVE  /\ Rank(I, i) \in 1 .. i /\ Rank(I, i) \in DOMAIN Sub(s, I)
         /\ Sub(s, I)[Rank(I, i)] = s[i]
<1>1. PICK n \in Nat : n = Len(s) /\ I \in SUBSET (1 .. n) /\ i \in 1 .. n
  BY SMT
<1>2. /\ Rank(I, i) \in 1 .. Cardinality(I) /\ Cardinality(I) \in Nat
      /\ \A j \in I : Rank(I, j) = Rank(I, i) => j = i
  <2>1. /\ \A j \in I : Rank(I, j) \in 1 .. Cardinality(I)
        /\ \A j, k \in I : j < k => Rank(I, j) < Rank(I, k)
        /\ Cardinality(I) \in Nat
    BY <1>1, RankIncreases
  <2>2. \A j \in I : j \in Nat
    BY <1>1
  <2> QED BY <2>1, <2>2
<1>3. Rank(I, i) <= i
  <2>1. IsFiniteSet(1 .. i) /\ Cardinality(1 .. i) = i
    BY <1>1, FS_Interval
  <2>2. {j \in I : j <= i} \subseteq 1 .. i
    BY <1>1
  <2>3. Cardinality({j \in I : j <= i}) <= Cardinality(1 .. i)
    BY <2>1, <2>2, FS_Subset
  <2> QED BY <2>1, <2>3 DEF Rank
<1>4. DOMAIN Sub(s, I) = 1 .. Cardinality(I)
  BY DEF Sub
<1>5. (CHOOSE j \in I : Rank(I, j) = Rank(I, i)) = i
  BY <1>2
<1>6. Sub(s, I)[Rank(I, i)] = s[i]
  BY <1>2, <1>5 DEF Sub
<1> QED BY <1>1, <1>2, <1>3, <1>4, <1>6

LEMMA FirstCount ==
  ASSUME NEW n \in Nat, NEW I \in SUBSET (1 .. n), NEW k \in Nat
  PROVE  /\ Snapshot!First(I, k) \subseteq I /\ IsFiniteSet(Snapshot!First(I, k))
         /\ Cardinality(Snapshot!First(I, k)) <= k
<1> DEFINE F == Snapshot!First(I, k)
           f == [i \in F |-> Rank(I, i)]
<1>1. F \subseteq I
  BY DEF Snapshot!First
<1>2. /\ \A i \in I : Rank(I, i) \in 1 .. Cardinality(I)
      /\ \A i, j \in I : i < j => Rank(I, i) < Rank(I, j)
      /\ Cardinality(I) \in Nat /\ IsFiniteSet(I)
  BY RankIncreases
<1>3. IsFiniteSet(1 .. k) /\ Cardinality(1 .. k) = k
  BY FS_Interval
<1>4. \A i \in F : Rank(I, i) \in 1 .. k
  BY SnapshotLibrary, <1>2 DEF Snapshot!First
<1>5. \A i, j \in F : Rank(I, i) = Rank(I, j) => i = j
  <2>1. \A i, j \in I : i \in Nat /\ j \in Nat
    OBVIOUS
  <2>2. \A i, j \in I : Rank(I, i) \in Nat /\ Rank(I, j) \in Nat
    BY <1>2
  <2>3. \A i, j \in I : Rank(I, i) = Rank(I, j) => ~(i < j) /\ ~(j < i)
    BY <1>2, <2>2
  <2>4. \A i, j \in I : ~(i < j) /\ ~(j < i) => i = j
    BY <2>1
  <2> HIDE DEF F
  <2> QED BY <1>1, <2>3, <2>4
<1> HIDE DEF F
<1>6. f \in Injection(F, 1 .. k)
  BY <1>4, <1>5 DEF Injection, IsInjective
<1>7. Cardinality(F) <= k
  <2> HIDE DEF f
  <2>1. Cardinality(F) <= Cardinality(1 .. k)
    BY <1>3, <1>6, FS_Injection
  <2> QED BY <1>3, <2>1
<1>8. IsFiniteSet(F)
  BY <1>1, <1>2, FS_Subset
<1> QED BY <1>1, <1>7, <1>8 DEF F

LEMMA KeptFinite ==
  ASSUME NEW S, NEW s \in Seq(S), NEW n \in Nat
  PROVE  IsFiniteSet(Snapshot!Kept(s, n)) /\ Cardinality(Snapshot!Kept(s, n)) \in Nat
<1> DEFINE I == {j \in DOMAIN s : s[j] \in Portable}
           f == [k \in Snapshot!First(I, n) |-> s[k]]
<1>1. PICK m \in Nat : I \in SUBSET (1 .. m)
  <2>1. Len(s) \in Nat /\ DOMAIN s = 1 .. Len(s)
    OBVIOUS
  <2> QED BY <2>1
<1>2. f \in Surjection(Snapshot!First(I, n), Snapshot!Kept(s, n))
  BY DEF Surjection, Snapshot!Kept
<1> HIDE DEF I
<1>3. IsFiniteSet(Snapshot!First(I, n))
  BY <1>1, FirstCount
<1>4. IsFiniteSet(Snapshot!Kept(s, n))
  <2> HIDE DEF f
  <2> QED BY <1>2, <1>3, FS_Surjection
<1> QED BY <1>4, FS_CardinalityType

LEMMA UptoFacts ==
  ASSUME NEW S, NEW s \in Seq(S), NEW n \in Nat
  PROVE  /\ Snapshot!Upto(s, n) \in Seq(S) /\ Len(Snapshot!Upto(s, n)) <= n /\ Len(Snapshot!Upto(s, n)) \in Nat
         /\ \A i \in DOMAIN s : i <= n => i \in DOMAIN Snapshot!Upto(s, n) /\ Snapshot!Upto(s, n)[i] = s[i]
<1> DEFINE m == IF n < Len(s) THEN n ELSE Len(s)
<1>1. Len(s) \in Nat /\ DOMAIN s = 1 .. Len(s) /\ m \in 0 .. Len(s) /\ m <= n /\ m \in Nat
      /\ \A i \in DOMAIN s : i <= n => i \in 1 .. m
  OBVIOUS
<1>2. Snapshot!Upto(s, n) = SubSeq(s, 1, m)
  BY DEF Snapshot!Upto
<1> HIDE DEF m
<1>3. /\ SubSeq(s, 1, m) \in Seq(S) /\ Len(SubSeq(s, 1, m)) = m
      /\ DOMAIN SubSeq(s, 1, m) = 1 .. m /\ \A i \in 1 .. m : SubSeq(s, 1, m)[i] = s[i]
  BY <1>1
<1> QED BY <1>1, <1>2, <1>3

\* x is among the first n of s.
Within(x, s, n) == \E k \in DOMAIN s : k <= n /\ s[k] = x

\* A warning that is put first pushes another one back by one place at most.
LEMMA PrependFacts ==
  ASSUME NEW S, NEW s \in Seq(S), NEW w, MaxWarnings \in Nat, MaxWarnings > 0
  PROVE  /\ Snapshot!Prepend(w, s) \in Seq(S \cup {w}) /\ Len(Snapshot!Prepend(w, s)) <= MaxWarnings
         /\ 1 \in DOMAIN Snapshot!Prepend(w, s) /\ Snapshot!Prepend(w, s)[1] = w
         /\ \A i \in DOMAIN s : i < MaxWarnings /\ s[i] # w => Within(s[i], Snapshot!Prepend(w, s), i + 1)
<1> DEFINE I == {i \in DOMAIN s : s[i] # w}
           t == Sub(s, I)
           u == <<w>> \o t
<1>1. t \in Seq(S) /\ I \in SUBSET DOMAIN s
  BY SubElements
<1>2. \A i \in I : \E k \in DOMAIN t : k \in 1 .. i /\ t[k] = s[i]
  BY <1>1, SubEarlier
<1>3. Snapshot!Prepend(w, s) = Snapshot!Upto(u, MaxWarnings)
  BY SnapshotLibrary DEF Snapshot!Prepend
<1>4. DOMAIN s = 1 .. Len(s) /\ Len(s) \in Nat
  OBVIOUS
<1> HIDE DEF t
<1>5. /\ u \in Seq(S \cup {w}) /\ u[1] = w /\ 1 \in DOMAIN u
      /\ \A k \in DOMAIN t : k \in Nat /\ k + 1 \in DOMAIN u /\ u[k + 1] = t[k]
  <2>1. t \in Seq(S \cup {w}) /\ <<w>> \in Seq(S \cup {w}) /\ DOMAIN t = 1 .. Len(t) /\ Len(t) \in Nat
    BY <1>1
  <2>2. u \in Seq(S \cup {w}) /\ Len(u) = 1 + Len(t) /\ DOMAIN u = 1 .. 1 + Len(t)
    BY <2>1
  <2>3. u[1] = w
    BY <2>1
  <2>4. \A k \in 1 .. Len(t) : u[k + 1] = t[k]
    BY <2>1
  <2> QED BY <2>1, <2>2, <2>3, <2>4
<1> HIDE DEF u
<1>6. /\ Snapshot!Upto(u, MaxWarnings) \in Seq(S \cup {w}) /\ Len(Snapshot!Upto(u, MaxWarnings)) <= MaxWarnings
      /\ \A i \in DOMAIN u : i <= MaxWarnings => /\ i \in DOMAIN Snapshot!Upto(u, MaxWarnings)
                                                  /\ Snapshot!Upto(u, MaxWarnings)[i] = u[i]
  BY <1>5, UptoFacts
<1>7. ASSUME NEW i \in DOMAIN s, i < MaxWarnings, s[i] # w
      PROVE  Within(s[i], Snapshot!Upto(u, MaxWarnings), i + 1)
  <2>1. PICK k \in DOMAIN t : k \in 1 .. i /\ t[k] = s[i]
    BY <1>2, <1>7
  <2>2. k + 1 \in DOMAIN u /\ u[k + 1] = s[i] /\ k + 1 <= MaxWarnings /\ k + 1 <= i + 1
    BY <1>4, <1>5, <1>7, <2>1
  <2>3. k + 1 \in DOMAIN Snapshot!Upto(u, MaxWarnings) /\ Snapshot!Upto(u, MaxWarnings)[k + 1] = s[i]
    BY <1>6, <2>2
  <2> QED BY <2>2, <2>3 DEF Within
<1>8. 1 \in DOMAIN Snapshot!Upto(u, MaxWarnings) /\ Snapshot!Upto(u, MaxWarnings)[1] = w
  BY <1>5, <1>6
<1> QED BY <1>3, <1>6, <1>7, <1>8

-----------------------------------------------------------------------------
(* What is missing, and what is said of it                                 *)

Paths == Snapshot!MemoryPaths \cup Snapshot!Content(input.touched)
NothingMissing == \A l \in Snapshot!Names : rows[l] = Snapshot!Source(l)
Covered == Paths \subseteq Snapshot!Files \cup Snapshot!PathsKept("components") \cup Snapshot!PathsKept("changes") \cup summary
SaidIn(s, n) == \E i \in DOMAIN s : i <= n /\ s[i][1] \in Snapshot!RowKinds
Said(n) == SaidIn(warnings, n)
Unrelated == \A i \in rows["relations"] : Snapshot!Row("relations", i).ends \cap Snapshot!Removed = {}
InOrder == \A i \in 2 .. Len(Lists) :
             rows[Lists[i]] # Snapshot!Projected(Lists[i]) => \A k \in 1 .. i - 1 : rows[Lists[k]] = {}
Emptied == \A l \in Snapshot!Names : rows[l] = {}
Given == input \in [rows : Memories, touched : Touched, rest : RestSizes]

SnapInv ==
  /\ Given /\ DOMAIN rows = Snapshot!Names
  /\ step \in {"project", "relate", "cover", "measure", "fit", "check", "built", "refused"}
  /\ (\E S : warnings \in Seq(S)) /\ Len(warnings) <= MaxWarnings
  /\ \A l \in Snapshot!Names : rows[l] \subseteq Snapshot!Projected(l)
  /\ summary \subseteq Paths
  /\ step \in {"relate", "cover", "measure"} => \A l \in Snapshot!Items : rows[l] = Snapshot!Projected(l)
  /\ step \notin {"project", "relate"} => Unrelated /\ InOrder
  /\ step = "cover" => NothingMissing \/ Said(1)
  /\ step = "measure" => (NothingMissing /\ Covered) \/ Said(3)
  /\ step = "fit" => Snapshot!RowsSaid
  /\ step \in {"check", "built", "refused"} => /\ ((NothingMissing /\ Covered) \/ Snapshot!RowsSaid)
                                              /\ (Snapshot!Fits \/ Emptied)
  /\ step = "refused" => ~Snapshot!Fits

LEMMA ListFacts ==
  ASSUME Snapshot!SnapshotAssumption
  PROVE  /\ "relations" \in Snapshot!Names /\ \A i \in 1 .. Len(Lists) : Lists[i] \in Snapshot!Names
         /\ \A l \in Snapshot!Names : \E i \in 1 .. Len(Lists) : l = Lists[i]
         /\ Len(Lists) \in Nat /\ DOMAIN Lists = 1 .. Len(Lists) /\ 1 \in DOMAIN Lists
         /\ \A i \in 2 .. Len(Lists) : Lists[i] \in Snapshot!Items
         /\ \A i, j \in 1 .. Len(Lists) : Lists[i] = Lists[j] => i = j
         /\ Lists[1] = "relations"
<1>1. Len(Lists) \in Nat /\ DOMAIN Lists = 1 .. Len(Lists) /\ 1 \in DOMAIN Lists /\ Lists[1] = "relations"
  BY DEF Snapshot!SnapshotAssumption
<1>2. Snapshot!Names = {Lists[i] : i \in DOMAIN Lists}
  BY DEF Snapshot!Names, Snapshot!Content
<1>3. \A i, j \in DOMAIN Lists : Lists[i] = Lists[j] => i = j
  BY DEF Snapshot!SnapshotAssumption
<1>4. \A i \in 2 .. Len(Lists) : i \in DOMAIN Lists /\ i # 1
  BY <1>1
<1>5. \A i \in 2 .. Len(Lists) : Lists[i] \in Snapshot!Items
  BY <1>1, <1>2, <1>3, <1>4 DEF Snapshot!Items
<1> QED BY <1>1, <1>2, <1>3, <1>5

LEMMA SourceFacts ==
  ASSUME Snapshot!SnapshotAssumption, Given, NEW l \in Snapshot!Names
  PROVE  /\ \E n \in Nat : Snapshot!Source(l) = 1 .. n
         /\ Snapshot!Admitted(l) \subseteq Snapshot!Source(l) /\ Snapshot!Projected(l) \subseteq Snapshot!Admitted(l)
         /\ RowLimits[l] \in Nat /\ Cardinality(Snapshot!Projected(l)) <= RowLimits[l] /\ IsFiniteSet(Snapshot!Projected(l))
<1>1. input.rows \in Memories
  BY DEF Given
<1>2. PICK S : input.rows[l] \in Seq(S)
  BY <1>1 DEF Snapshot!SnapshotAssumption
<1>3. PICK n \in Nat : Snapshot!Source(l) = 1 .. n
  <2>1. DOMAIN input.rows[l] = 1 .. Len(input.rows[l]) /\ Len(input.rows[l]) \in Nat
    BY <1>2
  <2> QED BY <2>1 DEF Snapshot!Source
<1>4. Snapshot!Admitted(l) \subseteq Snapshot!Source(l) /\ RowLimits[l] \in Nat
  BY DEF Snapshot!Admitted, Snapshot!SnapshotAssumption
<1>5. /\ Snapshot!First(Snapshot!Admitted(l), RowLimits[l]) \subseteq Snapshot!Admitted(l)
      /\ Cardinality(Snapshot!First(Snapshot!Admitted(l), RowLimits[l])) <= RowLimits[l] /\ IsFiniteSet(Snapshot!First(Snapshot!Admitted(l), RowLimits[l]))
  BY <1>3, <1>4, FirstCount
<1> QED BY <1>3, <1>4, <1>5 DEF Snapshot!Projected

LEMMA SameInput ==
  ASSUME UNCHANGED input
  PROVE  /\ Given' = Given /\ Paths' = Paths /\ Snapshot!MemoryPaths' = Snapshot!MemoryPaths /\ Snapshot!Files' = Snapshot!Files
         /\ \A l : /\ Snapshot!Source(l)' = Snapshot!Source(l) /\ Snapshot!Projected(l)' = Snapshot!Projected(l) /\ Snapshot!Admitted(l)' = Snapshot!Admitted(l)
                   /\ \A i : Snapshot!Row(l, i)' = Snapshot!Row(l, i)
         /\ \A l, I : Snapshot!PathsOf(l, I)' = Snapshot!PathsOf(l, I)
BY DEF Given, Paths, Snapshot!MemoryPaths, Snapshot!PathsOf, Snapshot!Source, Snapshot!Projected, Snapshot!Admitted, Snapshot!Row, Snapshot!Files, Snapshot!First, Snapshot!Kept, Snapshot!Content

LEMMA SameRows ==
  ASSUME UNCHANGED <<input, rows>>
  PROVE  /\ NothingMissing' = NothingMissing /\ Snapshot!Removed' = Snapshot!Removed /\ Unrelated' = Unrelated /\ InOrder' = InOrder
         /\ Emptied' = Emptied /\ Snapshot!Held' = Snapshot!Held /\ Snapshot!Limited' = Snapshot!Limited
         /\ \A l : Snapshot!PathsKept(l)' = Snapshot!PathsKept(l)
         /\ Snapshot!MemoryUncovered' = Snapshot!MemoryUncovered /\ Snapshot!Uncovered' = Snapshot!Uncovered
<1>1. UNCHANGED input /\ UNCHANGED rows
  OBVIOUS
<1>2. \A l : Snapshot!PathsKept(l)' = Snapshot!PathsKept(l)
  BY <1>1 DEF Snapshot!PathsKept, Snapshot!Row, Snapshot!Kept, Snapshot!First
<1>3. Snapshot!Removed' = Snapshot!Removed
  BY <1>1 DEF Snapshot!Removed, Snapshot!Source, Snapshot!Items, Snapshot!Id
<1>4. Snapshot!Limited' = Snapshot!Limited
  BY <1>1, <1>2, SameInput DEF Snapshot!Limited
<1>5. Snapshot!MemoryUncovered' = Snapshot!MemoryUncovered
  BY <1>1, <1>4, SameInput DEF Snapshot!MemoryUncovered, Snapshot!Rejected
<1>6. Snapshot!Uncovered' = Snapshot!Uncovered
  BY <1>1, <1>5, SameInput DEF Snapshot!Uncovered
<1>7. NothingMissing' = NothingMissing /\ Emptied' = Emptied
  BY <1>1 DEF NothingMissing, Emptied, Snapshot!Source
<1>8. Unrelated' = Unrelated
  BY <1>1, <1>3 DEF Unrelated, Snapshot!Row
<1>9. InOrder' = InOrder
  BY <1>1, SameInput DEF InOrder
<1>10. Snapshot!Held' = Snapshot!Held
  BY <1>1 DEF Snapshot!Held, Snapshot!Row, Snapshot!Id
<1> QED BY <1>2, <1>3, <1>4, <1>5, <1>6, <1>7, <1>8, <1>9, <1>10

\* Nothing missing: every path is in the snapshot or among the uncovered.
LEMMA PathsTold ==
  ASSUME Snapshot!SnapshotAssumption, Given, NothingMissing, \A l \in Snapshot!Names : rows[l] \subseteq Snapshot!Projected(l)
  PROVE  Paths \subseteq Snapshot!Files \cup Snapshot!PathsKept("components") \cup Snapshot!PathsKept("changes") \cup Snapshot!Uncovered
<1>1. Snapshot!Source("components") = Snapshot!Admitted("components") /\ Snapshot!Source("changes") = Snapshot!Admitted("changes")
  <2>1. {"components", "changes"} \subseteq Snapshot!Names
    BY DEF Snapshot!SnapshotAssumption
  <2> QED BY <2>1, SourceFacts DEF NothingMissing
<1>2. Snapshot!PathsOf("components", Snapshot!Source("components")) \subseteq Snapshot!PathsKept("components") \cup Snapshot!Limited
  BY <1>1 DEF Snapshot!Limited
<1>3. Snapshot!PathsOf("changes", Snapshot!Source("changes")) \cap Portable \subseteq Snapshot!PathsKept("changes") \cup Snapshot!Limited
  BY <1>1 DEF Snapshot!Limited
<1>4. Snapshot!PathsOf("changes", Snapshot!Source("changes")) \ Portable \subseteq Snapshot!Rejected(Snapshot!MemoryPaths)
  BY DEF Snapshot!Rejected, Snapshot!MemoryPaths
<1> QED BY <1>2, <1>3, <1>4 DEF Paths, Snapshot!MemoryPaths, Snapshot!Uncovered, Snapshot!MemoryUncovered

LEMMA UncoveredIsPath ==
  ASSUME Snapshot!SnapshotAssumption, Given
  PROVE  Snapshot!Uncovered \subseteq Paths
<1>1. Snapshot!Admitted("components") \subseteq Snapshot!Source("components") /\ Snapshot!Admitted("changes") \subseteq Snapshot!Source("changes")
  <2>1. {"components", "changes"} \subseteq Snapshot!Names
    BY DEF Snapshot!SnapshotAssumption
  <2> QED BY <2>1, SourceFacts
<1>2. Snapshot!PathsOf("components", Snapshot!Admitted("components")) \subseteq Snapshot!PathsOf("components", Snapshot!Source("components"))
  BY <1>1 DEF Snapshot!PathsOf
<1>3. Snapshot!PathsOf("changes", Snapshot!Admitted("changes")) \subseteq Snapshot!PathsOf("changes", Snapshot!Source("changes"))
  BY <1>1 DEF Snapshot!PathsOf
<1> QED BY <1>2, <1>3 DEF Paths, Snapshot!Uncovered, Snapshot!MemoryUncovered, Snapshot!Rejected, Snapshot!Limited, Snapshot!MemoryPaths

-----------------------------------------------------------------------------
(* The steps                                                               *)

LEMMA ProjectSnap ==
  ASSUME Snapshot!SnapshotAssumption, SnapInv, Snapshot!Project PROVE SnapInv'
<1> DEFINE c == \E l \in Snapshot!Names : \E i \in Snapshot!Source(l) : ~Snapshot!Row(l, i).sound
           w == <<"identities", 0>>
<1>1. /\ rows' = [l \in Snapshot!Names |-> Snapshot!Projected(l)] /\ UNCHANGED <<input, summary>> /\ UNCHANGED input
      /\ warnings' = IF c THEN Snapshot!Prepend(w, Snapshot!Told1) ELSE Snapshot!Told1
      /\ step' = "relate"
  BY DEF Snapshot!Project, Snapshot!PrependIf
<1>2. MaxWarnings \in Nat /\ MaxWarnings > 0 /\ Told \in Nat
  BY DEF Snapshot!SnapshotAssumption
<1>3. PICK n \in Nat : n <= MaxWarnings /\ Snapshot!Told1 = [i \in 1 .. n |-> <<"memory", i>>]
  BY <1>2 DEF Snapshot!Told1
<1>4. Snapshot!Told1 \in Seq({"memory"} \X Nat) /\ Len(Snapshot!Told1) <= MaxWarnings
  BY <1>3
<1>5. (\E S : warnings' \in Seq(S)) /\ Len(warnings') <= MaxWarnings
  <2> HIDE DEF w, c
  <2>1. Snapshot!Prepend(w, Snapshot!Told1) \in Seq(({"memory"} \X Nat) \cup {w}) /\ Len(Snapshot!Prepend(w, Snapshot!Told1)) <= MaxWarnings
    BY <1>2, <1>4, PrependFacts
  <2> QED BY <1>1, <1>4, <2>1
<1>6. Given' /\ summary' \subseteq Paths'
  BY <1>1, SameInput DEF SnapInv
<1>7. DOMAIN rows' = Snapshot!Names /\ \A l \in Snapshot!Names : rows'[l] = Snapshot!Projected(l) /\ Snapshot!Projected(l)' = Snapshot!Projected(l)
  BY <1>1, SameInput
<1>8. \A l \in Snapshot!Names : rows'[l] \subseteq Snapshot!Projected(l)'
  BY <1>7
<1>9. \A l \in Snapshot!Items : rows'[l] = Snapshot!Projected(l)'
  BY <1>7 DEF Snapshot!Items
<1>10. DOMAIN rows' = Snapshot!Names /\ Snapshot!Names' = Snapshot!Names /\ Snapshot!Items' = Snapshot!Items
  BY <1>7
<1> QED BY <1>1, <1>5, <1>6, <1>8, <1>9, <1>10 DEF SnapInv

LEMMA RelateSnap ==
  ASSUME Snapshot!SnapshotAssumption, SnapInv, Snapshot!Relate PROVE SnapInv'
<1> DEFINE c == Snapshot!Removed # {} \/ Snapshot!Related # Snapshot!Source("relations")
           w == <<"rows", 0>>
<1>1. /\ rows' = [rows EXCEPT !["relations"] = Snapshot!Related] /\ UNCHANGED <<input, summary>> /\ UNCHANGED input
      /\ warnings' = IF c THEN Snapshot!Prepend(w, warnings) ELSE warnings
      /\ step' = "cover" /\ step = "relate"
  BY DEF Snapshot!Relate, Snapshot!PrependIf
<1>2. /\ Given /\ DOMAIN rows = Snapshot!Names /\ \A l \in Snapshot!Names : rows[l] \subseteq Snapshot!Projected(l)
      /\ \A l \in Snapshot!Items : rows[l] = Snapshot!Projected(l)
      /\ summary \subseteq Paths /\ Len(warnings) <= MaxWarnings
  BY <1>1 DEF SnapInv
<1>3. MaxWarnings \in Nat /\ MaxWarnings > 0
  BY DEF Snapshot!SnapshotAssumption
<1>4. PICK S : warnings \in Seq(S)
  BY DEF SnapInv
<1>5. /\ Snapshot!Prepend(w, warnings) \in Seq(S \cup {w}) /\ Len(Snapshot!Prepend(w, warnings)) <= MaxWarnings
      /\ 1 \in DOMAIN Snapshot!Prepend(w, warnings) /\ Snapshot!Prepend(w, warnings)[1] = w
  <2> HIDE DEF w
  <2> QED BY <1>3, <1>4, PrependFacts
<1>6. (\E T : warnings' \in Seq(T)) /\ Len(warnings') <= MaxWarnings
  BY <1>1, <1>2, <1>4, <1>5
<1>7. /\ DOMAIN rows' = Snapshot!Names /\ rows'["relations"] = Snapshot!Related
      /\ \A l \in Snapshot!Names : l # "relations" => rows'[l] = rows[l]
  BY <1>1, <1>2, ListFacts
<1>8. Given' /\ summary' \subseteq Paths' /\ \A l : Snapshot!Projected(l)' = Snapshot!Projected(l) /\ Snapshot!Source(l)' = Snapshot!Source(l)
  BY <1>1, <1>2, SameInput
<1>9. \A l \in Snapshot!Items : rows'[l] = rows[l] /\ l \in Snapshot!Names
  BY <1>7 DEF Snapshot!Items
<1>10. Snapshot!Removed' = Snapshot!Removed
  BY <1>8, <1>9 DEF Snapshot!Removed, Snapshot!Id
<1>11. Snapshot!Related \subseteq rows["relations"]
  BY DEF Snapshot!Related
<1>12. \A l \in Snapshot!Names : rows'[l] \subseteq Snapshot!Projected(l)'
  BY <1>2, <1>7, <1>8, <1>11, ListFacts
<1>13. \A l \in Snapshot!Items : rows'[l] = Snapshot!Projected(l)'
  BY <1>2, <1>8, <1>9
<1>14. Unrelated'
  <2>1. ASSUME NEW i \in Snapshot!Related PROVE Snapshot!Row("relations", i)'.ends \cap Snapshot!Removed' = {}
    <3>1. Snapshot!Row("relations", i)' = Snapshot!Row("relations", i)
      BY <1>1, SameInput
    <3> QED BY <3>1, <1>10 DEF Snapshot!Related
  <2> QED BY <1>7, <2>1 DEF Unrelated
<1>15. InOrder'
  BY <1>13, ListFacts DEF InOrder
<1>16. NothingMissing' \/ Said(1)'
  <2>1. CASE c
    <3>1. 1 \in DOMAIN warnings' /\ warnings'[1] = w
      BY <1>1, <1>5, <2>1
    <3>2. w[1] \in Snapshot!RowKinds
      BY DEF Snapshot!RowKinds
    <3>3. 1 <= 1
      OBVIOUS
    <3> QED BY <3>1, <3>2, <3>3 DEF Said, SaidIn
  <2>2. CASE ~c
    <3>1. Snapshot!Removed = {} /\ rows'["relations"] = Snapshot!Source("relations")
      BY <1>7, <2>2
    <3>2. ASSUME NEW l \in Snapshot!Items PROVE rows[l] = Snapshot!Source(l)
      <4>1. \A i \in Snapshot!Source(l) \ rows[l] : Snapshot!Id(l, i) \in Snapshot!Removed
        BY DEF Snapshot!Removed
      <4>2. rows[l] \subseteq Snapshot!Source(l)
        BY <1>2, <1>9, SourceFacts
      <4> QED BY <3>1, <4>1, <4>2
    <3>3. \A l \in Snapshot!Names : l = "relations" \/ l \in Snapshot!Items
      BY DEF Snapshot!Items
    <3> QED BY <1>8, <1>9, <3>1, <3>2, <3>3 DEF NothingMissing
  <2> QED BY <2>1, <2>2
<1> HIDE DEF c, w
<1>17. step' = "cover"
  BY <1>1
<1> QED BY <1>6, <1>7, <1>8, <1>12, <1>13, <1>14, <1>15, <1>16, <1>17 DEF SnapInv

\* What was said of the rows stays said when something else is said first.
LEMMA PrependSaid ==
  ASSUME MaxWarnings \in Nat, MaxWarnings >= 4, NEW T, NEW s \in Seq(T), Len(s) <= MaxWarnings,
         NEW c \in BOOLEAN, NEW w, w[1] \notin Snapshot!RowKinds, NEW n \in 1 .. 2
  PROVE  /\ (\E U : Snapshot!PrependIf(c, w, s) \in Seq(U)) /\ Len(Snapshot!PrependIf(c, w, s)) <= MaxWarnings
         /\ SaidIn(s, n) => SaidIn(Snapshot!PrependIf(c, w, s), n + 1)
<1>1. CASE ~c
  <2>1. Snapshot!PrependIf(c, w, s) = s
    BY <1>1 DEF Snapshot!PrependIf
  <2>2. \A i : i <= n /\ i \in Nat => i <= n + 1
    OBVIOUS
  <2>3. \A i \in DOMAIN s : i \in Nat
    OBVIOUS
  <2>4. SaidIn(s, n) => SaidIn(s, n + 1)
    BY <2>2, <2>3 DEF SaidIn
  <2> QED BY <2>1, <2>4
<1>2. CASE c
  <2>1. Snapshot!PrependIf(c, w, s) = Snapshot!Prepend(w, s)
    BY <1>2 DEF Snapshot!PrependIf
  <2>2. /\ Snapshot!Prepend(w, s) \in Seq(T \cup {w}) /\ Len(Snapshot!Prepend(w, s)) <= MaxWarnings
        /\ \A i \in DOMAIN s : i < MaxWarnings /\ s[i] # w => Within(s[i], Snapshot!Prepend(w, s), i + 1)
    <3>1. MaxWarnings > 0
      OBVIOUS
    <3> QED BY <3>1, PrependFacts
  <2>3. ASSUME NEW i \in DOMAIN s, i <= n, s[i][1] \in Snapshot!RowKinds PROVE SaidIn(Snapshot!Prepend(w, s), n + 1)
    <3>1. i \in Nat /\ i < MaxWarnings /\ s[i] # w
      BY <2>3
    <3>2. PICK k \in DOMAIN Snapshot!Prepend(w, s) : k <= i + 1 /\ Snapshot!Prepend(w, s)[k] = s[i]
      BY <2>2, <3>1 DEF Within
    <3>3. k \in Nat
      BY <2>2
    <3>4. k <= n + 1
      BY <2>3, <3>1, <3>2, <3>3
    <3> QED BY <2>3, <3>2, <3>4 DEF SaidIn
  <2> QED BY <2>1, <2>2, <2>3 DEF SaidIn
<1> QED BY <1>1, <1>2

LEMMA CoverSnap ==
  ASSUME Snapshot!SnapshotAssumption, SnapInv, Snapshot!Cover PROVE SnapInv'
<1> DEFINE w1 == <<"paths", Snapshot!MemoryUncovered>>
           w2 == <<"paths", Snapshot!Uncovered>>
           s1 == Snapshot!PrependIf(Snapshot!MemoryUncovered # {}, w1, warnings)
<1>1. /\ UNCHANGED <<input, rows>> /\ step = "cover" /\ step' = "measure" /\ summary' = Snapshot!Uncovered
      /\ warnings' = Snapshot!PrependIf(Snapshot!Uncovered # {}, w2, s1) /\ UNCHANGED input /\ UNCHANGED rows
  BY DEF Snapshot!Cover
<1>2. /\ Given /\ DOMAIN rows = Snapshot!Names /\ \A l \in Snapshot!Names : rows[l] \subseteq Snapshot!Projected(l)
      /\ \A l \in Snapshot!Items : rows[l] = Snapshot!Projected(l)
      /\ Unrelated /\ InOrder /\ Len(warnings) <= MaxWarnings /\ (NothingMissing \/ Said(1))
  BY <1>1 DEF SnapInv
<1>3. MaxWarnings \in Nat /\ MaxWarnings > 0 /\ MaxWarnings >= 4
  BY DEF Snapshot!SnapshotAssumption
<1>4. w1[1] \notin Snapshot!RowKinds /\ w2[1] \notin Snapshot!RowKinds
  BY DEF Snapshot!RowKinds
<1>5. PICK S : warnings \in Seq(S)
  BY DEF SnapInv
<1> HIDE DEF w1, w2
<1>6. /\ (\E U : s1 \in Seq(U)) /\ Len(s1) <= MaxWarnings
      /\ Said(1) => SaidIn(s1, 2)
  <2>1. 1 \in 1 .. 2 /\ 1 + 1 = 2 /\ (Snapshot!MemoryUncovered # {}) \in BOOLEAN
    OBVIOUS
  <2>2. /\ (\E U : s1 \in Seq(U)) /\ Len(s1) <= MaxWarnings
        /\ SaidIn(warnings, 1) => SaidIn(s1, 1 + 1)
    <3>1. Len(warnings) <= MaxWarnings /\ w1[1] \notin Snapshot!RowKinds
      BY <1>2, <1>4
    <3> DEFINE c == Snapshot!MemoryUncovered # {}
    <3>2. c \in BOOLEAN
      OBVIOUS
    <3> HIDE DEF c
    <3>3. /\ (\E U : Snapshot!PrependIf(c, w1, warnings) \in Seq(U)) /\ Len(Snapshot!PrependIf(c, w1, warnings)) <= MaxWarnings
          /\ SaidIn(warnings, 1) => SaidIn(Snapshot!PrependIf(c, w1, warnings), 1 + 1)
      BY <1>3, <1>5, <2>1, <3>1, <3>2, PrependSaid
    <3> QED BY <3>3 DEF c
  <2> QED BY <2>1, <2>2 DEF Said
<1>7. PICK U : s1 \in Seq(U)
  BY <1>6
<1> HIDE DEF s1
<1>9. /\ (\E T : warnings' \in Seq(T)) /\ Len(warnings') <= MaxWarnings
      /\ SaidIn(s1, 2) => Said(3)'
  <2>1. 2 \in 1 .. 2 /\ 2 + 1 = 3 /\ (Snapshot!Uncovered # {}) \in BOOLEAN
    OBVIOUS
  <2>2. /\ (\E T : Snapshot!PrependIf(Snapshot!Uncovered # {}, w2, s1) \in Seq(T))
        /\ Len(Snapshot!PrependIf(Snapshot!Uncovered # {}, w2, s1)) <= MaxWarnings
        /\ SaidIn(s1, 2) => SaidIn(Snapshot!PrependIf(Snapshot!Uncovered # {}, w2, s1), 3)
    BY <1>3, <1>4, <1>6, <1>7, <2>1, PrependSaid
  <2>3. Said(3)' <=> SaidIn(warnings', 3)
    BY DEF Said, SaidIn, Snapshot!RowKinds
  <2> QED BY <1>1, <2>2, <2>3
<1>10. (NothingMissing' /\ Covered') \/ Said(3)'
  <2>1. CASE Said(1)
    BY <1>6, <1>9, <2>1
  <2>2. CASE NothingMissing
    <3>1. Paths \subseteq Snapshot!Files \cup Snapshot!PathsKept("components") \cup Snapshot!PathsKept("changes") \cup Snapshot!Uncovered
      BY <1>2, <2>2, PathsTold
    <3>2. Covered'
      BY <1>1, <3>1, SameInput, SameRows DEF Covered
    <3> QED BY <1>1, <2>2, <3>2, SameRows
  <2> QED BY <1>2, <2>1, <2>2
<1>11. Unrelated' /\ InOrder'
  BY <1>1, <1>2, SameRows
<1>12. Given' /\ summary' \subseteq Paths' /\ \A l : Snapshot!Projected(l)' = Snapshot!Projected(l)
  BY <1>1, <1>2, SameInput, UncoveredIsPath
<1>13. DOMAIN rows' = Snapshot!Names /\ (\A l \in Snapshot!Names : rows'[l] \subseteq Snapshot!Projected(l)')
       /\ \A l \in Snapshot!Items : rows'[l] = Snapshot!Projected(l)'
  BY <1>1, <1>2, <1>12
<1>14. step' = "measure"
  BY <1>1
<1> QED BY <1>9, <1>10, <1>11, <1>12, <1>13, <1>14 DEF SnapInv

\* A snapshot that still fits says nothing more; one that does not says "reduced".
LEMMA MeasureSnap ==
  ASSUME Snapshot!SnapshotAssumption, SnapInv, Snapshot!Measure PROVE SnapInv'
<1> DEFINE w == <<"reduced", 0>>
           s == Snapshot!Upto(warnings, MaxWarnings - 1)
<1>1. /\ UNCHANGED <<input, rows, summary>> /\ step = "measure" /\ UNCHANGED <<input, rows>> /\ UNCHANGED input
      /\ \/ Snapshot!Fits /\ step' = "check" /\ warnings' = warnings
         \/ ~Snapshot!Fits /\ step' = "fit" /\ warnings' = Append(s, w)
  BY DEF Snapshot!Measure
<1>2. /\ Given /\ DOMAIN rows = Snapshot!Names /\ \A l \in Snapshot!Names : rows[l] \subseteq Snapshot!Projected(l)
      /\ summary \subseteq Paths /\ Unrelated /\ InOrder /\ Len(warnings) <= MaxWarnings
      /\ (NothingMissing /\ Covered) \/ Said(3)
  BY <1>1 DEF SnapInv
<1>3. MaxWarnings \in Nat /\ MaxWarnings - 1 \in Nat
  BY DEF Snapshot!SnapshotAssumption
<1>4. PICK S : warnings \in Seq(S)
  BY DEF SnapInv
<1>5. s \in Seq(S) /\ Len(s) <= MaxWarnings - 1 /\ Len(s) \in Nat
  BY <1>3, <1>4, UptoFacts
<1>6. Unrelated' /\ InOrder' /\ Given' /\ summary' \subseteq Paths' /\ DOMAIN rows' = Snapshot!Names
      /\ \A l \in Snapshot!Names : rows'[l] \subseteq Snapshot!Projected(l)'
  BY <1>1, <1>2, SameRows, SameInput
<1>7. CASE Snapshot!Fits /\ step' = "check" /\ warnings' = warnings
  <2>1. Snapshot!Fits'
    BY <1>1, <1>7, SameInput, SameRows DEF Snapshot!Fits, Snapshot!Fixed
  <2>2. (NothingMissing /\ Covered) => NothingMissing' /\ Covered'
    BY <1>1, SameInput, SameRows DEF Covered
  <2>3. Said(3) => Snapshot!RowsSaid'
    BY <1>7 DEF Said, SaidIn, Snapshot!RowsSaid, Snapshot!RowKinds
  <2>4. (\E T : warnings' \in Seq(T)) /\ Len(warnings') <= MaxWarnings
    BY <1>2, <1>4, <1>7
  <2> QED BY <1>2, <1>6, <1>7, <2>1, <2>2, <2>3, <2>4 DEF SnapInv
<1>8. CASE ~Snapshot!Fits /\ step' = "fit" /\ warnings' = Append(s, w)
  <2> HIDE DEF s
  <2>1. /\ Append(s, w) \in Seq(S \cup {w}) /\ Len(Append(s, w)) = Len(s) + 1
        /\ Append(s, w)[Len(s) + 1] = w /\ Len(s) + 1 \in DOMAIN Append(s, w)
    <3>1. s \in Seq(S \cup {w}) /\ w \in S \cup {w}
      BY <1>5
    <3> HIDE DEF w
    <3> QED BY <1>5, <3>1
  <2>2. (\E T : warnings' \in Seq(T)) /\ Len(warnings') <= MaxWarnings
    BY <1>3, <1>5, <1>8, <2>1
  <2>3. Snapshot!RowsSaid'
    BY <1>8, <2>1 DEF Snapshot!RowsSaid, Snapshot!RowKinds
  <2> QED BY <1>6, <1>8, <2>2, <2>3 DEF SnapInv
<1> QED BY <1>1, <1>7, <1>8

\* Rows go in the order of the lists: an earlier list has none left.
LEMMA CutSnap ==
  ASSUME Snapshot!SnapshotAssumption, SnapInv, step = "fit", UNCHANGED <<input, warnings, summary, step>>,
         NEW k \in 1 .. Len(Lists), rows[Lists[k]] # {}, \A j \in 1 .. k - 1 : rows[Lists[j]] = {},
         NEW cut, rows' = [rows EXCEPT ![Lists[k]] = @ \ cut]
  PROVE  SnapInv'
<1>1. /\ Given /\ DOMAIN rows = Snapshot!Names /\ \A l \in Snapshot!Names : rows[l] \subseteq Snapshot!Projected(l)
      /\ summary \subseteq Paths /\ Unrelated /\ InOrder /\ Len(warnings) <= MaxWarnings
      /\ Snapshot!RowsSaid /\ \E S : warnings \in Seq(S)
  BY DEF SnapInv
<1>2. /\ Lists[k] \in Snapshot!Names /\ Len(Lists) \in Nat /\ k \in Nat
      /\ \A i, j \in 1 .. Len(Lists) : Lists[i] = Lists[j] => i = j
      /\ Lists[1] = "relations" /\ \A i \in 1 .. Len(Lists) : Lists[i] \in Snapshot!Names
      /\ \A l \in Snapshot!Names : \E i \in 1 .. Len(Lists) : l = Lists[i]
  BY ListFacts
<1>3. /\ DOMAIN rows' = Snapshot!Names /\ rows'[Lists[k]] = rows[Lists[k]] \ cut
      /\ \A l \in Snapshot!Names : l # Lists[k] => rows'[l] = rows[l]
  BY <1>1, <1>2
<1>4. UNCHANGED input /\ UNCHANGED warnings /\ UNCHANGED summary /\ UNCHANGED step
  OBVIOUS
<1>5. Given' /\ summary' \subseteq Paths' /\ \A l : Snapshot!Projected(l)' = Snapshot!Projected(l) /\ Snapshot!Source(l)' = Snapshot!Source(l)
  BY <1>1, <1>4, SameInput
<1>6. \A l \in Snapshot!Names : rows'[l] \subseteq rows[l]
  BY <1>3
<1>7. InOrder'
  <2>1. ASSUME NEW i \in 2 .. Len(Lists), rows'[Lists[i]] # Snapshot!Projected(Lists[i]), NEW j \in 1 .. i - 1
        PROVE  rows'[Lists[j]] = {}
    <3>1. i \in 1 .. Len(Lists) /\ j \in 1 .. Len(Lists) /\ i \in Nat /\ j \in Nat /\ j < i
      BY <1>2
    <3>2. rows[Lists[j]] = {} => rows'[Lists[j]] = {}
      BY <1>2, <1>6, <3>1
    <3>3. CASE i = k
      BY <3>1, <3>2, <3>3
    <3>4. CASE i # k
      <4>1. rows'[Lists[i]] = rows[Lists[i]]
        BY <1>2, <1>3, <3>1, <3>4
      <4>2. rows[Lists[j]] = {}
        BY <1>1, <2>1, <4>1 DEF InOrder
      <4> QED BY <3>2, <4>2
    <3> QED BY <3>3, <3>4
  <2> QED BY <1>5, <2>1 DEF InOrder
<1>8. Unrelated'
  <2>1. CASE k = 1
    <3>1. \A l \in Snapshot!Items : rows'[l] = rows[l]
      BY <1>2, <1>3, <2>1 DEF Snapshot!Items
    <3>2. Snapshot!Removed' = Snapshot!Removed
      BY <1>5, <3>1 DEF Snapshot!Removed, Snapshot!Id
    <3>3. rows'["relations"] \subseteq rows["relations"]
      BY <1>2, <1>6
    <3>4. \A i : Snapshot!Row("relations", i)' = Snapshot!Row("relations", i)
      BY <1>4, SameInput
    <3> QED BY <1>1, <3>2, <3>3, <3>4 DEF Unrelated
  <2>2. CASE k # 1
    <3>1. 1 \in 1 .. k - 1 /\ 1 \in 1 .. Len(Lists)
      BY <1>2, <2>2
    <3>2. rows["relations"] = {} /\ "relations" \in Snapshot!Names
      <4>1. rows[Lists[1]] = {}
        BY <3>1
      <4> QED BY <1>2, <3>1, <4>1
    <3>3. rows'["relations"] = {}
      BY <1>6, <3>2
    <3> QED BY <3>3 DEF Unrelated
  <2> QED BY <2>1, <2>2
<1>9. Snapshot!RowsSaid'
  BY <1>1, <1>4 DEF Snapshot!RowsSaid, Snapshot!RowKinds
<1>10. \A l \in Snapshot!Names : rows'[l] \subseteq Snapshot!Projected(l)'
  BY <1>1, <1>5, <1>6
<1> QED BY <1>1, <1>3, <1>4, <1>5, <1>7, <1>8, <1>9, <1>10 DEF SnapInv

LEMMA FitSnap ==
  ASSUME Snapshot!SnapshotAssumption, SnapInv, Snapshot!Fit PROVE SnapInv'
<1>1. CASE (Snapshot!Fits \/ Emptied) /\ step' = "check" /\ UNCHANGED rows
  <2>1. UNCHANGED <<input, rows>> /\ UNCHANGED input /\ UNCHANGED rows /\ step = "fit"
        /\ UNCHANGED warnings /\ UNCHANGED summary
    BY <1>1 DEF Snapshot!Fit
  <2>2. /\ Given /\ DOMAIN rows = Snapshot!Names /\ \A l \in Snapshot!Names : rows[l] \subseteq Snapshot!Projected(l)
        /\ summary \subseteq Paths /\ Unrelated /\ InOrder /\ Len(warnings) <= MaxWarnings
        /\ Snapshot!RowsSaid /\ \E S : warnings \in Seq(S)
    BY <2>1 DEF SnapInv
  <2>3. Unrelated' /\ InOrder' /\ Given' /\ summary' \subseteq Paths' /\ DOMAIN rows' = Snapshot!Names
        /\ (Emptied => Emptied') /\ \A l \in Snapshot!Names : rows'[l] \subseteq Snapshot!Projected(l)'
    BY <2>1, <2>2, SameRows, SameInput
  <2>4. Snapshot!Fits => Snapshot!Fits'
    BY <2>1, SameInput, SameRows DEF Snapshot!Fits, Snapshot!Fixed
  <2>5. Snapshot!RowsSaid' /\ Len(warnings') <= MaxWarnings /\ \E S : warnings' \in Seq(S)
    BY <2>1, <2>2 DEF Snapshot!RowsSaid, Snapshot!RowKinds
  <2> QED BY <1>1, <2>3, <2>4, <2>5 DEF SnapInv
<1>2. CASE UNCHANGED step
  <2>1. step = "fit" /\ UNCHANGED <<input, warnings, summary, step>>
    BY <1>2 DEF Snapshot!Fit
  <2>2. PICK k \in DOMAIN Lists :
          /\ rows[Lists[k]] # {} /\ \A j \in 1 .. k - 1 : rows[Lists[j]] = {}
          /\ rows' = [rows EXCEPT ![Lists[k]] = @ \ Snapshot!Last(@)]
    BY <1>2, <2>1 DEF Snapshot!Fit
  <2>3. k \in 1 .. Len(Lists)
    BY ListFacts
  <2> QED BY <2>1, <2>2, <2>3, CutSnap
<1> QED BY <1>1, <1>2 DEF Snapshot!Fit, Emptied

LEMMA CheckSnap ==
  ASSUME Snapshot!SnapshotAssumption, SnapInv, Snapshot!Check PROVE SnapInv'
<1>1. UNCHANGED <<input, rows>> /\ UNCHANGED input /\ UNCHANGED rows /\ step = "check"
      /\ UNCHANGED warnings /\ UNCHANGED summary /\ step' = IF Snapshot!Fits THEN "built" ELSE "refused"
  BY DEF Snapshot!Check
<1>2. /\ Given /\ DOMAIN rows = Snapshot!Names /\ \A l \in Snapshot!Names : rows[l] \subseteq Snapshot!Projected(l)
      /\ summary \subseteq Paths /\ Unrelated /\ InOrder /\ Len(warnings) <= MaxWarnings
      /\ ((NothingMissing /\ Covered) \/ Snapshot!RowsSaid) /\ (Snapshot!Fits \/ Emptied) /\ \E S : warnings \in Seq(S)
  BY <1>1 DEF SnapInv
<1>3. Unrelated' /\ InOrder' /\ Given' /\ summary' \subseteq Paths' /\ DOMAIN rows' = Snapshot!Names
      /\ (Emptied => Emptied') /\ \A l \in Snapshot!Names : rows'[l] \subseteq Snapshot!Projected(l)'
  BY <1>1, <1>2, SameRows, SameInput
<1>4. Snapshot!Fits' <=> Snapshot!Fits
  BY <1>1, SameInput, SameRows DEF Snapshot!Fits, Snapshot!Fixed
<1>5. (NothingMissing' /\ Covered') \/ Snapshot!RowsSaid'
  <2>1. (NothingMissing /\ Covered) => NothingMissing' /\ Covered'
    BY <1>1, SameInput, SameRows DEF Covered
  <2>2. Snapshot!RowsSaid => Snapshot!RowsSaid'
    BY <1>1 DEF Snapshot!RowsSaid, Snapshot!RowKinds
  <2> QED BY <1>2, <2>1, <2>2
<1>6. Len(warnings') <= MaxWarnings /\ \E S : warnings' \in Seq(S)
  BY <1>1, <1>2
<1> QED BY <1>1, <1>2, <1>3, <1>4, <1>5, <1>6 DEF SnapInv

LEMMA SnapInvariant ==
  ASSUME Snapshot!SnapshotAssumption PROVE Snapshot!Spec => []SnapInv
<1>1. Snapshot!Init => SnapInv
  <2> SUFFICES ASSUME Snapshot!Init PROVE SnapInv
    OBVIOUS
  <2>1. /\ Given /\ rows = [l \in Snapshot!Names |-> {}] /\ warnings = <<>> /\ summary = {} /\ step = "project"
    BY DEF Snapshot!Init, Given
  <2>2. warnings \in Seq({}) /\ Len(warnings) <= MaxWarnings
    BY <2>1 DEF Snapshot!SnapshotAssumption
  <2> QED BY <2>1, <2>2 DEF SnapInv
<1>2. SnapInv /\ [Snapshot!Next]_Snapshot!vars => SnapInv'
  <2> SUFFICES ASSUME SnapInv, [Snapshot!Next]_Snapshot!vars PROVE SnapInv'
    OBVIOUS
  <2>1. CASE Snapshot!Next
    BY <2>1, ProjectSnap, RelateSnap, CoverSnap, MeasureSnap, FitSnap, CheckSnap DEF Snapshot!Next
  <2>2. CASE UNCHANGED Snapshot!vars
    <3>1. UNCHANGED <<input, rows>> /\ UNCHANGED input /\ UNCHANGED rows /\ UNCHANGED warnings
          /\ UNCHANGED summary /\ UNCHANGED step
      BY <2>2 DEF Snapshot!vars
    <3>2. (Snapshot!Fits' <=> Snapshot!Fits) /\ (Covered' <=> Covered) /\ (Said(1)' <=> Said(1)) /\ (Said(3)' <=> Said(3))
          /\ (Snapshot!RowsSaid' <=> Snapshot!RowsSaid)
      BY <3>1, SameInput, SameRows DEF Snapshot!Fits, Snapshot!Fixed, Covered, Said, SaidIn, Snapshot!RowsSaid, Snapshot!RowKinds
    <3> QED BY <3>1, <3>2, SameInput, SameRows DEF SnapInv
  <2> QED BY <2>1, <2>2
<1> QED BY <1>1, <1>2, PTL DEF Snapshot!Spec

-----------------------------------------------------------------------------
(* What a snapshot promises                                                *)

LEMMA FixedNatural ==
  ASSUME Snapshot!SnapshotAssumption, Given, NEW S, warnings \in Seq(S) PROVE Snapshot!Fixed \in Nat
<1>1. input.rest \in Nat /\ input.touched \in Touched
  BY DEF Snapshot!SnapshotAssumption, Given
<1>2. PICK T : input.touched \in Seq(T)
  BY <1>1 DEF Snapshot!SnapshotAssumption
<1>3. Cardinality(Snapshot!Files) \in Nat
  BY <1>2, KeptFinite DEF Snapshot!Files, Snapshot!SnapshotAssumption
<1>4. Len(warnings) \in Nat
  OBVIOUS
<1> QED BY SnapshotLibrary, <1>1, <1>3, <1>4 DEF Snapshot!Fixed

LEMMA SnapTyped ==
  ASSUME Snapshot!SnapshotAssumption, SnapInv PROVE Snapshot!TypeOK
<1>1. /\ Given /\ DOMAIN rows = Snapshot!Names /\ \A l \in Snapshot!Names : rows[l] \subseteq Snapshot!Projected(l)
      /\ summary \subseteq Paths /\ Len(warnings) <= MaxWarnings
  BY DEF SnapInv
<1>2. ASSUME NEW l \in Snapshot!Names PROVE rows[l] \subseteq Snapshot!Source(l) /\ Cardinality(rows[l]) <= RowLimits[l]
  <2>1. /\ Snapshot!Projected(l) \subseteq Snapshot!Source(l) /\ RowLimits[l] \in Nat /\ IsFiniteSet(Snapshot!Projected(l))
        /\ Cardinality(Snapshot!Projected(l)) <= RowLimits[l]
    BY <1>1, SourceFacts
  <2>2. IsFiniteSet(rows[l]) /\ Cardinality(rows[l]) <= Cardinality(Snapshot!Projected(l))
    BY <1>1, <2>1, FS_Subset
  <2>3. Cardinality(rows[l]) \in Nat /\ Cardinality(Snapshot!Projected(l)) \in Nat
    BY <2>1, <2>2, FS_CardinalityType
  <2> QED BY <1>1, <2>1, <2>2, <2>3
<1> QED BY SnapshotLibrary, <1>1, <1>2 DEF SnapInv, Snapshot!TypeOK, Paths

LEMMA SnapPromises ==
  ASSUME Snapshot!SnapshotAssumption, SnapInv
  PROVE  Snapshot!NothingOmittedSilently /\ Snapshot!NoRemovedEndpoint /\ Snapshot!MemoryYieldsInOrder
<1>1. Snapshot!NothingOmittedSilently
  BY DEF SnapInv, Snapshot!NothingOmittedSilently, NothingMissing, Covered, Paths
<1>2. Snapshot!NoRemovedEndpoint
  BY DEF SnapInv, Snapshot!NoRemovedEndpoint, Unrelated
<1>3. step \in {"built", "refused"} => InOrder
  BY DEF SnapInv
<1>4. ASSUME step = "refused" PROVE Snapshot!Held = {} /\ Snapshot!Fixed > SnapshotBytes
  <2>1. ~Snapshot!Fits /\ Emptied /\ Given /\ SnapshotBytes \in Nat
    BY <1>4 DEF SnapInv, Snapshot!SnapshotAssumption
  <2>2. Snapshot!Held = {}
    BY <2>1 DEF Snapshot!Held, Emptied
  <2>3. PICK S : warnings \in Seq(S)
    BY DEF SnapInv
  <2>4. Snapshot!Fixed \in Nat
    BY <2>1, <2>3, FixedNatural
  <2>5. Cardinality(Snapshot!Held) = 0
    BY <2>2, FS_EmptySet
  <2> HIDE DEF SnapInv
  <2> QED BY SnapshotLibrary, <2>1, <2>2, <2>4, <2>5 DEF Snapshot!Fits
<1> QED BY <1>1, <1>2, <1>3, <1>4 DEF Snapshot!MemoryYieldsInOrder, InOrder

(* A snapshot that leaves a row or a path out says so whatever else it has to *)
(* say, relates no row it left out, and gives up its lists in their order and *)
(* entirely before it is refused.                                             *)
THEOREM SnapshotsTell ==
  ASSUME Snapshot!SnapshotAssumption
  PROVE  Snapshot!Spec => [](Snapshot!TypeOK /\ Snapshot!NothingOmittedSilently /\ Snapshot!NoRemovedEndpoint /\ Snapshot!MemoryYieldsInOrder)
<1>1. SnapInv => Snapshot!TypeOK /\ Snapshot!NothingOmittedSilently /\ Snapshot!NoRemovedEndpoint /\ Snapshot!MemoryYieldsInOrder
  BY SnapTyped, SnapPromises
<1> QED BY <1>1, SnapInvariant, PTL
=============================================================================
