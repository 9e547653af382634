----------------------- MODULE AssuranceReceipts_proofs ------------------------
(* Proofs about the assurance receipts, for any number of processes,            *)
(* measurements and destinations and any limits: one measurement is one receipt *)
(* through deaths at any step, refusals and new enrollments.                    *)
EXTENDS AssuranceReceipts, Subsequences_proofs

-----------------------------------------------------------------------------
(* The record of what was sent *)

Pairs(s) == {ReceiptOf(s[i]) : i \in DOMAIN s}

\* The bodies kept: all that are pending, and few that are confirmed.
Confirmed(s) == {i \in DOMAIN s : s[i].body /\ ~s[i].pending}
Copies(s) == (\A i \in DOMAIN s : s[i].pending => s[i].body) /\ Cardinality(Confirmed(s)) <= MaxBodies

\* At most m members of a set have fewer than m members after them.
LEMMA FewAreLast ==
  ASSUME NEW n \in Nat, NEW I \in SUBSET (1 .. n), NEW m \in Nat,
         NEW J \in SUBSET I, \A i \in J : Cardinality({j \in I : j > i}) < m
  PROVE  Cardinality(J) <= m
<1> DEFINE After(i) == {j \in I : j > i}
           f == [i \in J |-> Cardinality(After(i))]
<1>1. IsFiniteSet(I)
  BY RankIncreases
<1>2. \A i \in I : IsFiniteSet(After(i)) /\ Cardinality(After(i)) \in Nat
  BY <1>1, FS_Subset, FS_CardinalityType
<1>3. ASSUME NEW i \in I, NEW k \in I, i < k
      PROVE  Cardinality(After(i)) # Cardinality(After(k))
  <2>1. After(k) \subseteq After(i)
    <3>1. i \in Nat /\ k \in Nat /\ \A j \in I : j \in Nat
      OBVIOUS
    <3>2. \A j \in I : j > k => j > i
      BY <1>3, <3>1
    <3> QED BY <3>2
  <2>2. k \in After(i) /\ k \notin After(k)
    BY <1>3
  <2> HIDE DEF After
  <2>3. After(k) # After(i)
    BY <2>2
  <2> QED BY <1>2, <2>1, <2>3, FS_Subset
<1>4. \A i \in J : Cardinality(After(i)) < m
  OBVIOUS
<1> HIDE DEF After
<1>5. \A i \in J : Cardinality(After(i)) \in 0 .. m - 1
  BY <1>2, <1>4
<1>6. \A i, k \in J : Cardinality(After(i)) = Cardinality(After(k)) => i = k
  <2>1. J \subseteq I /\ J \subseteq Nat
    <3>1. 1 .. n \subseteq Nat
      OBVIOUS
    <3> QED BY <3>1
  <2>2. \A i, k \in J : i = k \/ i < k \/ k < i
    BY <2>1
  <2> QED BY <1>3, <2>1, <2>2
<1>7. f \in Injection(J, 0 .. m - 1)
  BY <1>5, <1>6 DEF Injection, IsInjective
<1>8. IsFiniteSet(0 .. m - 1) /\ Cardinality(0 .. m - 1) = m
  BY FS_Interval
<1> HIDE DEF f
<1> QED BY <1>7, <1>8, FS_Injection

LEMMA BoundedResult ==
  ASSUME AssuranceAssumption, NEW s \in Seq(Entry), \A i \in DOMAIN s : s[i].pending => s[i].body
  PROVE  Bounded(s) \in Seq(Entry) /\ Pairs(Bounded(s)) = Pairs(s) /\ Copies(Bounded(s))
<1> DEFINE t == Bounded(s)
           I == {j \in DOMAIN s : ~s[j].pending}
           Few(i) == Cardinality({j \in DOMAIN s : j > i /\ ~s[j].pending}) < MaxBodies
<1>1. Len(s) \in Nat /\ DOMAIN s = 1 .. Len(s) /\ \A i \in DOMAIN s : s[i] \in Entry
  OBVIOUS
<1>2. t = [i \in DOMAIN s |-> [s[i] EXCEPT !.body = s[i].body /\ (s[i].pending \/ Few(i))]]
  BY DEF Bounded
<1> HIDE DEF Few
<1>3. ASSUME NEW i \in DOMAIN s
      PROVE  /\ t[i] \in Entry /\ t[i].m = s[i].m /\ t[i].id = s[i].id /\ t[i].pending = s[i].pending
             /\ t[i].body = (s[i].body /\ (s[i].pending \/ Few(i)))
  <2>1. s[i] \in Entry /\ (s[i].body /\ (s[i].pending \/ Few(i))) \in BOOLEAN
    BY <1>1 DEF Entry
  <2>2. t[i] = [s[i] EXCEPT !.body = s[i].body /\ (s[i].pending \/ Few(i))]
    BY <1>2
  <2> QED BY <2>1, <2>2 DEF Entry
<1>4. DOMAIN t = DOMAIN s
  BY <1>2
<1>5. t \in Seq(Entry)
  <2>1. DOMAIN t = 1 .. Len(s) /\ \A k \in 1 .. Len(s) : t[k] \in Entry
    BY <1>1, <1>3, <1>4
  <2>2. t = [k \in 1 .. Len(s) |-> t[k]]
    BY <1>1, <1>2
  <2> HIDE DEF t
  <2>3. t \in [1 .. Len(s) -> Entry]
    BY <2>1, <2>2
  <2> QED BY <1>1, <2>3, SeqDef
<1> HIDE DEF t
<1>6. Pairs(t) = Pairs(s)
  BY <1>3, <1>4 DEF Pairs, ReceiptOf
<1>7. \A i \in DOMAIN t : t[i].pending => t[i].body
  BY <1>3, <1>4
<1>8. \A i \in Confirmed(t) : i \in I /\ Few(i)
  BY <1>3, <1>4 DEF Confirmed
<1>9. \A i \in I : Cardinality({j \in I : j > i}) < MaxBodies <=> Few(i)
  <2>1. \A i \in I : {j \in I : j > i} = {j \in DOMAIN s : j > i /\ ~s[j].pending}
    OBVIOUS
  <2> QED BY <2>1 DEF Few
<1>10. MaxBodies \in Nat /\ I \in SUBSET (1 .. Len(s)) /\ Confirmed(t) \in SUBSET I
  BY <1>1, <1>8 DEF AssuranceAssumption
<1> HIDE DEF I
<1>11. Cardinality(Confirmed(t)) <= MaxBodies
  <2>1. \A i \in Confirmed(t) : Cardinality({j \in I : j > i}) < MaxBodies
    BY <1>8, <1>9
  <2> QED BY <1>1, <1>10, <2>1, FewAreLast
<1> QED BY <1>5, <1>6, <1>7, <1>11 DEF t, Copies

\* What is left without one measurement.
LEMMA WithoutResult ==
  ASSUME sent \in Seq(Entry), \A i \in DOMAIN sent : sent[i].pending => sent[i].body, NEW m
  PROVE  /\ Without(m) \in Seq(Entry)
         /\ \A i \in DOMAIN Without(m) : Without(m)[i].pending => Without(m)[i].body
         /\ Pairs(Without(m)) = {q \in Pairs(sent) : q.m # m}
<1> DEFINE I == {i \in DOMAIN sent : sent[i].m # m}
           t == Without(m)
<1>1. I \in SUBSET DOMAIN sent /\ t = Sub(sent, I)
  BY DEF Without
<1>2. \A i \in DOMAIN sent : i \in I <=> sent[i].m # m
  OBVIOUS
<1> HIDE DEF I, t
<1>3. /\ t \in Seq(Entry)
      /\ \A i \in I : sent[i] \in Elements(t)
      /\ \A e \in Elements(t) : \E i \in I : e = sent[i]
  BY <1>1, SubInside
<1>4. \A i \in DOMAIN t : t[i] \in Elements(t)
  BY DEF Elements
<1>5. \A i \in DOMAIN t : t[i].pending => t[i].body
  BY <1>1, <1>3, <1>4
<1>6. ASSUME NEW q \in Pairs(t) PROVE q \in Pairs(sent) /\ q.m # m
  <2>1. PICK i \in DOMAIN t : q = ReceiptOf(t[i])
    BY <1>6 DEF Pairs
  <2>2. PICK k \in I : t[i] = sent[k]
    BY <1>3, <1>4
  <2> QED BY <1>1, <1>2, <2>1, <2>2 DEF Pairs, ReceiptOf
<1>7. ASSUME NEW q \in Pairs(sent), q.m # m PROVE q \in Pairs(t)
  <2>1. PICK i \in DOMAIN sent : q = ReceiptOf(sent[i])
    BY DEF Pairs
  <2>2. i \in I
    BY <1>2, <1>7, <2>1 DEF ReceiptOf
  <2>3. PICK k \in DOMAIN t : t[k] = sent[i]
    BY <1>3, <2>2 DEF Elements
  <2> QED BY <2>1, <2>3 DEF Pairs
<1> QED BY <1>3, <1>5, <1>6, <1>7 DEF t

LEMMA RecordResult ==
  ASSUME AssuranceAssumption, sent \in Seq(Entry),
         \A i \in DOMAIN sent : sent[i].pending => sent[i].body,
         NEW r \in Receipt, NEW pending \in BOOLEAN, Record(r, pending)
  PROVE  /\ sent' \in Seq(Entry) /\ Copies(sent')
         /\ Pairs(sent') = {q \in Pairs(sent) : q.m # r.m} \cup {r}
<1> DEFINE w == Without(r.m)
           e == [m |-> r.m, id |-> r.id, body |-> TRUE, pending |-> pending]
           t == Append(w, e)
<1>1. /\ w \in Seq(Entry) /\ \A i \in DOMAIN w : w[i].pending => w[i].body
      /\ Pairs(w) = {q \in Pairs(sent) : q.m # r.m}
  BY WithoutResult
<1>2. e \in Entry /\ e.body /\ ReceiptOf(e) = r
  BY DEF Entry, Receipt, ReceiptOf
<1>3. sent' = Bounded(t)
  BY DEF Record
<1> HIDE DEF w, e
<1>4. t \in Seq(Entry) /\ Elements(t) = Elements(w) \cup {e}
  BY <1>1, <1>2, AppendElements
<1> HIDE DEF t
<1>5. \A x \in Elements(t) : x.pending => x.body
  BY <1>1, <1>2, <1>4 DEF Elements
<1>6. \A i \in DOMAIN t : t[i].pending => t[i].body
  BY <1>5 DEF Elements
<1>7. \A s : Pairs(s) = {ReceiptOf(x) : x \in Elements(s)}
  BY DEF Pairs, Elements
<1>8. Pairs(t) = Pairs(w) \cup {r}
  BY <1>2, <1>4, <1>7
<1> QED BY <1>1, <1>3, <1>4, <1>6, <1>8, BoundedResult

-----------------------------------------------------------------------------
(* The invariant: the lock, and what a process holding it knows of the record   *)

ProcType == [pc : {"idle", "want", "lookup", "record", "retain", "queue", "confirm", "returned"},
             receipt : Receipt \cup {None}, prev : {None, "pending", "confirmed"},
             accepted : BOOLEAN]

\* Between entering and leaving the assurance lock.
Critical == {"lookup", "record", "retain", "queue", "confirm"}

Held == queue \cup (UNION {got[d] : d \in Dests})

\* No receipt of the measurement m entered the delivery queue.
NeverSent(m) == \A q \in ever : q.m # m

\* What holds of a process in the state r.
Sound(r) ==
  /\ r.pc # "idle" => r.receipt \in Receipt
  /\ r.pc \in {"want", "lookup", "record"} => r.prev = None
  /\ r.accepted => r.pc \in {"confirm", "returned"} /\ r.receipt \in Held
  /\ r.pc = "record" => ~Known(r.receipt.m)
  /\ r.pc = "retain" => r.prev # None
  /\ r.pc \in {"retain", "queue", "confirm"} => r.receipt \in Pairs(sent)
  /\ r.pc \in {"queue", "confirm"} /\ r.prev = None /\ ~r.accepted => NeverSent(r.receipt.m)

FilesOK ==
  /\ sent \in Seq(Entry) /\ queue \subseteq Receipt /\ got \in [Dests -> SUBSET Receipt]
  /\ config \in Dests \cup {None} /\ holder \in Procs \cup {None}
  /\ built \in 0..MaxBuilt /\ deaths \in 0..MaxDeaths
  /\ \A q1, q2 \in Pairs(sent) : q1.m = q2.m => q1 = q2
  /\ ever \subseteq Pairs(sent)
  /\ Copies(sent)

ProcsOK ==
  /\ proc \in [Procs -> ProcType]
  /\ \A p \in Procs : Sound(proc[p]) /\ (proc[p].pc \in Critical => holder = p)

RInv == FilesOK /\ ProcsOK

HeldGrows == \A x \in Receipt : x \in Held => x \in Held'

LEMMA PairsTyped ==
  ASSUME NEW s \in Seq(Entry)
  PROVE  /\ Pairs(s) \subseteq Receipt
         /\ \A m : (\E i \in DOMAIN s : s[i].m = m) <=> \E q \in Pairs(s) : q.m = m
<1>1. \A i \in DOMAIN s : s[i] \in Entry
  OBVIOUS
<1>2. \A e \in Entry : ReceiptOf(e) \in Receipt /\ ReceiptOf(e).m = e.m
  BY DEF Entry, Receipt, ReceiptOf
<1> QED BY <1>1, <1>2 DEF Pairs

LEMMA PreviousKnown ==
  ASSUME sent \in Seq(Entry), NEW m, Known(m)
  PROVE  /\ Previous(m) \in Entry /\ ReceiptOf(Previous(m)) \in Pairs(sent)
         /\ ReceiptOf(Previous(m)).m = m
<1>1. PICK i \in DOMAIN sent : sent[i].m = m
  BY DEF Known
<1> DEFINE k == CHOOSE j \in DOMAIN sent : sent[j].m = m
<1>2. k \in DOMAIN sent /\ sent[k].m = m
  BY <1>1
<1>3. Previous(m) = sent[k]
  BY DEF Previous
<1> HIDE DEF k
<1>4. sent[k] \in Entry
  BY <1>2
<1> QED BY <1>2, <1>3, <1>4 DEF Pairs, ReceiptOf

\* Nobody else is between entering and leaving the lock while p is.
LEMMA Others ==
  ASSUME ProcsOK, HeldGrows, NEW q \in Procs, NEW r \in ProcType, r = proc[q],
         UNCHANGED <<sent, ever>> \/ r.pc \notin Critical
  PROVE  Sound(r)'
<1>1. Sound(r)
  BY DEF ProcsOK
<1>2. r.accepted => r.receipt \in Held'
  BY <1>1 DEF Sound, HeldGrows
<1>3. CASE UNCHANGED <<sent, ever>>
  BY <1>1, <1>2, <1>3 DEF Sound, Known, NeverSent
<1>4. CASE r.pc \notin Critical
  BY <1>1, <1>2, <1>4 DEF Sound, Critical
<1> QED BY <1>3, <1>4

\* A step of p: only the process holding the lock changes the record, and the
\* lock passes from or to p alone.
LEMMA OneMoves ==
  ASSUME AssuranceAssumption, ProcsOK, HeldGrows, NEW p \in Procs, NEW R \in ProcType, Becomes(p, R),
         Sound(R)',
         UNCHANGED <<sent, ever>> \/ proc[p].pc \in Critical,
         holder' = holder \/ holder \in {None, p},
         R.pc \in Critical => holder' = p
  PROVE  ProcsOK'
<1>1. proc' \in [Procs -> ProcType] /\ proc'[p] = R /\ \A q \in Procs \ {p} : proc'[q] = proc[q]
  BY DEF ProcsOK, Becomes
<1>2. ASSUME NEW q \in Procs, q # p
      PROVE  Sound(proc[q])' /\ (proc'[q].pc \in Critical => holder' = q)
  <2>1. PICK r \in ProcType : r = proc[q] /\ r = proc'[q]
    BY <1>1, <1>2 DEF ProcsOK
  <2>2. r.pc \in Critical => holder = q
    BY <2>1 DEF ProcsOK
  <2>3. UNCHANGED <<sent, ever>> \/ r.pc \notin Critical
    BY <1>2, <2>2 DEF ProcsOK
  <2>4. Sound(r)'
    BY <2>1, <2>3, Others
  <2>5. r.pc \in Critical => holder' = q
    BY <1>2, <2>2 DEF AssuranceAssumption
  <2> QED BY <2>1, <2>4, <2>5 DEF Sound
<1>3. Sound(proc[p])'
  BY <1>1 DEF Sound
<1> QED BY <1>1, <1>2, <1>3 DEF ProcsOK

-----------------------------------------------------------------------------
(* Every step keeps the invariant *)

\* A step of p that touches the process and the lock only.
LEMMA Quiet ==
  ASSUME AssuranceAssumption, RInv, NEW p \in Procs, NEW R \in ProcType, Becomes(p, R), Sound(R),
         UNCHANGED <<sent, queue, got, config, deaths, ever>>, built' \in 0..MaxBuilt,
         holder' \in {holder, p, None}, holder' = holder \/ holder \in {None, p},
         R.pc \in Critical => holder' = p
  PROVE  RInv'
<1>1. HeldGrows
  BY DEF HeldGrows, Held
<1>2. Sound(R)'
  BY DEF Sound, Known, NeverSent, Held
<1>3. ProcsOK'
  BY <1>1, <1>2, OneMoves DEF RInv
<1>4. FilesOK'
  BY DEF RInv, FilesOK, Copies, Confirmed, Pairs
<1> QED BY <1>3, <1>4 DEF RInv

LEMMA ProcFields ==
  ASSUME NEW r \in ProcType
  PROVE  /\ r.pc \in {"idle", "want", "lookup", "record", "retain", "queue", "confirm", "returned"}
         /\ r.receipt \in Receipt \cup {None} /\ r.prev \in {None, "pending", "confirmed"}
         /\ r.accepted \in BOOLEAN
BY DEF ProcType

\* What holds of the process p.
LEMMA Mine ==
  ASSUME RInv, NEW p \in Procs
  PROVE  /\ proc[p] \in ProcType /\ Sound(proc[p]) /\ (proc[p].pc \in Critical => holder = p)
         /\ sent \in Seq(Entry) /\ \A i \in DOMAIN sent : sent[i].pending => sent[i].body
BY DEF RInv, ProcsOK, FilesOK, Copies

LEMMA BuildSound ==
  ASSUME AssuranceAssumption, RInv, NEW p \in Procs, NEW m \in Measurements, Build(p, m)
  PROVE  RInv'
<1>1. built \in Nat /\ built + 1 \in 1..MaxBuilt /\ built' = built + 1
  BY DEF Build, RInv, FilesOK, AssuranceAssumption
<1>2. PICK R \in ProcType : R = [Idle EXCEPT !.pc = "want", !.receipt = [m |-> m, id |-> built + 1]]
  BY <1>1 DEF ProcType, Idle, Receipt
<1>3. R.pc = "want" /\ R.receipt \in Receipt /\ R.prev = None /\ ~R.accepted
  BY <1>1, <1>2 DEF Idle, Receipt
<1>4. Sound(R)
  BY <1>3 DEF Sound
<1>5. Becomes(p, R) /\ UNCHANGED <<sent, queue, got, config, holder, deaths, ever>>
  BY <1>2 DEF Build
<1>6. built' \in 0..MaxBuilt
  BY <1>1
<1> QED BY <1>3, <1>4, <1>5, <1>6, Quiet DEF Critical

LEMMA EnterSound ==
  ASSUME AssuranceAssumption, RInv, NEW p \in Procs, Enter(p)
  PROVE  RInv'
<1>1. PICK r \in ProcType : r = proc[p] /\ Sound(r) /\ r.pc = "want"
  BY Mine DEF Enter, At
<1>2. PICK R \in ProcType : R = [r EXCEPT !.pc = "lookup"]
  BY DEF ProcType
<1>3. R.pc = "lookup" /\ R.receipt = r.receipt /\ R.prev = r.prev /\ R.accepted = r.accepted
  BY <1>2 DEF ProcType
<1>4. Sound(R)
  BY <1>1, <1>3 DEF Sound
<1>5. /\ Becomes(p, R) /\ holder = None /\ holder' = p
      /\ UNCHANGED <<sent, queue, got, config, built, deaths, ever>>
  BY <1>1, <1>2 DEF Enter, Enters
<1>6. built' \in 0..MaxBuilt
  BY <1>5 DEF RInv, FilesOK
<1> QED BY <1>4, <1>5, <1>6, Quiet

LEMMA FirstTimeSound ==
  ASSUME AssuranceAssumption, RInv, NEW p \in Procs, FirstTime(p)
  PROVE  RInv'
<1>1. PICK r \in ProcType : r = proc[p] /\ Sound(r) /\ r.pc = "lookup" /\ holder = p
  BY Mine DEF FirstTime, At, Critical
<1>2. PICK R \in ProcType : R = [r EXCEPT !.pc = "record"]
  BY DEF ProcType
<1>3. R.pc = "record" /\ R.receipt = r.receipt /\ R.prev = r.prev /\ R.accepted = r.accepted
  BY <1>2 DEF ProcType
<1>4. Sound(R)
  BY <1>1, <1>3 DEF Sound, FirstTime
<1>5. Becomes(p, R) /\ UNCHANGED <<sent, queue, got, config, holder, built, deaths, ever>>
  BY <1>1, <1>2 DEF FirstTime
<1>6. built' \in 0..MaxBuilt
  BY <1>5 DEF RInv, FilesOK
<1> QED BY <1>1, <1>4, <1>5, <1>6, Quiet

LEMMA FoundSound ==
  ASSUME AssuranceAssumption, RInv, NEW p \in Procs, Resend(p) \/ Recover(p)
  PROVE  RInv'
<1>1. PICK r \in ProcType : r = proc[p] /\ Sound(r) /\ r.pc = "lookup" /\ holder = p
  BY Mine DEF Resend, Recover, At, Critical
<1>2. Known(r.receipt.m) /\ sent \in Seq(Entry)
  BY <1>1, Mine DEF Resend, Recover
<1>3. PICK x \in Receipt : x = ReceiptOf(Previous(r.receipt.m)) /\ x \in Pairs(sent)
  BY <1>2, PreviousKnown, PairsTyped
<1>4. PICK pc \in {"queue", "retain"}, prev \in {"pending", "confirmed"} :
        Becomes(p, [r EXCEPT !.pc = pc, !.receipt = x, !.prev = prev])
  BY <1>1, <1>3 DEF Resend, Recover
<1>5. PICK R \in ProcType : R = [r EXCEPT !.pc = pc, !.receipt = x, !.prev = prev]
  BY DEF ProcType
<1>6. R.pc = pc /\ R.receipt = x /\ R.prev = prev /\ R.accepted = r.accepted
  BY <1>5 DEF ProcType
<1>7. ~r.accepted /\ prev # None
  BY <1>1 DEF Sound, AssuranceAssumption
<1>8. Sound(R)
  BY <1>3, <1>6, <1>7 DEF Sound
<1>9. Becomes(p, R) /\ UNCHANGED <<sent, queue, got, config, holder, built, deaths, ever>>
  BY <1>4, <1>5 DEF Resend, Recover
<1>10. built' \in 0..MaxBuilt
  BY <1>9 DEF RInv, FilesOK
<1> QED BY <1>1, <1>8, <1>9, <1>10, Quiet

LEMMA NotRetainedSound ==
  ASSUME AssuranceAssumption, RInv, NEW p \in Procs, NotRetained(p)
  PROVE  RInv'
<1>1. PICK r \in ProcType : r = proc[p] /\ Sound(r) /\ r.pc = "lookup" /\ holder = p
  BY Mine DEF NotRetained, At, Critical
<1>2. Known(r.receipt.m) /\ sent \in Seq(Entry)
  BY <1>1, Mine DEF NotRetained
<1>3. PICK x \in Receipt : x = ReceiptOf(Previous(r.receipt.m))
  BY <1>2, PreviousKnown, PairsTyped
<1>4. PICK R \in ProcType : R = [r EXCEPT !.pc = "returned", !.receipt = x]
  BY DEF ProcType
<1>5. R.pc = "returned" /\ R.receipt = x /\ R.prev = r.prev /\ R.accepted = r.accepted
  BY <1>4 DEF ProcType
<1>6. Sound(R)
  BY <1>1, <1>3, <1>5 DEF Sound
<1>7. Becomes(p, R) /\ holder' = None /\ UNCHANGED <<sent, queue, got, config, built, deaths, ever>>
  BY <1>1, <1>3, <1>4 DEF NotRetained
<1>8. built' \in 0..MaxBuilt
  BY <1>7 DEF RInv, FilesOK
<1> QED BY <1>1, <1>5, <1>6, <1>7, <1>8, Quiet DEF Critical

\* A step that changes the record: RecordFirst, Retain and Confirm, under the lock.
LEMMA RecordChanges ==
  ASSUME AssuranceAssumption, RInv, NEW p \in Procs, proc[p].pc \in Critical,
         NEW R \in ProcType, Becomes(p, R),
         Sound(R)',
         sent' \in Seq(Entry), Copies(sent'), \A q1, q2 \in Pairs(sent') : q1.m = q2.m => q1 = q2,
         ever \subseteq Pairs(sent'),
         UNCHANGED <<queue, got, config, built, deaths, ever>>,
         holder' \in {holder, None}, R.pc \in Critical => holder' = p
  PROVE  RInv'
<1>1. HeldGrows
  BY DEF HeldGrows, Held
<1>2. holder = p
  BY Mine
<1>3. ProcsOK'
  BY <1>1, <1>2, OneMoves DEF RInv
<1>4. FilesOK'
  BY DEF RInv, FilesOK
<1> QED BY <1>3, <1>4 DEF RInv

LEMMA RecordFirstSound ==
  ASSUME AssuranceAssumption, RInv, NEW p \in Procs, RecordFirst(p)
  PROVE  RInv'
<1>1. PICK r \in ProcType : r = proc[p] /\ Sound(r) /\ r.pc = "record" /\ holder = p
  BY Mine DEF RecordFirst, At, Critical
<1>2. PICK x \in Receipt : x = r.receipt
  BY <1>1 DEF Sound
<1>3. PICK R \in ProcType : R = [r EXCEPT !.pc = "queue"]
  BY DEF ProcType
<1>4. R.pc = "queue" /\ R.receipt = x /\ R.prev = r.prev /\ R.accepted = r.accepted
  BY <1>2, <1>3 DEF ProcType
<1>5. /\ Becomes(p, R) /\ Record(x, TRUE)
      /\ UNCHANGED <<queue, got, config, holder, built, deaths, ever>>
  BY <1>1, <1>2, <1>3 DEF RecordFirst, RecordPending
<1>6. /\ sent' \in Seq(Entry) /\ Copies(sent')
      /\ Pairs(sent') = {q \in Pairs(sent) : q.m # x.m} \cup {x}
  BY <1>5, Mine, RecordResult
<1>7. \A q \in Pairs(sent) : q.m # x.m
  BY <1>1, <1>2, Mine, PairsTyped DEF Sound, Known
<1>8. ever \subseteq Pairs(sent) /\ \A q1, q2 \in Pairs(sent) : q1.m = q2.m => q1 = q2
  BY DEF RInv, FilesOK
<1>9. ever' = ever /\ NeverSent(x.m)'
  BY <1>5, <1>7, <1>8 DEF NeverSent
<1>10. ~R.accepted
  BY <1>1, <1>4 DEF Sound
<1>11. x \in Pairs(sent')
  BY <1>6
<1>12. Sound(R)'
  BY <1>4, <1>9, <1>10, <1>11 DEF Sound
<1>13. /\ \A q1, q2 \in Pairs(sent') : q1.m = q2.m => q1 = q2
       /\ ever \subseteq Pairs(sent')
  BY <1>6, <1>7, <1>8
<1> QED BY <1>1, <1>5, <1>6, <1>10, <1>12, <1>13, RecordChanges DEF Critical

\* Recording again a receipt that is recorded changes no receipt.
LEMMA RecordAgain ==
  ASSUME AssuranceAssumption, RInv, NEW x \in Receipt, x \in Pairs(sent), NEW pending \in BOOLEAN,
         Record(x, pending)
  PROVE  sent' \in Seq(Entry) /\ Copies(sent') /\ Pairs(sent') = Pairs(sent)
<1>1. /\ sent \in Seq(Entry) /\ \A i \in DOMAIN sent : sent[i].pending => sent[i].body
      /\ \A q1, q2 \in Pairs(sent) : q1.m = q2.m => q1 = q2
  BY DEF RInv, FilesOK, Copies
<1>2. /\ sent' \in Seq(Entry) /\ Copies(sent')
      /\ Pairs(sent') = {q \in Pairs(sent) : q.m # x.m} \cup {x}
  BY <1>1, RecordResult
<1> QED BY <1>1, <1>2

LEMMA RetainSound ==
  ASSUME AssuranceAssumption, RInv, NEW p \in Procs, Retain(p)
  PROVE  RInv'
<1>1. PICK r \in ProcType : r = proc[p] /\ Sound(r) /\ r.pc = "retain" /\ holder = p
  BY Mine DEF Retain, At, Critical
<1>2. PICK x \in Receipt : x = r.receipt /\ x \in Pairs(sent)
  BY <1>1 DEF Sound
<1>3. PICK R \in ProcType : R = [r EXCEPT !.pc = "queue"]
  BY DEF ProcType
<1>4. R.pc = "queue" /\ R.receipt = x /\ R.prev = r.prev /\ R.accepted = r.accepted
  BY <1>2, <1>3 DEF ProcType
<1>5. /\ Becomes(p, R) /\ Record(x, FALSE)
      /\ UNCHANGED <<queue, got, config, holder, built, deaths, ever>>
  BY <1>1, <1>2, <1>3 DEF Retain
<1>6. sent' \in Seq(Entry) /\ Copies(sent') /\ Pairs(sent') = Pairs(sent)
  BY <1>2, <1>5, RecordAgain
<1>7. ~r.accepted /\ r.prev # None
  BY <1>1 DEF Sound
<1>8. x \in Pairs(sent')
  BY <1>2, <1>6
<1>9. Sound(R)'
  BY <1>4, <1>7, <1>8 DEF Sound
<1>10. ever \subseteq Pairs(sent) /\ \A q1, q2 \in Pairs(sent) : q1.m = q2.m => q1 = q2
  BY DEF RInv, FilesOK
<1> QED BY <1>1, <1>5, <1>6, <1>9, <1>10, RecordChanges DEF Critical

\* The delivery queue takes the receipt: it is queued, or held where it is enrolled.
LEMMA AcceptSound ==
  ASSUME AssuranceAssumption, RInv, NEW p \in Procs, Accept(p)
  PROVE  RInv'
<1>1. PICK r \in ProcType : r = proc[p] /\ Sound(r) /\ r.pc = "queue" /\ holder = p
  BY Mine DEF Accept, At, Critical
<1>2. PICK x \in Receipt : x = r.receipt /\ x \in Pairs(sent)
  BY <1>1 DEF Sound
<1>3. PICK R \in ProcType : R = [r EXCEPT !.pc = "confirm", !.accepted = TRUE]
  BY DEF ProcType
<1>4. R.pc = "confirm" /\ R.receipt = x /\ R.prev = r.prev /\ R.accepted
  BY <1>2, <1>3 DEF ProcType
<1>5. /\ Becomes(p, R) /\ UNCHANGED <<sent, got, config, holder, built, deaths>>
      /\ queue' = queue \cup {x} \/ (x \in got[config] /\ queue' = queue)
      /\ config # None /\ ever' = ever \cup {x}
  BY <1>1, <1>2, <1>3 DEF Accept, Answered
<1>6. HeldGrows /\ x \in Held'
  <2>1. config \in Dests
    BY <1>5 DEF RInv, FilesOK
  <2> QED BY <1>5, <2>1 DEF HeldGrows, Held
<1>7. Sound(R)'
  BY <1>2, <1>4, <1>5, <1>6 DEF Sound, Pairs
<1>8. ProcsOK'
  BY <1>1, <1>5, <1>6, <1>7, OneMoves DEF RInv, Critical
<1>9. FilesOK'
  <2>1. Pairs(sent') = Pairs(sent) /\ Copies(sent')
    BY <1>5 DEF RInv, FilesOK
  <2>2. queue' \subseteq Receipt /\ ever' \subseteq Pairs(sent')
    BY <1>2, <1>5, <2>1 DEF RInv, FilesOK
  <2> QED BY <1>5, <2>1, <2>2 DEF RInv, FilesOK
<1> QED BY <1>8, <1>9 DEF RInv

LEMMA RefuseSound ==
  ASSUME AssuranceAssumption, RInv, NEW p \in Procs, Refuse(p)
  PROVE  RInv'
<1>1. PICK r \in ProcType : r = proc[p] /\ Sound(r) /\ r.pc = "queue" /\ holder = p
  BY Mine DEF Refuse, At, Critical
<1>2. PICK R \in ProcType : R = [r EXCEPT !.pc = "confirm", !.accepted = FALSE]
  BY DEF ProcType
<1>3. R.pc = "confirm" /\ R.receipt = r.receipt /\ R.prev = r.prev /\ ~R.accepted
  BY <1>2 DEF ProcType
<1>4. ~r.accepted
  BY <1>1 DEF Sound
<1>5. Sound(R)
  BY <1>1, <1>3, <1>4 DEF Sound
<1>6. Becomes(p, R) /\ UNCHANGED <<sent, queue, got, config, holder, built, deaths, ever>>
  BY <1>1, <1>2 DEF Refuse, Answered
<1>7. built' \in 0..MaxBuilt
  BY <1>6 DEF RInv, FilesOK
<1> QED BY <1>1, <1>5, <1>6, <1>7, Quiet

\* The confirmation forgets only what never entered the queue.
LEMMA ConfirmSound ==
  ASSUME AssuranceAssumption, RInv, NEW p \in Procs, Confirm(p)
  PROVE  RInv'
<1>1. PICK r \in ProcType : r = proc[p] /\ Sound(r) /\ r.pc = "confirm" /\ holder = p
  BY Mine DEF Confirm, At, Critical
<1>2. PICK x \in Receipt : x = r.receipt /\ x \in Pairs(sent)
  BY <1>1 DEF Sound
<1>3. PICK R \in ProcType : R = [r EXCEPT !.pc = "returned"]
  BY DEF ProcType
<1>4. R.pc = "returned" /\ R.receipt = x /\ R.prev = r.prev /\ R.accepted = r.accepted
  BY <1>2, <1>3 DEF ProcType
<1>5. Becomes(p, R) /\ holder' = None /\ UNCHANGED <<queue, got, config, built, deaths, ever>>
  BY <1>1, <1>3 DEF Confirm
<1>6. Sound(R)'
  <2>1. Held' = Held
    BY <1>5 DEF Held
  <2>2. R.accepted => R.receipt \in Held'
    BY <1>1, <1>2, <1>4, <2>1 DEF Sound
  <2> QED BY <1>4, <2>2 DEF Sound
<1>7. /\ sent \in Seq(Entry) /\ Copies(sent) /\ ever \subseteq Pairs(sent)
      /\ \A q1, q2 \in Pairs(sent) : q1.m = q2.m => q1 = q2
  BY DEF RInv, FilesOK
<1>8. /\ sent' \in Seq(Entry) /\ Copies(sent') /\ ever \subseteq Pairs(sent')
      /\ Pairs(sent') \subseteq Pairs(sent)
  <2>1. CASE ~r.accepted /\ r.prev = None
    <3>1. sent' = Bounded(Without(x.m))
      BY <1>1, <1>2, <2>1 DEF Confirm, Forgets
    <3>2. NeverSent(x.m)
      BY <1>1, <1>2, <2>1 DEF Sound
    <3>3. /\ Without(x.m) \in Seq(Entry)
          /\ \A i \in DOMAIN Without(x.m) : Without(x.m)[i].pending => Without(x.m)[i].body
          /\ Pairs(Without(x.m)) = {q \in Pairs(sent) : q.m # x.m}
      BY Mine, WithoutResult
    <3>4. /\ sent' \in Seq(Entry) /\ Copies(sent')
          /\ Pairs(sent') = {q \in Pairs(sent) : q.m # x.m}
      BY <3>1, <3>3, BoundedResult
    <3> QED BY <1>7, <3>2, <3>4 DEF NeverSent
  <2>2. CASE r.accepted /\ r.prev # "confirmed"
    <3>1. Record(x, FALSE)
      BY <1>1, <1>2, <2>2 DEF Confirm, Forgets
    <3> QED BY <1>2, <1>7, <3>1, RecordAgain
  <2>3. CASE ~(~r.accepted /\ r.prev = None) /\ ~(r.accepted /\ r.prev # "confirmed")
    <3>1. UNCHANGED sent
      BY <1>1, <2>3 DEF Confirm, Forgets
    <3> QED BY <1>7, <3>1
  <2> QED BY <2>1, <2>2, <2>3
<1>9. \A q1, q2 \in Pairs(sent') : q1.m = q2.m => q1 = q2
  BY <1>7, <1>8
<1> QED BY <1>1, <1>4, <1>5, <1>6, <1>8, <1>9, RecordChanges DEF Critical

LEMMA LeavesSound ==
  ASSUME AssuranceAssumption, RInv, NEW p \in Procs, Return(p) \/ Dies(p)
  PROVE  RInv'
<1>1. PICK R \in ProcType : R = Idle
  BY DEF ProcType, Idle
<1>2. R.pc = "idle" /\ R.prev = None /\ ~R.accepted
  BY <1>1 DEF Idle
<1>3. Becomes(p, R) /\ UNCHANGED <<sent, queue, got, config, built, ever>>
  BY <1>1 DEF Return, Dies
<1>4. holder' = holder \/ (holder = p /\ holder' = None)
  BY DEF Return, Dies
<1>5. deaths' \in 0..MaxDeaths
  BY DEF Return, Dies, RInv, FilesOK, AssuranceAssumption
<1>6. HeldGrows /\ Sound(R)'
  BY <1>2, <1>3 DEF HeldGrows, Held, Sound
<1>7. ProcsOK'
  BY <1>2, <1>3, <1>4, <1>6, OneMoves DEF RInv, Critical
<1>8. FilesOK'
  BY <1>3, <1>4, <1>5 DEF RInv, FilesOK, Copies, Confirmed, Pairs
<1> QED BY <1>7, <1>8 DEF RInv

\* What the delivery queue drops, the destination holds.
LEMMA OutsideSound ==
  ASSUME AssuranceAssumption, RInv,
         (\E r \in queue : Deliver(r)) \/ (\E d \in Dests \cup {None} : Enroll(d)) \/ UNCHANGED vars
  PROVE  RInv'
<1>1. UNCHANGED <<sent, holder, proc, built, deaths, ever>>
  BY DEF Deliver, Enroll, vars
<1>2. queue' \subseteq Receipt /\ got' \in [Dests -> SUBSET Receipt] /\ config' \in Dests \cup {None}
  <2>1. CASE \E r \in queue : Deliver(r)
    BY <2>1 DEF Deliver, RInv, FilesOK
  <2>2. CASE (\E d \in Dests \cup {None} : Enroll(d)) \/ UNCHANGED vars
    BY <2>2 DEF Enroll, vars, RInv, FilesOK
  <2> QED BY <2>1, <2>2
<1>3. HeldGrows
  <2>1. CASE \E r \in queue : Deliver(r)
    <3>1. PICK q \in queue : Deliver(q)
      BY <2>1
    <3>2. config \in Dests /\ got \in [Dests -> SUBSET Receipt]
      BY <3>1 DEF Deliver, RInv, FilesOK
    <3>3. /\ \A d \in Dests : got[d] \subseteq got'[d]
          /\ q \in got'[config] /\ \A y \in queue : y = q \/ y \in queue'
      BY <3>1, <3>2 DEF Deliver
    <3> QED BY <3>2, <3>3 DEF HeldGrows, Held
  <2>2. CASE (\E d \in Dests \cup {None} : Enroll(d)) \/ UNCHANGED vars
    BY <2>2 DEF Enroll, vars, HeldGrows, Held
  <2> QED BY <2>1, <2>2
<1>4. \A q \in Procs : Sound(proc[q])' /\ (proc'[q].pc \in Critical => holder' = q)
  <2> TAKE q \in Procs
  <2>1. PICK r \in ProcType : r = proc[q] /\ r = proc'[q]
    BY <1>1 DEF RInv, ProcsOK
  <2>2. Sound(r)'
    BY <1>1, <1>3, <2>1, Others DEF RInv
  <2> QED BY <1>1, <2>1, <2>2 DEF Sound, RInv, ProcsOK
<1>5. ProcsOK'
  BY <1>1, <1>4 DEF RInv, ProcsOK
<1>6. FilesOK'
  BY <1>1, <1>2 DEF RInv, FilesOK, Copies, Confirmed, Pairs
<1> QED BY <1>5, <1>6 DEF RInv

LEMMA NextSound ==
  ASSUME AssuranceAssumption, RInv, [Next]_vars
  PROVE  RInv'
<1>1. CASE \E p \in Procs, m \in Measurements : Build(p, m)
  BY <1>1, BuildSound
<1>2. ASSUME NEW p \in Procs,
             \/ Enter(p) \/ FirstTime(p) \/ Resend(p) \/ Recover(p) \/ NotRetained(p)
             \/ RecordFirst(p) \/ Retain(p) \/ Accept(p) \/ Refuse(p) \/ Confirm(p)
             \/ Return(p) \/ Dies(p)
      PROVE  RInv'
  BY <1>2, EnterSound, FirstTimeSound, FoundSound, NotRetainedSound, RecordFirstSound, RetainSound,
     AcceptSound, RefuseSound, ConfirmSound, LeavesSound
<1>3. CASE (\E r \in queue : Deliver(r)) \/ (\E d \in Dests \cup {None} : Enroll(d)) \/ UNCHANGED vars
  BY <1>3, OutsideSound
<1> QED BY <1>1, <1>2, <1>3 DEF Next

LEMMA InitSound ==
  ASSUME AssuranceAssumption, Init
  PROVE  RInv
<1>1. PICK R \in ProcType : R = Idle
  BY DEF ProcType, Idle
<1>2. proc \in [Procs -> ProcType] /\ \A p \in Procs : proc[p] = R
  BY <1>1 DEF Init
<1>3. Sound(R) /\ R.pc \notin Critical
  <2>1. R.pc = "idle" /\ ~R.accepted
    BY <1>1 DEF Idle
  <2> QED BY <2>1 DEF Sound, Critical
<1>4. ProcsOK
  BY <1>2, <1>3 DEF ProcsOK
<1>5. Pairs(sent) = {} /\ Confirmed(sent) = {} /\ DOMAIN sent = {} /\ sent \in Seq(Entry)
  BY DEF Init, Pairs, Confirmed
<1>6. Copies(sent)
  BY <1>5, FS_EmptySet DEF Copies, AssuranceAssumption
<1>7. FilesOK
  BY <1>5, <1>6 DEF FilesOK, Init, AssuranceAssumption
<1> QED BY <1>4, <1>7 DEF RInv

-----------------------------------------------------------------------------
(* The theorems *)

\* The process holding the lock is alone between looking a measurement up and
\* confirming it, and the record holds one receipt of each measurement and every
\* receipt that was queued.
THEOREM Invariance == ASSUME AssuranceAssumption PROVE Spec => []RInv
<1>1. Init => RInv
  BY InitSound
<1>2. RInv /\ [Next]_vars => RInv'
  BY NextSound
<1> QED BY <1>1, <1>2, PTL DEF Spec

\* The files and the processes keep their types.
THEOREM TypeCorrect == ASSUME AssuranceAssumption PROVE Spec => []TypeOK
<1>1. RInv => TypeOK
  <2> SUFFICES ASSUME RInv PROVE TypeOK
    OBVIOUS
  <2>1. ever \subseteq Receipt
    BY PairsTyped DEF RInv, FilesOK
  <2> QED BY <2>1 DEF RInv, FilesOK, ProcsOK, ProcType, TypeOK
<1> QED BY <1>1, Invariance, PTL

\* One measurement is one receipt, through deaths at any step, refusals and new
\* enrollments; every receipt that was queued is remembered; the only copy of a
\* body is kept; and an accepted receipt is queued or delivered.
THEOREM ReceiptsOnce == ASSUME AssuranceAssumption PROVE Spec => []ReceiptsAreOnce
<1>1. RInv => ReceiptsAreOnce
  <2> SUFFICES ASSUME RInv PROVE ReceiptsAreOnce
    OBVIOUS
  <2>1. OneReceipt
    BY DEF RInv, FilesOK, OneReceipt
  <2>2. SentIsRemembered
    BY DEF RInv, FilesOK, Pairs, SentIsRemembered
  <2>3. OnlyCopyKept
    BY DEF RInv, FilesOK, Copies, Confirmed, OnlyCopyKept
  <2>4. AcceptedIsHeld
    BY DEF RInv, ProcsOK, Sound, Held, At, AcceptedIsHeld
  <2> QED BY <2>1, <2>2, <2>3, <2>4 DEF ReceiptsAreOnce
<1> QED BY <1>1, Invariance, PTL
=============================================================================
