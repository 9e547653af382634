---------------------------- MODULE Project_proofs ----------------------------
(***************************************************************************)
(* Proofs about the parts of one project that MCProject checks, each for   *)
(* every value of its constants: the synchronisation of the memory journal *)
(* (extended), then the others as instances.                               *)
(***************************************************************************)
EXTENDS MemorySync, Subsequences_proofs

CONSTANTS StateEvents, Slow, MaxDeaths, MaxDamage, Repair, MaxEvents, MaxFailures,
          MaxTampers, Sessions, Cursors, Versions, Bad, First, Overlap, MaxHooks,
          Measurable, Old, Pruners, Keep, Drops, Own, Others, Missing, Flaky
VARIABLES stateLock, stateOld, primary, backup, writers, dead, done, damage, ledgerLock,
          ledgerOld, at, gone, log, chain, stamp, work, reader, signed, returned, wasValid,
          failures, tampers, torn, gateConfig, worktree, baseline, armed, stopping, stops,
          envelope, completed, queued, keptFor, measuredOf, receipts, jobs, measured, dirs,
          kept, pruner, burst, lapsed, edited, records, hooked, codex, pipe, exit, before, bridge

\* state.mjs, recovery.mjs
State == INSTANCE LocalState WITH
  Events <- StateEvents, lock <- stateLock, old <- stateOld, proc <- writers, gone <- dead
\* provenance.mjs
Chain == INSTANCE ProvenanceChain WITH
  lock <- ledgerLock, old <- ledgerOld
\* the hook runners
Stops == INSTANCE StopGate WITH
  Trees <- Versions, config <- gateConfig, tree <- worktree, hook <- stopping,
  hooks <- stops, jobs <- queued, kept <- keptFor, measured <- measuredOf
\* auto-debt.mjs pruneWork
Prunes == INSTANCE WorkPrune WITH
  Changes <- Measurable
\* idleproof codex
Bridge == INSTANCE CodexBridge WITH
  tree <- edited, session <- records

-----------------------------------------------------------------------------
(* The synchronisation of the memory journal *)

\* A prefix has the elements of the whole, as far as it goes.
LEMMA PrefixElements ==
  ASSUME NEW S, NEW s \in Seq(S), NEW t \in Seq(S)
  PROVE  IsPrefix(s, t) <=> Len(s) <= Len(t) /\ \A i \in 1 .. Len(s) : s[i] = t[i]
<1>1. Len(s) \in Nat /\ Len(t) \in Nat
  OBVIOUS
<1>2. ASSUME Len(s) <= Len(t)
      PROVE  SubSeq(s, 1, Len(s)) = SubSeq(t, 1, Len(s)) <=> \A i \in 1 .. Len(s) : s[i] = t[i]
  BY <1>1, <1>2
<1> QED BY <1>2 DEF IsPrefix

LEMMA PrefixReflexive ==
  ASSUME NEW S, NEW s \in Seq(S)
  PROVE  IsPrefix(s, s)
BY PrefixElements

LEMMA EmptyIsPrefix ==
  ASSUME NEW S, NEW s \in Seq(S)
  PROVE  IsPrefix(<<>>, s)
<1>1. <<>> \in Seq(S) /\ Len(<<>>) = 0 /\ Len(s) \in Nat
  OBVIOUS
<1>2. SubSeq(s, 1, 0) = <<>> /\ SubSeq(<<>>, 1, 0) = <<>>
  BY <1>1
<1> QED BY <1>1, <1>2 DEF IsPrefix

LEMMA PrefixTransitive ==
  ASSUME NEW S, NEW s \in Seq(S), NEW t \in Seq(S), NEW u \in Seq(S),
         IsPrefix(s, t), IsPrefix(t, u)
  PROVE  IsPrefix(s, u)
<1>1. Len(s) \in Nat /\ Len(t) \in Nat /\ Len(u) \in Nat
  OBVIOUS
<1> QED BY <1>1, PrefixElements

\* Prefixes of one sequence are prefixes of each other.
LEMMA PrefixesOfOne ==
  ASSUME NEW S, NEW s \in Seq(S), NEW t \in Seq(S), NEW u \in Seq(S),
         IsPrefix(s, u), IsPrefix(t, u), Len(s) <= Len(t)
  PROVE  IsPrefix(s, t)
<1>1. Len(s) \in Nat /\ Len(t) \in Nat /\ Len(u) \in Nat
  OBVIOUS
<1> QED BY <1>1, PrefixElements

LEMMA PrefixLonger ==
  ASSUME NEW S, NEW s \in Seq(S), NEW t \in Seq(S), IsPrefix(s, t)
  PROVE  /\ Len(s) <= Len(t)
         /\ Len(s) = Len(t) => s = t
         /\ s # <<>> => t # <<>> /\ Head(s) = Head(t)
<1>1. Len(s) \in Nat /\ Len(t) \in Nat
  OBVIOUS
<1>2. Len(s) <= Len(t) /\ \A i \in 1 .. Len(s) : s[i] = t[i]
  BY PrefixElements
<1>3. Len(s) = Len(t) => s = t
  BY <1>1, <1>2
<1>4. s # <<>> => Len(s) >= 1 /\ Head(s) = s[1]
  BY <1>1
<1>5. t # <<>> => Head(t) = t[1]
  BY <1>1
<1>6. s # <<>> => t # <<>>
  BY <1>1, <1>2
<1> QED BY <1>1, <1>2, <1>3, <1>4, <1>5, <1>6

\* What is in the histories is closed under prefixes.
LEMMA HistoriesClosed ==
  ASSUME SyncAssumption, NEW h \in Histories
  PROVE  /\ h \in Seq(Events)
         /\ \A n \in 0 .. Len(h) : SubSeq(h, 1, n) \in Histories /\ IsPrefix(SubSeq(h, 1, n), h)
         /\ \E j \in Journals : IsPrefix(h, j)
<1>0. PICK j \in Journals : h \in Prefixes(j)
  BY DEF Histories
<1>1. PICK l \in 0 .. Len(j) : h = SubSeq(j, 1, l)
  BY <1>0 DEF Prefixes
<1>2. j \in Seq(Events) /\ Len(j) \in Nat
  BY DEF SyncAssumption
<1>3. h \in Seq(Events) /\ Len(h) = l
  BY <1>1, <1>2
<1>4. IsPrefix(h, j)
  <2>1. \A i \in 1 .. l : h[i] = j[i]
    BY <1>1, <1>2
  <2> QED BY <1>2, <1>3, <2>1, PrefixElements
<1>5. ASSUME NEW n \in 0 .. Len(h)
      PROVE  SubSeq(h, 1, n) \in Histories /\ IsPrefix(SubSeq(h, 1, n), h)
  <2>1. SubSeq(h, 1, n) = SubSeq(j, 1, n) /\ n \in 0 .. Len(j)
    BY <1>1, <1>2, <1>3
  <2>2. SubSeq(h, 1, n) \in Histories
    BY <2>1 DEF Histories, Prefixes
  <2>3. SubSeq(h, 1, n) \in Seq(Events) /\ Len(SubSeq(h, 1, n)) = n
    BY <1>3
  <2>4. \A i \in 1 .. n : SubSeq(h, 1, n)[i] = h[i]
    BY <1>3
  <2>5. Len(h) \in Nat /\ n <= Len(h)
    BY <1>3
  <2> QED BY <1>3, <2>2, <2>3, <2>4, <2>5, PrefixElements
<1> QED BY <1>3, <1>4, <1>5


-----------------------------------------------------------------------------
(* What the Portal holds of one stream                                     *)

Heads(P, n, j) == {<<>>} \cup {g.to : g \in {f \in P : f.epoch = n /\ Head(f.to) = j}}
Longest(P, n, j) == CHOOSE h \in Heads(P, n, j) : \A g \in Heads(P, n, j) : Len(g) <= Len(h)
\* The pages stored of a stream continue each other.
OneChain(P) == \A n \in 1 .. MaxEpoch, j \in Identities :
              \E h \in Heads(P, n, j) : \A g \in Heads(P, n, j) : IsPrefix(g, h)

Held(Q, e, n, j) == Longest(Q[e], n, j)
HeldFor(Q, e, id) == Held(Q, e, id.epoch, Head(id.to))
\* The Portal will never store this page: its place is taken.
Never(Q, e, id) == id \notin Q[e] /\ id.from # HeldFor(Q, e, id)

-----------------------------------------------------------------------------
(* The inductive invariant                                                 *)

Pcs == {"idle", "up-to-date", "binding", "probing", "round", "next", "reading", "read", "diverged",
        "sending", "posted", "answered", "reset", "adopting", "resync"}
ProcType == [pc : Pcs, cfg : Enrollments \cup {None}, st : Cursor \cup {None},
             page : Page \cup {None}, seen : Histories, ans : Answer \cup {None}]
Network == [to : Enrollments, page : Page, from : Procs]

TypeInv ==
  /\ config \in Enrollments \cup {None} /\ journal \in Histories
  /\ cursor \in Cursor \cup {None}
  /\ portal \in [Enrollments -> SUBSET PageId]
  /\ net \subseteq Network
  /\ proc \in [Procs -> ProcType]

\* A cursor, as a file or as read: its head is held, its page continues it.
CursorSound(c, Q) ==
  c # None =>
    /\ c.journal = None => c.head = <<>> /\ c.pending = None
    /\ c.journal # None => IsPrefix(c.head, Held(Q, c.enr, c.epoch, c.journal))
    /\ c.pending # None => c.pending.id.from = c.head /\ OnStream(c, c.pending)

\* Where the Portal refuses nothing, the page of a terminal cursor is lost for good.
Calm == {"refuse", "identity"} \cap Happens = {}
StatusSound(c, Q) ==
  Calm /\ c # None =>
    /\ c.status # "identity-conflict"
    /\ c.status \in Terminal /\ c.pending # None => Never(Q, c.enr, c.pending.id)

Judged(r) == r.pc \in {"answered", "reset", "adopting"}
\* What a call knows at each of its steps is still so.
CallSound(r, Q) ==
  /\ r.pc # "idle" => r.cfg # None
  /\ CursorSound(r.st, Q)
  /\ r.pc \in {"probing", "reading", "read", "diverged"} => r.st # None
  /\ r.pc \in {"reading", "read", "diverged"} => r.st.pending = None /\ r.st.status \notin Terminal
  /\ r.pc = "read" => IsPrefix(r.st.head, r.seen)
  /\ r.pc \in {"sending", "posted"} \/ Judged(r) =>
       r.page # None /\ IsPrefix(r.page.id.from, HeldFor(Q, r.cfg, r.page.id))
  /\ Judged(r) =>
       /\ r.ans # None /\ r.ans.is # "diverged" /\ (Calm => r.ans.is \notin {"conflict", "incompatible"})
       /\ r.ans.is = "ack" => r.page.id \in Q[r.cfg]
       /\ r.ans.is = "mismatch" => Never(Q, r.cfg, r.page.id)
       /\ r.ans.is \in {"ack", "mismatch"} =>
            IsPrefix(r.page.id.from, r.ans.at) /\ IsPrefix(r.ans.at, HeldFor(Q, r.cfg, r.page.id))
  /\ r.pc = "reset" => r.ans.is = "mismatch"
  /\ r.pc = "adopting" =>
       /\ r.ans.is \in {"ack", "mismatch"}
       /\ IsPrefix(r.page.id.from, r.seen) /\ IsPrefix(r.seen, HeldFor(Q, r.cfg, r.page.id))

SyncInv ==
  /\ TypeInv
  /\ \A e \in Enrollments : OneChain(portal[e])
  /\ CursorSound(cursor, portal) /\ StatusSound(cursor, portal)
  /\ \A p \in Procs : CallSound(proc[p], portal)

-----------------------------------------------------------------------------
(* Lemmas about pages and chains                                           *)

LEMMA PageFacts ==
  ASSUME SyncAssumption, NEW g \in PageId
  PROVE  /\ g.epoch \in 1 .. MaxEpoch /\ g.from \in Histories /\ g.to \in Histories
         /\ g.from \in Seq(Events) /\ g.to \in Seq(Events)
         /\ IsPrefix(g.from, g.to) /\ g.from # g.to /\ g.to # <<>> /\ Head(g.to) \in Identities
         /\ Len(g.from) \in Nat /\ Len(g.to) \in Nat /\ Len(g.from) < Len(g.to)
<1>1. /\ g.epoch \in 1 .. MaxEpoch /\ g.from \in Histories /\ g.to \in Histories
      /\ IsPrefix(g.from, g.to) /\ g.from # g.to
  BY DEF PageId
<1>2. g.from \in Seq(Events) /\ g.to \in Seq(Events)
  BY <1>1, HistoriesClosed
<1>3. Len(g.from) \in Nat /\ Len(g.to) \in Nat
  BY <1>2
<1>4. Len(g.from) < Len(g.to)
  BY <1>1, <1>2, <1>3, PrefixLonger
<1>5. g.to # <<>>
  BY <1>3, <1>4
<1>6. Head(g.to) \in Identities
  <2>1. PICK j \in Journals : IsPrefix(g.to, j)
    BY <1>1, HistoriesClosed
  <2>2. j \in Seq(Events)
    BY DEF SyncAssumption
  <2>3. Head(g.to) = Head(j)
    BY <1>2, <1>5, <2>1, <2>2, PrefixLonger
  <2> QED BY <2>3 DEF Identities
<1> QED BY <1>1, <1>2, <1>3, <1>4, <1>5, <1>6

LEMMA EmptyHistory ==
  ASSUME SyncAssumption, Histories # {}
  PROVE  <<>> \in Histories
<1>1. PICK h \in Histories : TRUE
  OBVIOUS
<1>2. h \in Seq(Events) /\ \A n \in 0 .. Len(h) : SubSeq(h, 1, n) \in Histories
  BY HistoriesClosed
<1>3. 0 \in 0 .. Len(h) /\ SubSeq(h, 1, 0) = <<>>
  BY <1>2
<1> QED BY <1>2, <1>3

LEMMA HeadsTyped ==
  ASSUME SyncAssumption, Histories # {}, NEW P \in SUBSET PageId, NEW n, NEW j
  PROVE  \A h \in Heads(P, n, j) : h \in Histories /\ h \in Seq(Events) /\ Len(h) \in Nat
<1> SUFFICES ASSUME NEW h \in Heads(P, n, j) PROVE h \in Histories
  BY HistoriesClosed
<1>1. CASE h = <<>>
  BY <1>1, EmptyHistory
<1>2. CASE \E g \in P : h = g.to
  BY <1>2, PageFacts
<1> QED BY <1>1, <1>2 DEF Heads

\* The longest head is the end of the chain.
LEMMA LongestIsEnd ==
  ASSUME SyncAssumption, Histories # {}, NEW P \in SUBSET PageId, OneChain(P),
         NEW n \in 1 .. MaxEpoch, NEW j \in Identities
  PROVE  /\ Longest(P, n, j) \in Heads(P, n, j) /\ Longest(P, n, j) \in Histories
         /\ \A g \in Heads(P, n, j) : IsPrefix(g, Longest(P, n, j))
<1> DEFINE H == Heads(P, n, j)
           l == Longest(P, n, j)
<1>1. PICK h \in H : \A g \in H : IsPrefix(g, h)
  BY DEF OneChain
<1>2. \A g \in H : g \in Histories /\ g \in Seq(Events) /\ Len(g) \in Nat
  BY HeadsTyped
<1>3. \A g \in H : Len(g) <= Len(h)
  BY <1>1, <1>2, PrefixLonger
<1>4. l \in H /\ \A g \in H : Len(g) <= Len(l)
  <2>1. l = CHOOSE k \in H : \A g \in H : Len(g) <= Len(k)
    BY DEF Longest
  <2> HIDE DEF H, l
  <2> QED BY <1>3, <2>1
<1>5. l = h
  <2>1. IsPrefix(l, h) /\ Len(h) <= Len(l) /\ Len(l) <= Len(h)
    BY <1>1, <1>3, <1>4
  <2> QED BY <1>2, <1>4, <2>1, PrefixLonger
<1> QED BY <1>1, <1>2, <1>4, <1>5

\* A page that starts at the end of its chain becomes the end.
LEMMA ChainGrows ==
  ASSUME SyncAssumption, Histories # {}, NEW P \in SUBSET PageId, OneChain(P), NEW id \in PageId,
         id.from = Longest(P, id.epoch, Head(id.to))
  PROVE  /\ OneChain(P \cup {id})
         /\ \A n \in 1 .. MaxEpoch, j \in Identities :
              Longest(P \cup {id}, n, j) =
                IF n = id.epoch /\ j = Head(id.to) THEN id.to ELSE Longest(P, n, j)
<1> DEFINE Q == P \cup {id}
<1>1. Q \in SUBSET PageId
  OBVIOUS
<1>2. /\ id.epoch \in 1 .. MaxEpoch /\ Head(id.to) \in Identities
      /\ IsPrefix(id.from, id.to) /\ id.from \in Seq(Events) /\ id.to \in Seq(Events)
  BY PageFacts
<1>3. ASSUME NEW n \in 1 .. MaxEpoch, NEW j \in Identities, ~(n = id.epoch /\ j = Head(id.to))
      PROVE  Heads(Q, n, j) = Heads(P, n, j)
  BY <1>3 DEF Heads
<1>4. Heads(Q, id.epoch, Head(id.to)) = Heads(P, id.epoch, Head(id.to)) \cup {id.to}
  BY DEF Heads
<1>5. \A g \in Heads(Q, id.epoch, Head(id.to)) : IsPrefix(g, id.to)
  <2> SUFFICES ASSUME NEW g \in Heads(Q, id.epoch, Head(id.to)) PROVE IsPrefix(g, id.to)
    OBVIOUS
  <2>1. CASE g = id.to
    BY <1>2, <2>1, PrefixReflexive
  <2>2. CASE g \in Heads(P, id.epoch, Head(id.to))
    <3>1. IsPrefix(g, id.from) /\ g \in Seq(Events)
      BY <1>2, <2>2, LongestIsEnd, HeadsTyped
    <3> QED BY <1>2, <3>1, PrefixTransitive
  <2> QED BY <1>4, <2>1, <2>2
<1>6. OneChain(Q)
  <2> SUFFICES ASSUME NEW n \in 1 .. MaxEpoch, NEW j \in Identities
               PROVE  \E h \in Heads(Q, n, j) : \A g \in Heads(Q, n, j) : IsPrefix(g, h)
    BY DEF OneChain
  <2>1. CASE n = id.epoch /\ j = Head(id.to)
    BY <1>4, <1>5, <2>1
  <2>2. CASE ~(n = id.epoch /\ j = Head(id.to))
    BY <1>3, <2>2 DEF OneChain
  <2> QED BY <2>1, <2>2
<1>7. ASSUME NEW n \in 1 .. MaxEpoch, NEW j \in Identities
      PROVE  Longest(Q, n, j) = IF n = id.epoch /\ j = Head(id.to) THEN id.to ELSE Longest(P, n, j)
  <2>1. CASE n = id.epoch /\ j = Head(id.to)
    <3>1. IsPrefix(id.to, Longest(Q, n, j)) /\ IsPrefix(Longest(Q, n, j), id.to)
          /\ Longest(Q, n, j) \in Seq(Events)
      BY <1>1, <1>4, <1>5, <1>6, <2>1, LongestIsEnd, HeadsTyped
    <3>2. Len(id.to) \in Nat /\ Len(Longest(Q, n, j)) \in Nat
      BY <1>2, <3>1
    <3>3. Len(id.to) = Len(Longest(Q, n, j))
      BY <1>2, <3>1, <3>2, PrefixLonger
    <3> QED BY <1>2, <2>1, <3>1, <3>3, PrefixLonger
  <2>2. CASE ~(n = id.epoch /\ j = Head(id.to))
    <3>1. Heads(Q, n, j) = Heads(P, n, j)
      BY <1>3, <2>2
    <3>2. /\ IsPrefix(Longest(P, n, j), Longest(Q, n, j)) /\ IsPrefix(Longest(Q, n, j), Longest(P, n, j))
          /\ Longest(P, n, j) \in Seq(Events) /\ Longest(Q, n, j) \in Seq(Events)
      BY <1>1, <1>6, <3>1, LongestIsEnd, HeadsTyped
    <3>3. Len(Longest(P, n, j)) \in Nat /\ Len(Longest(Q, n, j)) \in Nat
      BY <3>2
    <3>4. Len(Longest(P, n, j)) = Len(Longest(Q, n, j))
      BY <3>2, <3>3, PrefixLonger
    <3> QED BY <2>2, <3>2, <3>4, PrefixLonger
  <2> QED BY <2>1, <2>2
<1> QED BY <1>6, <1>7

Chained(Q) == Q \in [Enrollments -> SUBSET PageId] /\ \A e \in Enrollments : OneChain(Q[e])
\* R is Q with one page more, which the Portal accepts.
OneMore(Q, R, e, id) ==
  /\ R = [Q EXCEPT ![e] = @ \cup {id}]
  /\ id.from = HeldFor(Q, e, id)

LEMMA HeldTyped ==
  ASSUME SyncAssumption, Histories # {}, NEW Q, Chained(Q), NEW e \in Enrollments,
         NEW n \in 1 .. MaxEpoch, NEW j \in Identities
  PROVE  /\ Held(Q, e, n, j) \in Histories /\ Held(Q, e, n, j) \in Seq(Events)
         /\ \A g \in Q[e] : g.epoch = n /\ Head(g.to) = j => IsPrefix(g.to, Held(Q, e, n, j))
         /\ Held(Q, e, n, j) # <<>> =>
              \E g \in Q[e] : g.epoch = n /\ Head(g.to) = j /\ Held(Q, e, n, j) = g.to
<1>1. Q[e] \in SUBSET PageId /\ OneChain(Q[e])
  BY DEF Chained
<1>2. /\ Held(Q, e, n, j) \in Heads(Q[e], n, j) /\ Held(Q, e, n, j) \in Histories
      /\ \A g \in Heads(Q[e], n, j) : IsPrefix(g, Held(Q, e, n, j))
  BY <1>1, LongestIsEnd DEF Held
<1>3. Held(Q, e, n, j) \in Seq(Events)
  BY <1>2, HistoriesClosed
<1>4. \A g \in Q[e] : g.epoch = n /\ Head(g.to) = j => g.to \in Heads(Q[e], n, j)
  BY DEF Heads
<1>5. Held(Q, e, n, j) # <<>> =>
        \E g \in Q[e] : g.epoch = n /\ Head(g.to) = j /\ Held(Q, e, n, j) = g.to
  BY <1>2 DEF Heads
<1> QED BY <1>2, <1>3, <1>4, <1>5

LEMMA HeldGrows ==
  ASSUME SyncAssumption, Histories # {}, NEW Q, Chained(Q), NEW e \in Enrollments,
         NEW id \in PageId, NEW R, OneMore(Q, R, e, id)
  PROVE  /\ Chained(R)
         /\ \A f \in Enrollments : R[f] = IF f = e THEN Q[f] \cup {id} ELSE Q[f]
         /\ \A f \in Enrollments, n \in 1 .. MaxEpoch, j \in Identities :
              /\ Held(R, f, n, j) = IF f = e /\ n = id.epoch /\ j = Head(id.to)
                                    THEN id.to ELSE Held(Q, f, n, j)
              /\ IsPrefix(Held(Q, f, n, j), Held(R, f, n, j))
<1>1. /\ Q \in [Enrollments -> SUBSET PageId] /\ R = [Q EXCEPT ![e] = @ \cup {id}]
      /\ id.from = Longest(Q[e], id.epoch, Head(id.to)) /\ OneChain(Q[e]) /\ Q[e] \in SUBSET PageId
  BY DEF Chained, OneMore, HeldFor, Held
<1>2. \A f \in Enrollments : R[f] = IF f = e THEN Q[f] \cup {id} ELSE Q[f]
  BY <1>1
<1>3. R \in [Enrollments -> SUBSET PageId]
  BY <1>1
<1>4. /\ OneChain(Q[e] \cup {id})
      /\ \A n \in 1 .. MaxEpoch, j \in Identities :
           Longest(Q[e] \cup {id}, n, j) =
             IF n = id.epoch /\ j = Head(id.to) THEN id.to ELSE Longest(Q[e], n, j)
  BY <1>1, ChainGrows
<1>5. Chained(R)
  BY <1>2, <1>3, <1>4 DEF Chained
<1>6. ASSUME NEW f \in Enrollments, NEW n \in 1 .. MaxEpoch, NEW j \in Identities
      PROVE  /\ Held(R, f, n, j) = IF f = e /\ n = id.epoch /\ j = Head(id.to)
                                   THEN id.to ELSE Held(Q, f, n, j)
             /\ IsPrefix(Held(Q, f, n, j), Held(R, f, n, j))
  <2>1. Held(Q, f, n, j) \in Seq(Events)
    BY HeldTyped
  <2>2. CASE f = e /\ n = id.epoch /\ j = Head(id.to)
    <3>1. Held(R, f, n, j) = id.to /\ Held(Q, f, n, j) = id.from
      BY <1>1, <1>2, <1>4, <2>2 DEF Held
    <3> QED BY <2>2, <3>1, PageFacts
  <2>3. CASE f = e /\ ~(n = id.epoch /\ j = Head(id.to))
    <3>1. Held(R, f, n, j) = Held(Q, f, n, j)
      BY <1>2, <1>4, <2>3 DEF Held
    <3> QED BY <2>1, <2>3, <3>1, PrefixReflexive
  <2>4. CASE f # e
    <3>1. Held(R, f, n, j) = Held(Q, f, n, j)
      BY <1>2, <2>4 DEF Held
    <3> QED BY <2>1, <2>4, <3>1, PrefixReflexive
  <2> QED BY <2>2, <2>3, <2>4
<1> QED BY <1>2, <1>5, <1>6

\* What a page, a cursor or a call relies on stays so when the Portal stores more.
LEMMA PageStays ==
  ASSUME SyncAssumption, Histories # {}, NEW Q, Chained(Q), NEW e \in Enrollments,
         NEW id \in PageId, NEW R, OneMore(Q, R, e, id),
         NEW f \in Enrollments, NEW g \in PageId, NEW h \in Seq(Events),
         IsPrefix(h, HeldFor(Q, f, g))
  PROVE  IsPrefix(h, HeldFor(R, f, g))
<1>1. g.epoch \in 1 .. MaxEpoch /\ Head(g.to) \in Identities
  BY PageFacts
<1>2. Chained(R) /\ IsPrefix(HeldFor(Q, f, g), HeldFor(R, f, g))
  BY <1>1, HeldGrows DEF HeldFor
<1>3. HeldFor(Q, f, g) \in Seq(Events) /\ HeldFor(R, f, g) \in Seq(Events)
  BY <1>1, <1>2, HeldTyped DEF HeldFor
<1> QED BY <1>2, <1>3, PrefixTransitive

LEMMA NeverStays ==
  ASSUME SyncAssumption, Histories # {}, NEW Q, Chained(Q), NEW e \in Enrollments,
         NEW id \in PageId, NEW R, OneMore(Q, R, e, id),
         NEW f \in Enrollments, NEW g \in PageId,
         IsPrefix(g.from, HeldFor(Q, f, g)), Never(Q, f, g)
  PROVE  Never(R, f, g)
<1>1. g.epoch \in 1 .. MaxEpoch /\ Head(g.to) \in Identities /\ g.from \in Seq(Events)
  BY PageFacts
<1>2. Chained(R) /\ IsPrefix(HeldFor(Q, f, g), HeldFor(R, f, g))
  BY <1>1, HeldGrows DEF HeldFor
<1>3. HeldFor(Q, f, g) \in Seq(Events) /\ HeldFor(R, f, g) \in Seq(Events)
  BY <1>1, <1>2, HeldTyped DEF HeldFor
<1>4. Len(g.from) \in Nat /\ Len(HeldFor(Q, f, g)) \in Nat /\ Len(HeldFor(R, f, g)) \in Nat
  BY <1>1, <1>3
<1>5. g.from # HeldFor(Q, f, g) /\ g \notin Q[f]
  BY DEF Never
<1>6. Len(g.from) <= Len(HeldFor(Q, f, g)) /\ Len(g.from) # Len(HeldFor(Q, f, g))
  BY <1>1, <1>3, <1>5, PrefixLonger
<1>7. Len(HeldFor(Q, f, g)) <= Len(HeldFor(R, f, g))
  BY <1>2, <1>3, PrefixLonger
<1>8. g.from # HeldFor(R, f, g)
  BY <1>4, <1>6, <1>7
<1>9. g \notin R[f]
  <2>1. R[f] = IF f = e THEN Q[f] \cup {id} ELSE Q[f]
    BY HeldGrows
  <2>2. f = e => g # id
    BY <1>5 DEF OneMore
  <2> QED BY <1>5, <2>1, <2>2
<1> QED BY <1>8, <1>9 DEF Never

LEMMA CursorFields ==
  ASSUME SyncAssumption, NEW c \in Cursor
  PROVE  /\ c # None /\ c.enr \in Enrollments /\ c.journal \in Identities \cup {None}
         /\ c.epoch \in 1 .. MaxEpoch /\ c.head \in Histories /\ c.head \in Seq(Events)
         /\ c.pending \in Page \cup {None} /\ (c.pending # None => c.pending.id \in PageId)
         /\ c = [enr |-> c.enr, journal |-> c.journal, epoch |-> c.epoch, head |-> c.head,
                 status |-> c.status, pending |-> c.pending]
<1>1. c # None
  BY DEF SyncAssumption
<1>2. c.head \in Histories
  BY DEF Cursor
<1>3. c.head \in Seq(Events)
  BY <1>2, HistoriesClosed
<1> QED BY <1>1, <1>2, <1>3 DEF Cursor, Page

LEMMA CursorStays ==
  ASSUME SyncAssumption, Histories # {}, NEW Q, Chained(Q), NEW e \in Enrollments,
         NEW id \in PageId, NEW R, OneMore(Q, R, e, id),
         NEW c \in Cursor \cup {None}, CursorSound(c, Q)
  PROVE  /\ CursorSound(c, R)
         /\ StatusSound(c, Q) => StatusSound(c, R)
<1> SUFFICES ASSUME c # None
             PROVE  CursorSound(c, R) /\ (StatusSound(c, Q) => StatusSound(c, R))
  BY DEF CursorSound, StatusSound
<1>1. /\ c.enr \in Enrollments /\ c.journal \in Identities \cup {None}
      /\ c.epoch \in 1 .. MaxEpoch /\ c.head \in Seq(Events)
      /\ c.pending # None => c.pending.id \in PageId
  BY CursorFields
<1>2. ASSUME c.journal # None
      PROVE  IsPrefix(c.head, Held(R, c.enr, c.epoch, c.journal))
  <2>1. c.journal \in Identities /\ IsPrefix(c.head, Held(Q, c.enr, c.epoch, c.journal))
    BY <1>1, <1>2 DEF CursorSound
  <2>2. Chained(R) /\ IsPrefix(Held(Q, c.enr, c.epoch, c.journal), Held(R, c.enr, c.epoch, c.journal))
    BY <1>1, <2>1, HeldGrows
  <2>3. Held(Q, c.enr, c.epoch, c.journal) \in Seq(Events) /\ Held(R, c.enr, c.epoch, c.journal) \in Seq(Events)
    BY <1>1, <2>1, <2>2, HeldTyped
  <2> QED BY <1>1, <2>1, <2>2, <2>3, PrefixTransitive
<1>3. CursorSound(c, R)
  BY <1>2 DEF CursorSound
<1>4. ASSUME StatusSound(c, Q), Calm, c.status \in Terminal, c.pending # None
      PROVE  Never(R, c.enr, c.pending.id)
  <2>1. Never(Q, c.enr, c.pending.id)
    BY <1>4 DEF StatusSound
  <2>2. IsPrefix(c.pending.id.from, HeldFor(Q, c.enr, c.pending.id))
    <3>1. /\ c.pending.id.from = c.head /\ c.journal = Head(c.pending.id.to)
          /\ c.epoch = c.pending.id.epoch /\ c.journal # None
      BY <1>4 DEF CursorSound, OnStream
    <3> QED BY <3>1 DEF CursorSound, HeldFor
  <2> QED BY <1>1, <1>4, <2>1, <2>2, NeverStays
<1>5. StatusSound(c, Q) => StatusSound(c, R)
  BY <1>4 DEF StatusSound
<1> QED BY <1>3, <1>5

LEMMA CallStays ==
  ASSUME SyncAssumption, Histories # {}, NEW Q, Chained(Q), NEW e \in Enrollments,
         NEW id \in PageId, NEW R, OneMore(Q, R, e, id),
         NEW r \in ProcType, CallSound(r, Q)
  PROVE  CallSound(r, R)
<1>1. /\ r.cfg \in Enrollments \cup {None} /\ r.st \in Cursor \cup {None}
      /\ r.page \in Page \cup {None} /\ r.seen \in Histories /\ r.ans \in Answer \cup {None}
  BY DEF ProcType
<1>2. CursorSound(r.st, R)
  BY <1>1, CursorStays DEF CallSound
<1>3. r.seen \in Seq(Events)
  BY <1>1, HistoriesClosed
<1>4. ASSUME r.pc \in {"sending", "posted"} \/ Judged(r)
      PROVE  /\ r.cfg \in Enrollments /\ r.page # None /\ r.page.id \in PageId /\ r.page.id.from \in Seq(Events)
             /\ IsPrefix(r.page.id.from, HeldFor(Q, r.cfg, r.page.id))
             /\ IsPrefix(r.page.id.from, HeldFor(R, r.cfg, r.page.id))
  <2>1. r.pc # "idle"
    BY <1>4 DEF Judged
  <2>2. r.cfg \in Enrollments /\ r.page \in Page /\ IsPrefix(r.page.id.from, HeldFor(Q, r.cfg, r.page.id))
    BY <1>1, <1>4, <2>1 DEF CallSound
  <2>3. r.page.id \in PageId /\ r.page # None
    BY <1>4, <2>2 DEF Page, CallSound
  <2>4. r.page.id.from \in Seq(Events)
    BY <2>3, PageFacts
  <2> QED BY <2>2, <2>3, <2>4, PageStays
<1>5. ASSUME Judged(r)
      PROVE  /\ r.ans.is = "ack" => r.page.id \in R[r.cfg]
             /\ r.ans.is = "mismatch" => Never(R, r.cfg, r.page.id)
             /\ r.ans.is \in {"ack", "mismatch"} => IsPrefix(r.ans.at, HeldFor(R, r.cfg, r.page.id))
  <2>1. r.ans \in Answer
    BY <1>1, <1>5 DEF CallSound
  <2>2. r.ans.at \in Seq(Events)
    BY <2>1, HistoriesClosed DEF Answer
  <2>3. r.ans.is = "ack" => r.page.id \in R[r.cfg]
    <3>1. R[r.cfg] = IF r.cfg = e THEN Q[r.cfg] \cup {id} ELSE Q[r.cfg]
      <4>1. r.cfg \in Enrollments
        BY <1>4, <1>5
      <4>2. \A f \in Enrollments : R[f] = IF f = e THEN Q[f] \cup {id} ELSE Q[f]
        BY HeldGrows
      <4> QED BY <4>1, <4>2
    <3> QED BY <1>5, <3>1 DEF CallSound
  <2>4. r.ans.is = "mismatch" => Never(R, r.cfg, r.page.id)
    BY <1>4, <1>5, NeverStays DEF CallSound
  <2>5. r.ans.is \in {"ack", "mismatch"} => IsPrefix(r.ans.at, HeldFor(R, r.cfg, r.page.id))
    BY <1>4, <1>5, <2>2, PageStays DEF CallSound
  <2> QED BY <2>3, <2>4, <2>5
<1>6. ASSUME r.pc = "adopting" PROVE IsPrefix(r.seen, HeldFor(R, r.cfg, r.page.id))
  BY <1>3, <1>4, <1>6, PageStays DEF CallSound, Judged
<1> QED BY <1>2, <1>4, <1>5, <1>6 DEF CallSound

-----------------------------------------------------------------------------
(* What every step preserves                                               *)

StreamOf(c) == IF c = None THEN None
               ELSE [enr |-> c.enr, journal |-> c.journal, epoch |-> c.epoch]
AckedOf(c) == IF c = None THEN <<>> ELSE c.head
\* From one cursor file to the next: the same position, a later one that the
\* Portal holds, or the start of another stream.
Moves(c, d, Q) ==
  \/ StreamOf(d) = StreamOf(c) /\ AckedOf(d) = AckedOf(c)
  \/ /\ c # None /\ StreamOf(d) = StreamOf(c) /\ IsPrefix(AckedOf(c), AckedOf(d))
     /\ c.journal # None /\ IsPrefix(AckedOf(d), Held(Q, c.enr, c.epoch, c.journal))
  \/ StreamOf(d) \in Streams \ {StreamOf(c)} /\ AckedOf(d) = <<>>

StepSound ==
  /\ SyncInv' /\ UpToDateIsTrue /\ TerminalStays
  /\ \/ portal' = portal /\ Moves(cursor, cursor', portal)
     \/ /\ cursor' = cursor
        /\ \E e \in Enrollments, id \in PageId : OneMore(portal, portal', e, id)

\* The cursor c that p writes, and the state r it goes to, leave a terminal status.
Stays(p, r, c) ==
  cursor # None /\ cursor.status \in Terminal =>
    \/ c.status = cursor.status \/ c.enr # cursor.enr
    \/ proc[p].pc = "resync" /\ r.pc = "idle"
    \/ ~Calm /\ proc[p].ans # None /\ PageBound(p) /\ r # proc[p]

LEMMA Basics ==
  ASSUME SyncAssumption, SyncInv, NEW p \in Procs
  PROVE  /\ Histories # {} /\ <<>> \in Histories /\ Chained(portal)
         /\ proc[p] \in ProcType /\ CallSound(proc[p], portal)
         /\ proc[p].pc \in Pcs /\ proc[p].cfg \in Enrollments \cup {None}
         /\ proc[p].st \in Cursor \cup {None} /\ proc[p].page \in Page \cup {None}
         /\ proc[p].seen \in Histories /\ proc[p].ans \in Answer \cup {None}
         /\ Idle \in ProcType /\ CallSound(Idle, portal)
<1>1. Histories # {} /\ proc[p] \in ProcType /\ Chained(portal)
  BY DEF SyncInv, TypeInv, Chained
<1>2. <<>> \in Histories
  BY <1>1, EmptyHistory
<1>3. Idle \in ProcType
  BY <1>2 DEF Idle, ProcType, Pcs
<1>4. CallSound(Idle, portal)
  <2>1. Idle.pc = "idle" /\ Idle.st = None
    BY DEF Idle
  <2> QED BY <2>1 DEF CallSound, CursorSound, Judged
<1> QED BY <1>1, <1>2, <1>3, <1>4 DEF ProcType, SyncInv

\* A step of one call.
LEMMA CallStep ==
  ASSUME SyncAssumption, SyncInv, NEW p \in Procs, NEW r \in ProcType, NEW c \in Cursor \cup {None},
         proc' = [proc EXCEPT ![p] = r], cursor' = c, portal' = portal, config' = config,
         journal' = journal, net' \subseteq Network,
         CursorSound(c, portal), StatusSound(c, portal), CallSound(r, portal),
         Moves(cursor, c, portal), Stays(p, r, c),
         proc[p].pc = "read" /\ r.pc = "up-to-date" =>
           /\ config = proc[p].cfg
           /\ proc[p].seen = <<>> \/
                IsPrefix(proc[p].seen, HeadAt(config, [epoch |-> cursor.epoch, to |-> proc[p].seen]))
  PROVE  StepSound
<1>1. proc \in [Procs -> ProcType]
  BY DEF SyncInv, TypeInv
<1>2. proc'[p] = r /\ \A q \in Procs : q # p => proc'[q] = proc[q]
  BY <1>1
<1>3. TypeInv'
  BY <1>1 DEF SyncInv, TypeInv
<1>4. \A q \in Procs : CallSound(proc'[q], portal)
  BY <1>2 DEF SyncInv
<1>5. SyncInv'
  BY <1>3, <1>4 DEF SyncInv
<1>6. UpToDateIsTrue
  <2> SUFFICES ASSUME NEW q \in Procs, At(q, "read"), At(q, "up-to-date")'
               PROVE  /\ config' = proc[q].cfg
                      /\ proc[q].seen = <<>> \/
                          IsPrefix(proc[q].seen, HeadAt(config, [epoch |-> cursor.epoch, to |-> proc[q].seen]))
    BY DEF UpToDateIsTrue
  <2>1. proc[q].pc = "read" /\ proc'[q].pc = "up-to-date"
    BY DEF At
  <2>2. q = p
    BY <1>2, <2>1
  <2> QED BY <1>2, <2>1, <2>2
<1>7. TerminalStays
  <2> SUFFICES ASSUME cursor # None, cursor.status \in Terminal,
                      cursor'.status # cursor.status, cursor'.enr = cursor.enr
               PROVE  \/ \E q \in Procs : At(q, "resync") /\ Free(q)'
                      \/ /\ {"refuse", "identity"} \cap Happens # {}
                         /\ \E q \in Procs : proc[q].ans # None /\ PageBound(q) /\ proc'[q] # proc[q]
    BY DEF TerminalStays
  <2>1. CASE proc[p].pc = "resync" /\ r.pc = "idle"
    BY <1>2, <2>1 DEF At, Free
  <2>2. CASE ~Calm /\ proc[p].ans # None /\ PageBound(p) /\ r # proc[p]
    BY <1>2, <2>2 DEF Calm
  <2> QED BY <2>1, <2>2 DEF Stays
<1> QED BY <1>5, <1>6, <1>7 DEF StepSound

\* A step of one call that leaves the cursor file and what the Portal holds.
LEMMA QuietStep ==
  ASSUME SyncAssumption, SyncInv, NEW p \in Procs, NEW r \in ProcType,
         proc' = [proc EXCEPT ![p] = r], cursor' = cursor, portal' = portal, config' = config,
         journal' = journal, net' \subseteq Network, CallSound(r, portal),
         proc[p].pc = "read" => r.pc # "up-to-date"
  PROVE  StepSound
<1>1. PICK c \in Cursor \cup {None} : c = cursor
  BY DEF SyncInv, TypeInv
<1>2. CursorSound(c, portal) /\ StatusSound(c, portal)
  BY <1>1 DEF SyncInv
<1>3. Moves(cursor, c, portal) /\ Stays(p, r, c) /\ cursor' = c
  BY <1>1 DEF Moves, Stays
<1> QED BY <1>2, <1>3, CallStep

LEMMA CallEnds ==
  ASSUME SyncAssumption, SyncInv, NEW p \in Procs, End(p), cursor' = cursor, portal' = portal,
         config' = config, journal' = journal, net' \subseteq Network
  PROVE  StepSound
BY Basics, QuietStep DEF End, Idle

\* The file with another status is where it was.
LEMMA StatusSet ==
  ASSUME SyncAssumption, SyncInv, cursor # None,
         NEW s \in Terminal \cup {"active", "server-incompatible"}
  PROVE  /\ SetStatus(s) \in Cursor /\ SetStatus(s).status = s /\ SetStatus(s).enr = cursor.enr
         /\ SetStatus(s).pending = cursor.pending
         /\ CursorSound(SetStatus(s), portal) /\ Moves(cursor, SetStatus(s), portal)
<1>1. cursor \in Cursor
  BY DEF SyncInv, TypeInv
<1>2. PICK c \in Cursor : c = SetStatus(s)
  BY <1>1 DEF Cursor, SetStatus
<1>3. /\ c # None /\ c.status = s /\ c.enr = cursor.enr /\ c.journal = cursor.journal
      /\ c.epoch = cursor.epoch /\ c.head = cursor.head /\ c.pending = cursor.pending
  BY <1>1, <1>2, CursorFields DEF Cursor, SetStatus
<1>4. CursorSound(c, portal)
  BY <1>3 DEF SyncInv, CursorSound, OnStream
<1>5. Moves(cursor, c, portal)
  BY <1>3 DEF Moves, StreamOf, AckedOf
<1> QED BY <1>2, <1>3, <1>4, <1>5

\* A step that ends the call and sets only the status of the file.
LEMMA StatusOnly ==
  ASSUME SyncAssumption, SyncInv, NEW p \in Procs, End(p), cursor # None,
         NEW s \in Terminal \cup {"active", "server-incompatible"}, cursor' = SetStatus(s),
         portal' = portal, config' = config, journal' = journal, net' \subseteq Network,
         \/ cursor.status \notin Terminal
         \/ s = cursor.status
         \/ ~Calm /\ proc[p].ans # None /\ PageBound(p) /\ proc[p] # Idle,
         Calm => s # "identity-conflict",
         Calm /\ s \in Terminal /\ cursor.pending # None => Never(portal, cursor.enr, cursor.pending.id)
  PROVE  StepSound
<1>1. PICK c \in Cursor : c = SetStatus(s)
  BY StatusSet
<1>2. /\ c.status = s /\ c.enr = cursor.enr /\ c.pending = cursor.pending
      /\ CursorSound(c, portal) /\ Moves(cursor, c, portal)
  BY <1>1, StatusSet
<1>3. StatusSound(c, portal)
  BY <1>2 DEF StatusSound
<1>4. Stays(p, Idle, c)
  BY <1>2 DEF Stays
<1>5. Idle.pc # "up-to-date"
  BY DEF Idle
<1> QED BY <1>1, <1>2, <1>3, <1>4, <1>5, Basics, CallStep DEF End

LEMMA BeginSound ==
  ASSUME SyncAssumption, SyncInv, NEW p \in Procs, Begin(p) \/ BeginResync(p)
  PROVE  StepSound
<1>1. config \in Enrollments /\ journal \in Histories /\ net \subseteq Network
  BY DEF SyncInv, TypeInv, Begin, BeginResync
<1>2. CASE Begin(p)
  <2>1. PICK r \in ProcType : r = [Idle EXCEPT !.pc = "binding", !.cfg = config]
    BY <1>1, Basics DEF ProcType, Pcs
  <2>2. r.pc = "binding" /\ r.cfg = config /\ r.st = None
    BY <2>1 DEF Idle
  <2>3. CallSound(r, portal)
    BY <1>1, <2>2 DEF CallSound, CursorSound, Judged, SyncAssumption
  <2> QED BY <1>1, <1>2, <2>1, <2>2, <2>3, QuietStep DEF Begin, world
<1>3. CASE BeginResync(p)
  <2>1. PICK r \in ProcType : r = [Idle EXCEPT !.pc = "resync", !.cfg = config, !.seen = journal]
    BY <1>1, Basics DEF ProcType, Pcs
  <2>2. r.pc = "resync" /\ r.cfg = config /\ r.st = None
    BY <2>1 DEF Idle
  <2>3. CallSound(r, portal)
    BY <1>1, <2>2 DEF CallSound, CursorSound, Judged, SyncAssumption
  <2> QED BY <1>1, <1>3, <2>1, <2>2, <2>3, QuietStep DEF BeginResync
<1> QED BY <1>2, <1>3

\* A fresh cursor of another stream.
LEMMA FreshSound ==
  ASSUME SyncAssumption, NEW e \in Enrollments, NEW j \in Identities \cup {None}, NEW n \in 1 .. MaxEpoch,
         <<>> \in Histories, Chained(portal)
  PROVE  /\ Fresh(e, j, n) \in Cursor
         /\ CursorSound(Fresh(e, j, n), portal) /\ StatusSound(Fresh(e, j, n), portal)
         /\ StreamOf(Fresh(e, j, n)) = [enr |-> e, journal |-> j, epoch |-> n]
         /\ StreamOf(Fresh(e, j, n)) \in Streams /\ AckedOf(Fresh(e, j, n)) = <<>>
<1>1. PICK c \in Cursor : c = Fresh(e, j, n)
  BY DEF Fresh, Cursor
<1>2. /\ c # None /\ c.enr = e /\ c.journal = j /\ c.epoch = n /\ c.head = <<>>
      /\ c.status = "active" /\ c.pending = None
  BY <1>1, CursorFields DEF Fresh
<1>3. c.journal # None => IsPrefix(c.head, Held(portal, c.enr, c.epoch, c.journal))
  <2> SUFFICES ASSUME j # None PROVE IsPrefix(<<>>, Held(portal, e, n, j))
    BY <1>2
  <2>1. Held(portal, e, n, j) \in Seq(Events)
    BY HeldTyped
  <2> QED BY <2>1, EmptyIsPrefix
<1>4. CursorSound(c, portal) /\ StatusSound(c, portal)
  BY <1>2, <1>3 DEF CursorSound, StatusSound, Terminal
<1>5. StreamOf(c) = [enr |-> e, journal |-> j, epoch |-> n] /\ AckedOf(c) = <<>>
  BY <1>2 DEF StreamOf, AckedOf
<1>6. StreamOf(c) \in Streams
  BY <1>5 DEF Streams
<1> QED BY <1>1, <1>4, <1>5, <1>6

LEMMA BindSound ==
  ASSUME SyncAssumption, SyncInv, NEW p \in Procs, Bind(p)
  PROVE  StepSound
<1> DEFINE c == BoundCursor(p)
<1>1. /\ cursor \in Cursor \cup {None} /\ net \subseteq Network /\ proc[p].pc = "binding"
      /\ cursor' = c /\ config' = config /\ journal' = journal /\ portal' = portal /\ net' = net
  BY DEF SyncInv, TypeInv, Bind, At, world
<1>2. proc[p].cfg \in Enrollments
  BY <1>1, Basics DEF CallSound
<1>3. 1 \in 1 .. MaxEpoch
  BY DEF SyncAssumption
<1>4. /\ c \in Cursor \cup {None} /\ CursorSound(c, portal) /\ StatusSound(c, portal)
      /\ Moves(cursor, c, portal)
      /\ c = cursor \/ (c # None /\ (cursor = None \/ c.enr # cursor.enr))
  <2>1. CASE c = cursor
    BY <1>1, <2>1 DEF SyncInv, Moves
  <2>2. CASE c # cursor
    <3>1. c = Fresh(config, None, 1) /\ config = proc[p].cfg /\ (cursor = None \/ cursor.enr # config)
      BY <2>2 DEF BoundCursor
    <3> HIDE DEF c
    <3>2. /\ c \in Cursor /\ CursorSound(c, portal) /\ StatusSound(c, portal) /\ AckedOf(c) = <<>>
          /\ StreamOf(c) = [enr |-> config, journal |-> None, epoch |-> 1] /\ StreamOf(c) \in Streams
      BY <1>2, <1>3, <3>1, Basics, FreshSound
    <3>3. c # None /\ c.enr = config
      BY <3>1, <3>2, CursorFields DEF Fresh
    <3>4. StreamOf(cursor) # StreamOf(c)
      <4>1. CASE cursor = None
        BY <3>2, <4>1 DEF StreamOf, SyncAssumption
      <4>2. CASE cursor # None /\ cursor.enr # config
        BY <3>2, <4>2 DEF StreamOf
      <4> QED BY <3>1, <4>1, <4>2
    <3> QED BY <3>1, <3>2, <3>3, <3>4 DEF Moves
  <2> QED BY <2>1, <2>2
<1>5. ASSUME NEW r \in ProcType, CallSound(r, portal), proc' = [proc EXCEPT ![p] = r]
      PROVE  StepSound
  <2>1. PICK d \in Cursor \cup {None} : d = c
    BY <1>4
  <2> HIDE DEF c
  <2>2. Stays(p, r, d)
    BY <1>4, <2>1 DEF Stays
  <2> QED BY <1>1, <1>4, <1>5, <2>1, <2>2, CallStep
<1>6. CASE End(p)
  BY <1>5, <1>6, Basics DEF End
<1>7. CASE /\ c # None
           /\ proc' = [proc EXCEPT ![p] = [@ EXCEPT !.pc = "probing", !.st = cursor']]
  <2>1. PICK d \in Cursor : d = c
    BY <1>4, <1>7
  <2> HIDE DEF c
  <2>2. proc' = [proc EXCEPT ![p] = [proc[p] EXCEPT !.pc = "probing", !.st = d]]
    BY <1>1, <1>7, <2>1
  <2>3. PICK r \in ProcType : r = [proc[p] EXCEPT !.pc = "probing", !.st = d]
    BY <2>1, Basics DEF ProcType, Pcs
  <2>4. r.pc = "probing" /\ r.cfg = proc[p].cfg /\ r.st = d
    BY <2>3, Basics DEF ProcType
  <2>5. CallSound(r, portal)
    BY <1>2, <1>4, <2>1, <2>4, CursorFields DEF CallSound, Judged, SyncAssumption
  <2> QED BY <1>5, <2>2, <2>3, <2>5
<1> QED BY <1>1, <1>6, <1>7 DEF Bind

LEMMA ProbeSound ==
  ASSUME SyncAssumption, SyncInv, NEW p \in Procs, Probe(p)
  PROVE  StepSound
<1>1. /\ cursor \in Cursor \cup {None} /\ net \subseteq Network /\ proc[p].pc = "probing"
      /\ config' = config /\ journal' = journal /\ portal' = portal /\ net' = net
      /\ CursorSound(cursor, portal) /\ StatusSound(cursor, portal)
  BY DEF SyncInv, TypeInv, Probe, At, world
<1>2. proc[p].cfg \in Enrollments /\ CursorSound(proc[p].st, portal)
  BY <1>1, Basics DEF CallSound
<1>3. ASSUME NEW c \in Cursor \cup {None}, cursor' = c, CursorSound(c, portal), StatusSound(c, portal),
             Moves(cursor, c, portal), c # cursor => cursor.status \notin Terminal,
             proc' = [proc EXCEPT ![p].pc = "round",
                                  ![p].st = IF proc[p].st.status = "server-incompatible" THEN cursor' ELSE @]
      PROVE  StepSound
  <2>1. PICK d \in Cursor \cup {None} :
          d = IF proc[p].st.status = "server-incompatible" THEN c ELSE proc[p].st
    BY Basics
  <2>2. CursorSound(d, portal)
    BY <1>2, <1>3, <2>1
  <2>3. proc' = [proc EXCEPT ![p] = [proc[p] EXCEPT !.pc = "round", !.st = d]]
    BY <1>3, <2>1 DEF SyncInv, TypeInv, ProcType
  <2>4. PICK r \in ProcType : r = [proc[p] EXCEPT !.pc = "round", !.st = d]
    BY <2>1, Basics DEF ProcType, Pcs
  <2>5. r.pc = "round" /\ r.cfg = proc[p].cfg /\ r.st = d
    BY <2>4, Basics DEF ProcType
  <2>6. CallSound(r, portal)
    BY <1>2, <2>2, <2>5 DEF CallSound, Judged, SyncAssumption
  <2>7. Stays(p, r, c)
    BY <1>3 DEF Stays
  <2>8. proc' = [proc EXCEPT ![p] = r]
    BY <2>3, <2>4
  <2> QED BY <1>1, <1>3, <2>5, <2>6, <2>7, <2>8, CallStep
<1>4. CASE /\ proc[p].st.status = "server-incompatible" /\ Bound(p) /\ cursor.status = "server-incompatible"
           /\ cursor' = SetStatus("active")
           /\ proc' = [proc EXCEPT ![p].pc = "round",
                                  ![p].st = IF proc[p].st.status = "server-incompatible" THEN cursor' ELSE @]
  <2>1. cursor # None
    BY <1>4 DEF Bound
  <2>2. PICK c \in Cursor : c = SetStatus("active")
    BY <2>1, StatusSet
  <2>3. CursorSound(c, portal) /\ Moves(cursor, c, portal) /\ c.status = "active"
    BY <2>1, <2>2, StatusSet
  <2>4. StatusSound(c, portal)
    BY <2>3 DEF StatusSound, Terminal
  <2>5. cursor.status \notin Terminal /\ cursor' = c
    BY <1>4, <2>2 DEF Terminal
  <2> QED BY <1>3, <1>4, <2>3, <2>4, <2>5
<1>5. CASE /\ cursor' = cursor
           /\ proc' = [proc EXCEPT ![p].pc = "round",
                                  ![p].st = IF proc[p].st.status = "server-incompatible" THEN cursor' ELSE @]
  <2>1. PICK c \in Cursor \cup {None} : c = cursor
    BY <1>1
  <2>2. Moves(cursor, c, portal)
    BY <2>1 DEF Moves
  <2> QED BY <1>1, <1>3, <1>5, <2>1, <2>2
<1>6. CASE cursor' = cursor /\ End(p)
  BY <1>1, <1>6, CallEnds
<1>7. CASE Bound(p) /\ cursor.status \notin Terminal /\ cursor' = SetStatus("server-incompatible") /\ End(p)
  <2>1. "server-incompatible" \notin Terminal /\ cursor # None /\ "server-incompatible" # "identity-conflict"
    BY <1>7 DEF Terminal, Bound
  <2> QED BY <1>1, <1>7, <2>1, StatusOnly
<1> QED BY <1>4, <1>5, <1>6, <1>7 DEF Probe

LEMMA RoundSound ==
  ASSUME SyncAssumption, SyncInv, NEW p \in Procs, Round(p)
  PROVE  StepSound
<1> DEFINE st == proc[p].st
<1>1. /\ net \subseteq Network /\ proc[p].pc \in {"round", "next"} /\ cursor' = cursor
      /\ config' = config /\ journal' = journal /\ portal' = portal /\ net' = net
  BY DEF SyncInv, TypeInv, Round, At, world
<1>2. proc[p].cfg \in Enrollments /\ CursorSound(st, portal) /\ st \in Cursor \cup {None}
  BY <1>1, Basics DEF CallSound
<1>3. CASE End(p)
  BY <1>1, <1>3, CallEnds
<1>4. CASE /\ st # None /\ config = proc[p].cfg /\ st.enr = config /\ st.status \notin Terminal
           /\ proc' = [proc EXCEPT ![p].pc = IF st.pending = None THEN "reading" ELSE "sending",
                                  ![p].page = st.pending,
                                  ![p].st = IF st.pending = None THEN st ELSE None]
  <2>1. st \in Cursor /\ st.pending \in Page \cup {None}
    BY <1>2, <1>4, CursorFields
  <2>2. PICK r \in ProcType :
          r = [proc[p] EXCEPT !.pc = IF st.pending = None THEN "reading" ELSE "sending", !.page = st.pending,
                              !.st = IF st.pending = None THEN st ELSE None]
    <3>1. CASE st.pending = None
      BY <2>1, <3>1, Basics DEF ProcType, Pcs
    <3>2. CASE st.pending # None
      BY <2>1, <3>2, Basics DEF ProcType, Pcs
    <3> QED BY <3>1, <3>2
  <2>3. proc' = [proc EXCEPT ![p] = r]
    BY <1>4, <2>2 DEF SyncInv, TypeInv, ProcType
  <2>4. /\ r.pc = (IF st.pending = None THEN "reading" ELSE "sending") /\ r.page = st.pending
        /\ r.st = (IF st.pending = None THEN st ELSE None) /\ r.cfg = proc[p].cfg
    BY <2>2, Basics DEF ProcType
  <2>5. CallSound(r, portal)
    <3>1. CASE st.pending = None
      BY <1>2, <1>4, <2>4, <3>1 DEF CallSound, Judged, SyncAssumption
    <3>2. CASE st.pending # None
      <4>1. /\ r.page.id.from = st.head /\ st.journal = Head(r.page.id.to) /\ st.epoch = r.page.id.epoch
            /\ st.journal # None
        BY <1>2, <1>4, <2>4, <3>2 DEF CursorSound, OnStream
      <4>2. IsPrefix(st.head, Held(portal, st.enr, st.epoch, st.journal)) /\ st.enr = r.cfg
        BY <1>2, <1>4, <2>4, <4>1 DEF CursorSound
      <4>3. IsPrefix(r.page.id.from, HeldFor(portal, r.cfg, r.page.id))
        BY <4>1, <4>2 DEF HeldFor
      <4>4. r.pc = "sending" /\ r.st = None /\ r.page # None /\ r.cfg # None
        BY <1>2, <2>4, <3>2 DEF SyncAssumption
      <4> QED BY <4>3, <4>4 DEF CallSound, CursorSound, Judged
    <3> QED BY <3>1, <3>2
  <2>6. r.pc # "up-to-date"
    BY <2>4
  <2> QED BY <1>1, <2>3, <2>5, <2>6, QuietStep
<1> QED BY <1>3, <1>4 DEF Round

LEMMA ReadSound ==
  ASSUME SyncAssumption, SyncInv, NEW p \in Procs, Read(p)
  PROVE  StepSound
<1> DEFINE st == proc[p].st
<1>1. /\ net \subseteq Network /\ proc[p].pc = "reading" /\ cursor' = cursor /\ journal \in Histories
      /\ config' = config /\ journal' = journal /\ portal' = portal /\ net' = net
  BY DEF SyncInv, TypeInv, Read, At, world
<1>2. /\ proc[p].cfg # None /\ CursorSound(st, portal) /\ st # None
      /\ st.pending = None /\ st.status \notin Terminal
  BY <1>1, Basics DEF CallSound
<1>3. PICK r \in ProcType : r = [proc[p] EXCEPT !.pc = IF IsPrefix(st.head, journal) THEN "read" ELSE "diverged",
                                                !.seen = journal]
  <2>1. CASE IsPrefix(st.head, journal)
    BY <1>1, <2>1, Basics DEF ProcType, Pcs
  <2>2. CASE ~IsPrefix(st.head, journal)
    BY <1>1, <2>2, Basics DEF ProcType, Pcs
  <2> QED BY <2>1, <2>2
<1>4. proc' = [proc EXCEPT ![p] = r]
  BY <1>3 DEF SyncInv, TypeInv, ProcType, Read
<1>5. /\ r.pc = (IF IsPrefix(st.head, journal) THEN "read" ELSE "diverged")
      /\ r.st = st /\ r.cfg = proc[p].cfg /\ r.seen = journal
  BY <1>3, Basics DEF ProcType
<1>6. CallSound(r, portal)
  BY <1>2, <1>5 DEF CallSound, Judged
<1>7. proc[p].pc # "read"
  BY <1>1
<1> QED BY <1>1, <1>4, <1>6, <1>7, QuietStep

LEMMA StopSound ==
  ASSUME SyncAssumption, SyncInv, NEW p \in Procs, SourceUnavailable(p) \/ Stop(p)
  PROVE  StepSound
<1>1. /\ net \subseteq Network /\ cursor' = cursor /\ End(p)
      /\ config' = config /\ journal' = journal /\ portal' = portal /\ net' = net
  BY DEF SyncInv, TypeInv, SourceUnavailable, Stop, End, world
<1> QED BY <1>1, CallEnds

\* The call p takes an answer that says no position.
LEMMA Unanswered ==
  ASSUME SyncAssumption, SyncInv, NEW p \in Procs, At(p, "posted"),
         NEW is \in {"error", "incompatible", "conflict"}, Calm => is = "error",
         proc' = [proc EXCEPT ![p].pc = "answered", ![p].ans = [is |-> is, at |-> <<>>]],
         cursor' = cursor, portal' = portal, config' = config, journal' = journal, net' \subseteq Network
  PROVE  StepSound
<1>1. PICK a \in Answer : a = [is |-> is, at |-> <<>>]
  BY Basics DEF Answer
<1>2. PICK r \in ProcType : r = [proc[p] EXCEPT !.pc = "answered", !.ans = a]
  BY <1>1, Basics DEF ProcType, Pcs
<1>3. proc' = [proc EXCEPT ![p] = r]
  BY <1>1, <1>2 DEF SyncInv, TypeInv, ProcType
<1>4. /\ r.pc = "answered" /\ r.st = proc[p].st /\ r.cfg = proc[p].cfg /\ r.page = proc[p].page
      /\ r.ans = a /\ a # None /\ a.is = is /\ proc[p].pc = "posted"
  BY <1>1, <1>2, Basics DEF ProcType, At, SyncAssumption
<1>5. CallSound(r, portal)
  BY <1>4, Basics DEF CallSound, Judged
<1> QED BY <1>3, <1>4, <1>5, QuietStep

LEMMA TimeoutSound ==
  ASSUME SyncAssumption, SyncInv, NEW p \in Procs, Timeout(p)
  PROVE  StepSound
<1>1. net \subseteq Network
  BY DEF SyncInv, TypeInv
<1> QED BY <1>1, Unanswered DEF Timeout, world

LEMMA RefusesSound ==
  ASSUME SyncAssumption, SyncInv, NEW m \in net, Refuses(m)
  PROVE  StepSound
<1>1. m.from \in Procs /\ net' \subseteq Network
  BY DEF SyncInv, TypeInv, Network, Refuses
<1>2. PICK is \in {"error", "incompatible", "conflict"} :
        /\ (IF is = "conflict" THEN "identity" ELSE "refuse") \in Happens
        /\ proc' = [proc EXCEPT ![m.from].pc = "answered", ![m.from].ans = [is |-> is, at |-> <<>>]]
  BY DEF Refuses
<1>3. Calm => is = "error"
  BY <1>2 DEF Calm
<1> QED BY <1>1, <1>2, <1>3, Unanswered DEF Refuses, world

\* Cursors that look the same to CursorBound differ in who built the page at most.
LEMMA ViewFacts ==
  ASSUME SyncAssumption, NEW c \in Cursor, NEW d \in Cursor, View(c) = View(d)
  PROVE  /\ c.enr = d.enr /\ c.journal = d.journal /\ c.epoch = d.epoch /\ c.head = d.head
         /\ c.status = d.status /\ (d.pending = None => c.pending = None)
<1>1. /\ View(c).enr = c.enr /\ View(c).journal = c.journal /\ View(c).epoch = c.epoch
      /\ View(c).head = c.head /\ View(c).status = c.status /\ View(c).pending = IdOf(c.pending)
  BY DEF View, Cursor
<1>2. /\ View(d).enr = d.enr /\ View(d).journal = d.journal /\ View(d).epoch = d.epoch
      /\ View(d).head = d.head /\ View(d).status = d.status /\ View(d).pending = IdOf(d.pending)
  BY DEF View, Cursor
<1>3. d.pending = None => c.pending = None
  <2> SUFFICES ASSUME IdOf(c.pending) = None, c.pending # None PROVE FALSE
    BY <1>1, <1>2 DEF IdOf
  <2>1. c.pending.id \in PageId
    BY CursorFields
  <2> QED BY <2>1 DEF IdOf, SyncAssumption
<1> QED BY <1>1, <1>2, <1>3

\* What HeadAt computes from the pages is what is held of the stream.
LEMMA HeadAtHeld ==
  ASSUME NEW e, NEW id
  PROVE  HeadAt(e, id) = HeldFor(portal, e, id)
BY DEF HeadAt, Pages, HeldFor, Held, Longest, Heads

\* The journal a call has read, and the file when it is still the one it read.
LEMMA ReadFacts ==
  ASSUME SyncAssumption, SyncInv, NEW p \in Procs, proc[p].pc \in {"read", "diverged"}
  PROVE  /\ proc[p].cfg \in Enrollments /\ proc[p].st \in Cursor /\ proc[p].st.pending = None
         /\ proc[p].st.status \notin Terminal /\ CursorSound(proc[p].st, portal)
         /\ CursorBound(p) =>
              /\ cursor \in Cursor /\ cursor # None /\ config = proc[p].cfg /\ cursor.enr = config
              /\ cursor.journal = proc[p].st.journal /\ cursor.epoch = proc[p].st.epoch
              /\ cursor.head = proc[p].st.head /\ cursor.status = proc[p].st.status /\ cursor.pending = None
<1>1. /\ proc[p].cfg \in Enrollments /\ proc[p].st \in Cursor /\ proc[p].st.pending = None
      /\ proc[p].st.status \notin Terminal /\ CursorSound(proc[p].st, portal)
  BY Basics DEF CallSound
<1>2. CursorBound(p) => cursor \in Cursor /\ View(cursor) = View(proc[p].st)
  BY DEF CursorBound, Bound, SyncInv, TypeInv
<1> QED BY <1>1, <1>2, ViewFacts DEF CursorBound, Bound

LEMMA JournalChangedSound ==
  ASSUME SyncAssumption, SyncInv, NEW p \in Procs, JournalChanged(p)
  PROVE  StepSound
<1>1. /\ net \subseteq Network /\ proc[p].pc \in {"read", "diverged"} /\ End(p)
      /\ config' = config /\ journal' = journal /\ portal' = portal /\ net' = net
      /\ IF CursorBound(p) THEN cursor' = SetStatus("reset-required") ELSE cursor' = cursor
  BY DEF SyncInv, TypeInv, JournalChanged, Update, At, world
<1>2. CASE CursorBound(p)
  <2>1. cursor # None /\ cursor.pending = None /\ cursor.status \notin Terminal
    BY <1>1, <1>2, ReadFacts
  <2>2. "reset-required" \in Terminal
    BY DEF Terminal
  <2> QED BY <1>1, <1>2, <2>1, <2>2, StatusOnly
<1>3. CASE ~CursorBound(p)
  BY <1>1, <1>3, CallEnds
<1> QED BY <1>2, <1>3

LEMMA UpToDateSound ==
  ASSUME SyncAssumption, SyncInv, NEW p \in Procs, UpToDate(p)
  PROVE  StepSound
<1> DEFINE st == proc[p].st
           seen == proc[p].seen
<1>1. /\ net \subseteq Network /\ proc[p].pc = "read" /\ cursor' = cursor /\ portal' = portal
      /\ config' = config /\ journal' = journal /\ net' = net
      /\ st.journal \in {None, Identity(seen)} /\ seen = st.head
  BY DEF SyncInv, TypeInv, UpToDate, SameJournal, At, world
<1>2. CASE End(p)
  BY <1>1, <1>2, CallEnds
<1>3. CASE CursorBound(p) /\ Claim(p)
  <2>1. /\ st \in Cursor /\ CursorSound(st, portal) /\ cursor \in Cursor /\ cursor.enr = config
        /\ config = proc[p].cfg /\ config \in Enrollments
        /\ cursor.journal = st.journal /\ cursor.epoch = st.epoch /\ cursor.head = st.head
    BY <1>1, <1>3, ReadFacts
  <2>2. PICK r \in ProcType : r = [proc[p] EXCEPT !.pc = "up-to-date", !.st = None]
    BY Basics DEF ProcType, Pcs
  <2>3. proc' = [proc EXCEPT ![p] = r]
    BY <1>3, <2>2 DEF SyncInv, TypeInv, ProcType, Claim
  <2>4. r.pc = "up-to-date" /\ r.st = None /\ r.cfg = proc[p].cfg
    BY <2>2, Basics DEF ProcType
  <2>5. CallSound(r, portal)
    BY <2>1, <2>4 DEF CallSound, CursorSound, Judged, SyncAssumption
  <2>6. ASSUME seen # <<>>
        PROVE  IsPrefix(seen, HeadAt(config, [epoch |-> cursor.epoch, to |-> seen]))
    <3>1. st.journal # None
      BY <1>1, <2>1, <2>6, CursorFields DEF CursorSound
    <3>2. st.journal = Head(seen)
      BY <1>1, <2>6, <3>1 DEF Identity
    <3>3. IsPrefix(seen, Held(portal, config, cursor.epoch, Head(seen)))
      BY <1>1, <2>1, <3>1, <3>2, CursorFields DEF SyncInv, CursorSound
    <3> QED BY <3>3, HeadAtHeld DEF HeldFor
  <2>7. PICK c \in Cursor \cup {None} : c = cursor
    BY <2>1
  <2>8. CursorSound(c, portal) /\ StatusSound(c, portal) /\ Moves(cursor, c, portal) /\ Stays(p, r, c)
    BY <2>7 DEF SyncInv, Moves, Stays
  <2>9. cursor' = c /\ net' \subseteq Network
    BY <1>1, <2>7
  <2> QED BY <1>1, <2>1, <2>3, <2>5, <2>6, <2>8, <2>9, CallStep
<1> QED BY <1>2, <1>3 DEF UpToDate, StillCurrent

\* The state with which a call goes on to its next round.
LEMMA NextRound ==
  ASSUME SyncAssumption, SyncInv, NEW p \in Procs, proc[p].pc # "idle",
         NEW c \in Cursor \cup {None}, CursorSound(c, portal), cursor' = c,
         NEW pc \in {"round", "next"}, Again(p, pc)
  PROVE  \E r \in ProcType : proc' = [proc EXCEPT ![p] = r] /\ CallSound(r, portal) /\ r.pc = pc
<1>1. PICK r \in ProcType : r = [proc[p] EXCEPT !.pc = pc, !.st = c, !.page = None, !.seen = <<>>, !.ans = None]
  BY Basics DEF ProcType, Pcs
<1>2. r.pc = pc /\ r.st = c /\ r.cfg = proc[p].cfg
  BY <1>1, Basics DEF ProcType
<1>3. CallSound(r, portal)
  BY <1>2, Basics DEF CallSound, Judged
<1>4. proc' = [proc EXCEPT ![p] = [proc[p] EXCEPT !.pc = pc, !.st = c, !.page = None, !.seen = <<>>, !.ans = None]]
  BY DEF Again, SyncInv, TypeInv
<1> QED BY <1>1, <1>2, <1>3, <1>4

\* The page built on a cursor continues it with at least one event.
LEMMA BuiltPage ==
  ASSUME SyncAssumption, NEW p \in Procs, NEW st \in Cursor, NEW seen \in Histories,
         st = proc[p].st, seen = proc[p].seen, IsPrefix(st.head, seen), seen # st.head
  PROVE  /\ BuildPage(p) \in Page /\ BuildPage(p).id.from = st.head /\ BuildPage(p).id.epoch = st.epoch
         /\ seen # <<>> /\ Head(BuildPage(p).id.to) = Head(seen)
         /\ Identity(seen) = Head(seen) /\ Head(seen) \in Identities /\ Head(seen) # None
         /\ (st.head # <<>> => Head(st.head) = Head(seen))
<1>1. /\ seen \in Seq(Events) /\ st.head \in Histories /\ st.head \in Seq(Events) /\ st.epoch \in 1 .. MaxEpoch
      /\ Len(seen) \in Nat /\ Len(st.head) \in Nat
  BY HistoriesClosed, CursorFields
<1>2. Len(st.head) < Len(seen)
  BY <1>1, PrefixLonger
<1>3. seen # <<>>
  BY <1>1, <1>2
<1>4. PICK k \in 1 .. Len(seen) :
        /\ Len(st.head) < k
        /\ k = IF Len(seen) < Len(st.head) + MaxPage THEN Len(seen) ELSE Len(st.head) + MaxPage
  <2>1. MaxPage \in Nat \ {0}
    BY DEF SyncAssumption
  <2> DEFINE n == IF Len(seen) < Len(st.head) + MaxPage THEN Len(seen) ELSE Len(st.head) + MaxPage
  <2>2. n \in 1 .. Len(seen) /\ Len(st.head) < n
    BY <1>1, <1>2, <2>1
  <2> QED BY <2>2, Zenon
<1>5. PICK to \in Histories : to = SubSeq(seen, 1, k) /\ IsPrefix(to, seen)
  <2>1. k \in 0 .. Len(seen)
    BY <1>1, <1>4
  <2> QED BY <2>1, HistoriesClosed
<1>6. to \in Seq(Events) /\ Len(to) = k /\ to # <<>>
  <2>1. SubSeq(seen, 1, k) \in Seq(Events) /\ Len(SubSeq(seen, 1, k)) = k
    BY <1>1, <1>4
  <2> QED BY <1>5, <2>1
<1>7. IsPrefix(st.head, to)
  <2>1. Len(st.head) <= Len(to)
    BY <1>1, <1>4, <1>6
  <2>2. IsPrefix(to, seen)
    BY <1>5
  <2> QED BY <1>1, <1>6, <2>1, <2>2, PrefixesOfOne
<1>8. st.head # to
  BY <1>1, <1>4, <1>6
<1>9. BuildPage(p) = [id |-> [epoch |-> st.epoch, from |-> st.head, to |-> to], by |-> p]
  BY <1>4, <1>5 DEF BuildPage
<1>10. PICK id \in PageId : id = [epoch |-> st.epoch, from |-> st.head, to |-> to]
  BY <1>1, <1>7, <1>8 DEF PageId
<1>11. BuildPage(p) \in Page /\ BuildPage(p).id = id
  BY <1>9, <1>10 DEF Page
<1>12. id.from = st.head /\ id.epoch = st.epoch /\ id.to = to
  BY <1>10
<1>13. Head(to) = Head(seen) /\ (st.head # <<>> => Head(st.head) = Head(seen))
  BY <1>1, <1>5, <1>6, PrefixLonger
<1>14. Head(seen) \in Identities
  BY <1>10, <1>12, <1>13, PageFacts
<1>15. Head(seen) # None
  <2>1. Head(seen) \in Events
    BY <1>1, <1>3
  <2> QED BY <2>1 DEF SyncAssumption
<1> QED BY <1>3, <1>11, <1>12, <1>13, <1>14, <1>15 DEF Identity

LEMMA StorePageSound ==
  ASSUME SyncAssumption, SyncInv, NEW p \in Procs, StorePage(p)
  PROVE  StepSound
<1>1. /\ net \subseteq Network /\ proc[p].pc = "read" /\ cursor \in Cursor \cup {None}
      /\ config' = config /\ journal' = journal /\ portal' = portal /\ net' = net
      /\ proc[p].st.journal \in {None, Identity(proc[p].seen)} /\ proc[p].seen # proc[p].st.head
  BY DEF SyncInv, TypeInv, StorePage, SameJournal, At, world
<1>2. PICK st \in Cursor : st = proc[p].st
  BY <1>1, ReadFacts
<1>3. PICK seen \in Histories : seen = proc[p].seen
  BY Basics
<1>4. IsPrefix(st.head, seen) /\ proc[p].cfg \in Enrollments
  BY <1>1, <1>2, <1>3, Basics DEF CallSound
<1>5. PICK page \in Page : page = BuildPage(p)
  BY <1>1, <1>2, <1>3, <1>4, BuiltPage
<1>6. /\ page.id.from = st.head /\ page.id.epoch = st.epoch
      /\ seen # <<>> /\ Head(page.id.to) = Head(seen) /\ Identity(seen) = Head(seen)
      /\ Head(seen) \in Identities /\ Head(seen) # None /\ (st.head # <<>> => Head(st.head) = Head(seen))
  BY <1>1, <1>2, <1>3, <1>4, <1>5, BuiltPage
<1>7. CASE /\ CursorBound(p)
           /\ cursor' = [cursor EXCEPT !.journal = Identity(proc[p].seen), !.pending = BuildPage(p)]
           /\ proc' = [proc EXCEPT ![p] = [@ EXCEPT !.pc = "sending", !.page = BuildPage(p), !.seen = <<>>, !.st = None]]
  <2>1. /\ cursor \in Cursor /\ cursor # None /\ config = proc[p].cfg /\ cursor.enr = config
        /\ cursor.journal = st.journal /\ cursor.epoch = st.epoch /\ cursor.head = st.head
        /\ cursor.status \notin Terminal
    BY <1>1, <1>2, <1>7, ReadFacts
  <2>2. PICK c \in Cursor : c = [cursor EXCEPT !.journal = Head(seen), !.pending = page]
    BY <1>6, <2>1 DEF Cursor
  <2>3. /\ c.enr = config /\ c.journal = Head(seen) /\ c.epoch = st.epoch /\ c.head = st.head
        /\ c.status = cursor.status /\ c.pending = page /\ c # None
    BY <2>1, <2>2, CursorFields DEF Cursor
  <2>4. config \in Enrollments /\ st.epoch \in 1 .. MaxEpoch /\ Chained(portal)
    BY <1>4, <2>1, CursorFields, Basics
  <2>5. IsPrefix(c.head, Held(portal, c.enr, c.epoch, c.journal)) /\ Moves(cursor, c, portal)
    <3>1. CASE st.journal = None
      <4>1. st.head = <<>>
        BY <1>1, <1>2, <3>1, ReadFacts, CursorFields DEF CursorSound
      <4>2. Held(portal, config, st.epoch, Head(seen)) \in Seq(Events)
        BY <1>6, <2>4, Basics, HeldTyped
      <4>3. StreamOf(c) \in Streams \ {StreamOf(cursor)}
        BY <1>6, <2>1, <2>3, <2>4, <3>1 DEF StreamOf, Streams
      <4> QED BY <2>3, <4>1, <4>2, <4>3, EmptyIsPrefix DEF Moves, AckedOf
    <3>2. CASE st.journal # None
      <4>1. st.journal = Head(seen)
        BY <1>1, <1>2, <1>3, <1>6, <3>2
      <4>2. IsPrefix(st.head, Held(portal, config, st.epoch, Head(seen)))
        BY <2>1, <3>2, <4>1 DEF SyncInv, CursorSound
      <4> QED BY <2>1, <2>3, <4>1, <4>2 DEF Moves, StreamOf, AckedOf
    <3> QED BY <3>1, <3>2
  <2>6. CursorSound(c, portal)
    BY <1>6, <2>3, <2>5 DEF CursorSound, OnStream
  <2>7. StatusSound(c, portal) 
    BY <2>1, <2>3 DEF StatusSound, Terminal
  <2>8. PICK r \in ProcType : r = [proc[p] EXCEPT !.pc = "sending", !.page = page, !.seen = <<>>, !.st = None]
    BY Basics DEF ProcType, Pcs
  <2>9. r.pc = "sending" /\ r.page = page /\ r.st = None /\ r.cfg = config
    BY <2>1, <2>8, Basics DEF ProcType
  <2>10. proc' = [proc EXCEPT ![p] = r]
    BY <1>5, <1>7, <2>8 DEF SyncInv, TypeInv
  <2>11. IsPrefix(page.id.from, HeldFor(portal, config, page.id))
    BY <1>6, <2>3, <2>5 DEF HeldFor
  <2>12. page # None /\ config # None
    BY <1>4, <2>1 DEF SyncAssumption
  <2>13. CallSound(r, portal)
    BY <2>9, <2>11, <2>12 DEF CallSound, CursorSound, Judged
  <2>14. Stays(p, r, c)
    BY <2>1 DEF Stays
  <2>15. cursor' = c
    BY <1>3, <1>5, <1>6, <1>7, <2>2
  <2> QED BY <1>1, <2>5, <2>6, <2>7, <2>9, <2>10, <2>13, <2>14, <2>15, CallStep
<1>8. CASE LostRace(p)
  <2>1. CursorSound(cursor, portal) /\ cursor' = cursor
    BY <1>8 DEF LostRace, SyncInv
  <2>2. PICK r \in ProcType : proc' = [proc EXCEPT ![p] = r] /\ CallSound(r, portal) /\ r.pc = "round"
    BY <1>1, <1>8, <2>1, NextRound DEF LostRace
  <2> QED BY <1>1, <2>1, <2>2, QuietStep
<1> QED BY <1>7, <1>8 DEF StorePage

LEMMA SendSound ==
  ASSUME SyncAssumption, SyncInv, NEW p \in Procs, Send(p)
  PROVE  StepSound
<1>1. /\ net \subseteq Network /\ proc[p].pc = "sending" /\ cursor' = cursor
      /\ config' = config /\ journal' = journal /\ portal' = portal
  BY DEF SyncInv, TypeInv, Send, At, world
<1>2. CASE net' = net /\ End(p)
  BY <1>1, <1>2, CallEnds
<1>3. CASE /\ StreamBound(p)
           /\ net' = net \cup {[to |-> config, page |-> proc[p].page, from |-> p]}
           /\ proc' = [proc EXCEPT ![p].pc = "posted"]
  <2>1. config = proc[p].cfg /\ proc[p].cfg \in Enrollments /\ proc[p].page \in Page
    BY <1>1, <1>3, Basics DEF StreamBound, Bound, CallSound
  <2>2. net' \subseteq Network
    BY <1>1, <1>3, <2>1 DEF Network
  <2>3. PICK r \in ProcType : r = [proc[p] EXCEPT !.pc = "posted"]
    BY Basics DEF ProcType, Pcs
  <2>4. proc' = [proc EXCEPT ![p] = r]
    BY <1>3, <2>3 DEF SyncInv, TypeInv, ProcType
  <2>5. /\ r.pc = "posted" /\ r.st = proc[p].st /\ r.cfg = proc[p].cfg /\ r.page = proc[p].page
    BY <2>3, Basics DEF ProcType
  <2>6. CallSound(r, portal)
    BY <1>1, <2>5, Basics DEF CallSound, Judged
  <2> QED BY <1>1, <2>2, <2>4, <2>5, <2>6, QuietStep
<1> QED BY <1>2, <1>3 DEF Send

\* What the Portal answers about a page that starts where the stream once was.
LEMMA Verdicts ==
  ASSUME SyncAssumption, Histories # {}, Chained(portal), NEW e \in Enrollments, NEW id \in PageId
  PROVE  /\ Verdict(e, id) \in {"accepted", "duplicate", "mismatch", "diverged"}
         /\ Verdict(e, id) = "accepted" => id.from = HeldFor(portal, e, id)
         /\ Verdict(e, id) = "duplicate" => id \in portal[e]
         /\ IsPrefix(id.from, HeldFor(portal, e, id)) =>
              /\ Verdict(e, id) # "diverged"
              /\ Verdict(e, id) = "mismatch" => Never(portal, e, id)
<1> DEFINE head == HeldFor(portal, e, id)
           prior == {g \in Pages(e, id) : Len(g.from) = Len(id.from)}
           v == Verdict(e, id)
<1>1. v = IF prior # {} THEN (IF id \in prior THEN "duplicate" ELSE "mismatch")
          ELSE IF Len(id.from) # Len(head) THEN "mismatch"
          ELSE IF id.from # head THEN "diverged" ELSE "accepted"
  BY HeadAtHeld DEF Verdict
<1>2. /\ id.epoch \in 1 .. MaxEpoch /\ Head(id.to) \in Identities /\ id.from \in Seq(Events)
      /\ Len(id.from) \in Nat /\ portal[e] \in SUBSET PageId
  BY PageFacts DEF Chained
<1>3. /\ head \in Seq(Events)
      /\ \A g \in portal[e] : g.epoch = id.epoch /\ Head(g.to) = Head(id.to) => IsPrefix(g.to, head)
  BY <1>2, HeldTyped DEF HeldFor
<1>4. id \in portal[e] <=> id \in prior
  BY DEF Pages
<1>5. Len(head) \in Nat
  BY <1>3
<1>6. ASSUME prior # {}
      PROVE  id.from # head
  <2>1. PICK g \in prior : TRUE
    BY <1>6
  <2>2. g \in PageId /\ IsPrefix(g.to, head) /\ Len(g.from) = Len(id.from)
    BY <1>2, <1>3, <2>1 DEF Pages
  <2>3. Len(g.from) < Len(g.to) /\ g.to \in Seq(Events) /\ Len(g.to) \in Nat
    BY <2>2, PageFacts
  <2>4. Len(g.to) <= Len(head)
    BY <1>3, <2>2, <2>3, PrefixLonger
  <2>5. Len(id.from) # Len(head)
    BY <1>2, <1>5, <2>2, <2>3, <2>4
  <2> QED BY <2>5
<1>7. ASSUME IsPrefix(id.from, head)
      PROVE  v # "diverged" /\ (v = "mismatch" => Never(portal, e, id))
  <2>1. Len(id.from) = Len(head) => id.from = head
    BY <1>2, <1>3, <1>7, PrefixLonger
  <2>2. v # "diverged"
    BY <1>1, <2>1
  <2>3. v = "mismatch" => id \notin portal[e] /\ id.from # head
    BY <1>1, <1>4, <1>6
  <2> QED BY <2>2, <2>3 DEF Never
<1> QED BY <1>1, <1>4, <1>7

\* The Portal stores one page more, and a call may learn it.
LEMMA MoreHeld ==
  ASSUME SyncAssumption, SyncInv, NEW e \in Enrollments, NEW id \in PageId, OneMore(portal, portal', e, id),
         NEW p \in Procs, NEW r \in ProcType, proc' = [proc EXCEPT ![p] = r], CallSound(r, portal'),
         r.pc # "up-to-date" \/ r = proc[p], cursor' = cursor, config' = config, journal' = journal,
         net' \subseteq Network
  PROVE  StepSound
<1>1. /\ proc \in [Procs -> ProcType] /\ Histories # {} /\ Chained(portal)
      /\ cursor \in Cursor \cup {None} /\ CursorSound(cursor, portal) /\ StatusSound(cursor, portal)
  BY DEF SyncInv, TypeInv, Chained
<1>2. PICK R : R = portal'
  OBVIOUS
<1>3. OneMore(portal, R, e, id) /\ CallSound(r, R)
  BY <1>2
<1>4. Chained(R)
  BY <1>1, <1>3, HeldGrows
<1>5. PICK c \in Cursor \cup {None} : c = cursor
  BY <1>1
<1>6. CursorSound(c, R) /\ StatusSound(c, R)
  BY <1>1, <1>3, <1>5, CursorStays
<1>7. proc'[p] = r /\ \A q \in Procs : q # p => proc'[q] = proc[q]
  BY <1>1
<1>8. ASSUME NEW q \in Procs PROVE CallSound(proc'[q], R)
  <2>1. CASE q = p
    BY <1>3, <1>7, <2>1
  <2>2. CASE q # p
    <3>1. PICK s \in ProcType : s = proc[q]
      BY <1>1
    <3>2. CallSound(s, portal)
      BY <3>1 DEF SyncInv
    <3>3. CallSound(s, R)
      BY <1>1, <1>3, <3>2, CallStays
    <3> QED BY <1>7, <2>2, <3>1, <3>3
  <2> QED BY <2>1, <2>2
<1>9. TypeInv'
  BY <1>1, <1>2, <1>4 DEF SyncInv, TypeInv, Chained
<1>10. SyncInv'
  BY <1>2, <1>4, <1>5, <1>6, <1>8, <1>9 DEF SyncInv, Chained
<1>11. UpToDateIsTrue
  BY <1>7 DEF UpToDateIsTrue, At
<1>12. TerminalStays
  BY DEF TerminalStays
<1> QED BY <1>10, <1>11, <1>12 DEF StepSound

LEMMA TakesSound ==
  ASSUME SyncAssumption, SyncInv, NEW m \in net, NEW got \in BOOLEAN, Takes(m, got)
  PROVE  StepSound
<1> DEFINE id == m.page.id
           v == Verdict(m.to, id)
           is == IF v \in {"accepted", "duplicate"} THEN "ack" ELSE v
           p == m.from
           waits == At(p, "posted") /\ proc[p].page = m.page /\ proc[p].cfg = m.to
<1>1. /\ p \in Procs /\ m.to \in Enrollments /\ m.page \in Page /\ id \in PageId
      /\ net' \subseteq Network /\ cursor' = cursor /\ config' = config /\ journal' = journal
  BY DEF SyncInv, TypeInv, Network, Page, Takes, world
<1>2. Histories # {} /\ Chained(portal) /\ proc[p] \in ProcType /\ CallSound(proc[p], portal)
  BY <1>1, Basics
<1>3. /\ v \in {"accepted", "duplicate", "mismatch", "diverged"}
      /\ v = "accepted" => id.from = HeldFor(portal, m.to, id)
      /\ v = "duplicate" => id \in portal[m.to]
      /\ IsPrefix(id.from, HeldFor(portal, m.to, id)) =>
           v # "diverged" /\ (v = "mismatch" => Never(portal, m.to, id))
  BY <1>1, <1>2, Verdicts
<1>4. portal' = IF v = "accepted" THEN [portal EXCEPT ![m.to] = @ \cup {id}] ELSE portal
  BY DEF Takes
<1>5. PICK R : R = portal'
  OBVIOUS
<1>6. v = "accepted" => OneMore(portal, R, m.to, id)
  BY <1>3, <1>4, <1>5 DEF OneMore
<1>7. /\ Chained(R) /\ CallSound(proc[p], R)
      /\ (v \in {"accepted", "duplicate"} => id \in R[m.to])
      /\ v # "accepted" => R = portal
  <2>1. CASE v = "accepted"
    <3>0. Chained(R)
      BY <1>1, <1>2, <1>6, <2>1, HeldGrows
    <3>1. id \in R[m.to]
      BY <1>1, <1>2, <1>6, <2>1 DEF OneMore, Chained
    <3>2. CallSound(proc[p], R)
      BY <1>1, <1>2, <1>6, <2>1, CallStays
    <3> QED BY <2>1, <3>0, <3>1, <3>2
  <2>2. CASE v # "accepted"
    BY <1>2, <1>3, <1>4, <1>5, <2>2
  <2> QED BY <2>1, <2>2
<1>8. \E r \in ProcType : /\ proc' = [proc EXCEPT ![p] = r] /\ CallSound(r, R)
                          /\ r.pc # "up-to-date" \/ r = proc[p]
  <2>1. CASE proc' = proc
    BY <1>2, <1>7, <2>1 DEF SyncInv, TypeInv
  <2>2. CASE /\ waits
             /\ proc' = [proc EXCEPT ![p].pc = "answered", ![p].ans = [is |-> is, at |-> HeadAt(m.to, id)']]
    <3>1. HeadAt(m.to, id)' = HeldFor(R, m.to, id)
      BY <1>5 DEF HeadAt, Pages, HeldFor, Held, Longest, Heads
    <3>2. id.epoch \in 1 .. MaxEpoch /\ Head(id.to) \in Identities
      BY <1>1, PageFacts
    <3>3. HeldFor(R, m.to, id) \in Histories /\ HeldFor(R, m.to, id) \in Seq(Events)
      BY <1>1, <1>2, <1>7, <3>2, HeldTyped DEF HeldFor
    <3>4. /\ proc[p].pc = "posted" /\ proc[p].page = m.page /\ proc[p].cfg = m.to
          /\ IsPrefix(id.from, HeldFor(portal, m.to, id)) /\ IsPrefix(id.from, HeldFor(R, m.to, id))
          /\ m.to # None /\ m.page # None /\ CursorSound(proc[p].st, R)
      BY <1>2, <1>7, <2>2 DEF At, CallSound
    <3>5. is \in {"ack", "mismatch"} /\ (is = "mismatch" => v = "mismatch")
          /\ (is = "ack" => v \in {"accepted", "duplicate"})
      BY <1>3, <3>4
    <3> HIDE DEF is
    <3>6. PICK a \in Answer : a = [is |-> is, at |-> HeldFor(R, m.to, id)]
      BY <3>3, <3>5 DEF Answer
    <3>7. a.is = is /\ a.at = HeldFor(R, m.to, id) /\ a # None
      BY <3>6 DEF SyncAssumption
    <3>8. PICK r \in ProcType : r = [proc[p] EXCEPT !.pc = "answered", !.ans = a]
      BY <1>2 DEF ProcType, Pcs
    <3>9. proc' = [proc EXCEPT ![p] = r]
      BY <2>2, <3>1, <3>6, <3>8 DEF SyncInv, TypeInv, ProcType
    <3>10. r.pc = "answered" /\ r.cfg = m.to /\ r.page = m.page /\ r.st = proc[p].st /\ r.ans = a
      BY <1>2, <3>4, <3>8 DEF ProcType
    <3>11. is = "mismatch" => Never(R, m.to, id)
      BY <1>3, <1>7, <3>4, <3>5
    <3>12. IsPrefix(a.at, HeldFor(R, m.to, id)) /\ IsPrefix(id.from, a.at)
      BY <3>3, <3>4, <3>7, PrefixReflexive
    <3>13. CallSound(r, R)
      BY <1>7, <3>4, <3>5, <3>7, <3>10, <3>11, <3>12 DEF CallSound, Judged
    <3> QED BY <3>9, <3>10, <3>13
  <2> QED BY <2>1, <2>2 DEF Takes
<1>9. PICK r \in ProcType : /\ proc' = [proc EXCEPT ![p] = r] /\ CallSound(r, R)
                            /\ r.pc # "up-to-date" \/ r = proc[p]
  BY <1>8
<1>10. CASE v = "accepted"
  <2>1. OneMore(portal, portal', m.to, id) /\ CallSound(r, portal')
    BY <1>5, <1>6, <1>9, <1>10
  <2> HIDE DEF id, p, v
  <2> QED BY <1>1, <1>9, <2>1, MoreHeld
<1>11. CASE v # "accepted"
  <2>1. portal' = portal /\ CallSound(r, portal)
    BY <1>5, <1>7, <1>9, <1>11
  <2>2. proc[p].pc = "read" => r.pc # "up-to-date"
    BY <1>9
  <2> HIDE DEF id, p, v
  <2> QED BY <1>1, <1>9, <2>1, <2>2, QuietStep
<1> QED BY <1>10, <1>11

LEMMA HandleFailureSound ==
  ASSUME SyncAssumption, SyncInv, NEW p \in Procs, HandleFailure(p)
  PROVE  StepSound
<1> DEFINE is == proc[p].ans.is
           s == StatusAfter(is)
<1>1. /\ net' \subseteq Network /\ proc[p].pc = "answered" /\ is \notin {"ack", "mismatch"} /\ End(p)
      /\ config' = config /\ journal' = journal /\ portal' = portal
      /\ IF PageBound(p) THEN cursor' = SetStatus(s) ELSE cursor' = cursor
  BY DEF SyncInv, TypeInv, HandleFailure, Update, At, world
<1>2. /\ proc[p].ans \in Answer /\ proc[p].ans # None /\ is # "diverged"
      /\ Calm => is \notin {"conflict", "incompatible"}
  BY <1>1, Basics DEF CallSound, Judged
<1>3. CASE PageBound(p)
  <2>1. cursor # None /\ cursor \in Cursor /\ StatusSound(cursor, portal)
    BY <1>3 DEF PageBound, StreamBound, Bound, SyncInv, TypeInv
  <2>2. /\ s \in Terminal \cup {"active", "server-incompatible"}
        /\ Calm => s = cursor.status
    <3>1. is \in {"conflict", "incompatible", "error"} /\ (Calm => is = "error")
      BY <1>1, <1>2 DEF Answer
    <3>2. cursor.status \in Terminal \cup {"active", "server-incompatible"}
      BY <2>1 DEF Cursor
    <3>3. s = CASE is = "diverged" -> "reset-required" [] is = "conflict" -> "identity-conflict"
                [] is = "incompatible" -> "server-incompatible" [] OTHER -> cursor.status
      BY DEF StatusAfter
    <3> HIDE DEF is, s
    <3>4. is = "error" => s = cursor.status
      BY <3>3
    <3>5. is = "conflict" => s = "identity-conflict"
      BY <3>3
    <3>6. is = "incompatible" => s = "server-incompatible"
      BY <3>3
    <3> QED BY <3>1, <3>2, <3>4, <3>5, <3>6 DEF Terminal
  <2>3. proc[p] # Idle
    BY <1>1 DEF Idle
  <2>4. /\ Calm => s # "identity-conflict"
        /\ Calm /\ s \in Terminal /\ cursor.pending # None => Never(portal, cursor.enr, cursor.pending.id)
    BY <2>1, <2>2 DEF StatusSound
  <2> HIDE DEF s
  <2> QED BY <1>1, <1>2, <1>3, <2>1, <2>2, <2>3, <2>4, StatusOnly
<1>4. CASE ~PageBound(p)
  BY <1>1, <1>4, CallEnds
<1> QED BY <1>3, <1>4

LEMMA LocateSound ==
  ASSUME SyncAssumption, SyncInv, NEW p \in Procs, Locate(p)
  PROVE  StepSound
<1> DEFINE ans == proc[p].ans
           id == proc[p].page.id
           pc == IF ans.is = "mismatch" /\ ~Verified(ans.at) THEN "reset" ELSE "adopting"
           seen == IF ans.is = "mismatch" \/ (Len(ans.at) > Len(id.to) /\ Verified(ans.at)) THEN ans.at ELSE id.to
<1>1. /\ net' \subseteq Network /\ proc[p].pc = "answered" /\ ans.is \in {"ack", "mismatch"}
      /\ cursor' = cursor /\ config' = config /\ journal' = journal /\ portal' = portal
  BY DEF SyncInv, TypeInv, Locate, At, world
<1>2. /\ ans \in Answer /\ proc[p].page \in Page /\ proc[p].cfg \in Enrollments
      /\ IsPrefix(id.from, HeldFor(portal, proc[p].cfg, id))
      /\ ans.is = "ack" => id \in portal[proc[p].cfg]
      /\ IsPrefix(id.from, ans.at) /\ IsPrefix(ans.at, HeldFor(portal, proc[p].cfg, id))
  BY <1>1, Basics DEF CallSound, Judged
<1>3. /\ id \in PageId /\ ans.at \in Histories /\ id.to \in Histories /\ IsPrefix(id.from, id.to)
      /\ id.epoch \in 1 .. MaxEpoch /\ Head(id.to) \in Identities /\ Chained(portal)
  BY <1>2, PageFacts, Basics DEF Page, Answer
<1>4. CASE End(p)
  BY <1>1, <1>4, CallEnds
<1>5. CASE proc' = [proc EXCEPT ![p].pc = pc, ![p].seen = seen]
  <2>1. seen \in Histories /\ pc \in {"reset", "adopting"} /\ (pc = "reset" => ans.is = "mismatch")
    BY <1>3
  <2>2. IsPrefix(id.from, seen) /\ IsPrefix(seen, HeldFor(portal, proc[p].cfg, id))
    <3>1. CASE ans.is = "mismatch"
      BY <1>2, <3>1
    <3>2. CASE ans.is = "ack"
      <4>1. IsPrefix(id.to, HeldFor(portal, proc[p].cfg, id))
        BY <1>2, <1>3, <3>2, Basics, HeldTyped DEF HeldFor
      <4> QED BY <1>2, <1>3, <3>2, <4>1
    <3> QED BY <1>1, <3>1, <3>2
  <2> HIDE DEF seen, pc
  <2>3. PICK r \in ProcType : r = [proc[p] EXCEPT !.pc = pc, !.seen = seen]
    BY <2>1, Basics DEF ProcType, Pcs
  <2>4. proc' = [proc EXCEPT ![p] = r]
    BY <1>5, <2>3 DEF SyncInv, TypeInv, ProcType
  <2>5. /\ r.pc = pc /\ r.seen = seen /\ r.cfg = proc[p].cfg /\ r.st = proc[p].st
        /\ r.page = proc[p].page /\ r.ans = ans
    BY <2>3, Basics DEF ProcType
  <2>6. CallSound(r, portal)
    BY <1>1, <2>1, <2>2, <2>5, Basics DEF CallSound, Judged
  <2>7. proc[p].pc = "read" => r.pc # "up-to-date"
    BY <1>1
  <2> QED BY <1>1, <2>4, <2>6, <2>7, QuietStep
<1> QED BY <1>4, <1>5 DEF Locate

\* The file holds the page of the call: what the call knows of it.
LEMMA PageFound ==
  ASSUME SyncAssumption, SyncInv, NEW p \in Procs, PageBound(p), proc[p].page \in Page
  PROVE  /\ cursor \in Cursor /\ cursor # None /\ cursor.enr = proc[p].cfg
         /\ cursor.pending # None /\ cursor.pending.id = proc[p].page.id
         /\ cursor.head = proc[p].page.id.from /\ cursor.epoch = proc[p].page.id.epoch
         /\ cursor.journal = Head(proc[p].page.id.to) /\ cursor.journal # None
<1>1. cursor \in Cursor /\ cursor # None /\ CursorSound(cursor, portal)
  BY DEF PageBound, StreamBound, Bound, SyncInv, TypeInv
<1>2. proc[p].page.id \in PageId /\ proc[p].page.id # None
  BY DEF Page, SyncAssumption
<1>3. cursor.pending # None /\ cursor.pending.id = proc[p].page.id
  BY <1>2 DEF PageBound, IdOf
<1>4. cursor.enr = proc[p].cfg /\ cursor.journal = Head(proc[p].page.id.to) /\ cursor.epoch = proc[p].page.id.epoch
  BY DEF PageBound, StreamBound, Bound, OnStream
<1> QED BY <1>1, <1>3, <1>4 DEF CursorSound

LEMMA UnverifiableSound ==
  ASSUME SyncAssumption, SyncInv, NEW p \in Procs, Unverifiable(p)
  PROVE  StepSound
<1>1. /\ net' \subseteq Network /\ proc[p].pc = "reset" /\ End(p)
      /\ config' = config /\ journal' = journal /\ portal' = portal
      /\ IF PageBound(p) THEN cursor' = SetStatus("reset-required") ELSE cursor' = cursor
  BY DEF SyncInv, TypeInv, Unverifiable, Update, At, world
<1>2. /\ proc[p].page \in Page /\ proc[p].ans # None
      /\ Never(portal, proc[p].cfg, proc[p].page.id)
  BY <1>1, Basics DEF CallSound, Judged
<1>3. CASE PageBound(p)
  <2>1. /\ cursor # None /\ cursor.enr = proc[p].cfg /\ cursor.pending.id = proc[p].page.id
        /\ StatusSound(cursor, portal)
    BY <1>2, <1>3, PageFound DEF SyncInv
  <2>2. "reset-required" \in Terminal \cup {"active", "server-incompatible"}
    BY DEF Terminal
  <2>3. \/ cursor.status \notin Terminal
        \/ "reset-required" = cursor.status
        \/ ~Calm /\ proc[p].ans # None /\ PageBound(p) /\ proc[p] # Idle
    BY <1>1, <1>2, <1>3, <2>1 DEF StatusSound, Terminal, Idle
  <2> QED BY <1>1, <1>2, <1>3, <2>1, <2>2, <2>3, StatusOnly
<1>4. CASE ~PageBound(p)
  BY <1>1, <1>4, CallEnds
<1> QED BY <1>3, <1>4

LEMMA AdoptSound ==
  ASSUME SyncAssumption, SyncInv, NEW p \in Procs, Adopt(p)
  PROVE  StepSound
<1> DEFINE is == proc[p].ans.is
           seen == proc[p].seen
           id == proc[p].page.id
<1>1. /\ net' \subseteq Network /\ proc[p].pc = "adopting" /\ cursor \in Cursor \cup {None}
      /\ config' = config /\ journal' = journal /\ portal' = portal
      /\ cursor' = IF PageBound(p)
                   THEN [cursor EXCEPT !.head = seen, !.pending = None,
                                       !.status = IF is = "ack" THEN "active" ELSE @]
                   ELSE cursor
      /\ End(p) \/ Again(p, "next")
  BY DEF SyncInv, TypeInv, Adopt, At, world
<1>2. /\ proc[p].page \in Page /\ seen \in Histories /\ proc[p].ans # None /\ is \in {"ack", "mismatch"}
      /\ is = "ack" => id \in portal[proc[p].cfg]
      /\ IsPrefix(id.from, seen) /\ IsPrefix(seen, HeldFor(portal, proc[p].cfg, id))
  BY <1>1, Basics DEF CallSound, Judged
<1>3. \E c \in Cursor \cup {None} :
        /\ cursor' = c /\ CursorSound(c, portal) /\ StatusSound(c, portal) /\ Moves(cursor, c, portal)
        /\ \A r \in ProcType : r # proc[p] => Stays(p, r, c)
  <2>1. CASE ~PageBound(p)
    BY <1>1, <2>1 DEF SyncInv, Moves, Stays
  <2>2. CASE PageBound(p)
    <3>1. /\ cursor \in Cursor /\ cursor # None /\ cursor.enr = proc[p].cfg
          /\ cursor.pending # None /\ cursor.pending.id = id /\ cursor.head = id.from
          /\ cursor.epoch = id.epoch /\ cursor.journal = Head(id.to) /\ cursor.journal # None
          /\ StatusSound(cursor, portal)
      BY <1>2, <2>2, PageFound DEF SyncInv
    <3>2. PICK s \in Terminal \cup {"active", "server-incompatible"} :
            s = IF is = "ack" THEN "active" ELSE cursor.status
      BY <3>1 DEF Cursor
    <3>3. PICK c \in Cursor : c = [cursor EXCEPT !.head = seen, !.pending = None, !.status = s]
      BY <1>2, <3>1 DEF Cursor
    <3>4. /\ c # None /\ c.enr = cursor.enr /\ c.journal = cursor.journal /\ c.epoch = cursor.epoch
          /\ c.head = seen /\ c.pending = None /\ c.status = s
      BY <3>1, <3>3, CursorFields DEF Cursor
    <3>5. IsPrefix(seen, Held(portal, c.enr, c.epoch, c.journal))
      BY <1>2, <3>1, <3>4 DEF HeldFor
    <3>6. CursorSound(c, portal)
      BY <3>1, <3>4, <3>5 DEF CursorSound
    <3>7. StatusSound(c, portal)
      BY <3>1, <3>2, <3>4 DEF StatusSound
    <3>8. Moves(cursor, c, portal)
      BY <1>2, <3>1, <3>4, <3>5 DEF Moves, StreamOf, AckedOf
    <3>9. \A r \in ProcType : r # proc[p] => Stays(p, r, c)
      <4>1. Calm /\ cursor.status \in Terminal => is # "ack"
        BY <1>2, <3>1 DEF StatusSound, Never
      <4> QED BY <1>2, <2>2, <3>1, <3>2, <3>4, <4>1 DEF Stays
    <3>10. cursor' = c
      BY <1>1, <2>2, <3>2, <3>3
    <3> QED BY <3>6, <3>7, <3>8, <3>9, <3>10
  <2> QED BY <2>1, <2>2
<1>4. PICK c \in Cursor \cup {None} :
        /\ cursor' = c /\ CursorSound(c, portal) /\ StatusSound(c, portal) /\ Moves(cursor, c, portal)
        /\ \A r \in ProcType : r # proc[p] => Stays(p, r, c)
  BY <1>3
<1>5. \E r \in ProcType : proc' = [proc EXCEPT ![p] = r] /\ CallSound(r, portal) /\ r.pc \in {"idle", "next"}
  <2>1. CASE End(p)
    <3>1. Idle.pc = "idle"
      BY DEF Idle
    <3> QED BY <2>1, <3>1, Basics DEF End
  <2>2. CASE Again(p, "next")
    BY <1>1, <1>4, <2>2, NextRound
  <2> QED BY <1>1, <2>1, <2>2
<1>6. PICK r \in ProcType : proc' = [proc EXCEPT ![p] = r] /\ CallSound(r, portal) /\ r.pc \in {"idle", "next"}
  BY <1>5
<1>7. Stays(p, r, c)
  BY <1>1, <1>4, <1>6
<1> QED BY <1>1, <1>4, <1>6, <1>7, CallStep

LEMMA ResyncSound ==
  ASSUME SyncAssumption, SyncInv, NEW p \in Procs, Resync(p)
  PROVE  StepSound
<1> DEFINE j == Identity(proc[p].seen)
           n == EpochAfter(p, j)
<1>1. /\ net' \subseteq Network /\ proc[p].pc = "resync" /\ End(p) /\ n <= MaxEpoch
      /\ config' = config /\ journal' = journal /\ portal' = portal
      /\ IF config = proc[p].cfg THEN cursor' = Fresh(proc[p].cfg, j, n) ELSE cursor' = cursor
  BY DEF SyncInv, TypeInv, Resync, Update, At, world
<1>2. proc[p].cfg \in Enrollments
  BY <1>1, Basics DEF CallSound
<1>3. j \in Identities \cup {None}
  <2> SUFFICES ASSUME proc[p].seen # <<>> PROVE Head(proc[p].seen) \in Identities
    BY DEF Identity
  <2>1. PICK h \in Histories : h = proc[p].seen
    BY Basics
  <2>2. PICK k \in Journals : IsPrefix(h, k)
    BY <2>1, HistoriesClosed
  <2>3. h \in Seq(Events) /\ k \in Seq(Events)
    BY HistoriesClosed DEF SyncAssumption
  <2>4. Head(h) = Head(k)
    BY <2>1, <2>2, <2>3, PrefixLonger
  <2> QED BY <2>1, <2>4 DEF Identities
<1>4. CASE config = proc[p].cfg
  <2>1. n \in 1 .. MaxEpoch /\ StreamOf(cursor) # [enr |-> proc[p].cfg, journal |-> j, epoch |-> n]
    <3>1. MaxEpoch \in Nat \ {0} /\ None \notin Streams
      BY DEF SyncAssumption
    <3>2. CASE cursor # None /\ cursor.journal = j /\ cursor.enr = proc[p].cfg
      <4>1. cursor.epoch \in 1 .. MaxEpoch /\ n = cursor.epoch + 1
        BY <3>2, CursorFields DEF SyncInv, TypeInv, EpochAfter
      <4>2. n \in 1 .. MaxEpoch /\ n # cursor.epoch
        BY <1>1, <3>1, <4>1
      <4> QED BY <3>2, <4>2 DEF StreamOf
    <3>3. CASE ~(cursor # None /\ cursor.journal = j /\ cursor.enr = proc[p].cfg)
      <4>1. n = 1 /\ n \in 1 .. MaxEpoch
        BY <3>1, <3>3 DEF EpochAfter
      <4>2. [enr |-> proc[p].cfg, journal |-> j, epoch |-> n] \in Streams
        BY <1>2, <1>3, <4>1 DEF Streams
      <4>3. CASE cursor = None
        BY <3>1, <4>1, <4>2, <4>3 DEF StreamOf
      <4>4. CASE cursor # None
        BY <3>3, <4>1, <4>4 DEF StreamOf
      <4> QED BY <4>3, <4>4
    <3> QED BY <3>2, <3>3
  <2> HIDE DEF j, n
  <2>2. PICK c \in Cursor : c = Fresh(proc[p].cfg, j, n)
    BY <1>2, <1>3, <2>1, Basics, FreshSound
  <2>3. /\ CursorSound(c, portal) /\ StatusSound(c, portal) /\ AckedOf(c) = <<>>
        /\ StreamOf(c) = [enr |-> proc[p].cfg, journal |-> j, epoch |-> n] /\ StreamOf(c) \in Streams
    BY <1>2, <1>3, <2>1, <2>2, Basics, FreshSound
  <2>4. Moves(cursor, c, portal)
    BY <2>1, <2>3 DEF Moves
  <2>5. Idle.pc = "idle" /\ cursor' = c /\ proc' = [proc EXCEPT ![p] = Idle]
    BY <1>1, <1>4, <2>2 DEF Idle, End
  <2>6. Stays(p, Idle, c)
    BY <1>1, <2>5 DEF Stays
  <2> QED BY <1>1, <2>3, <2>4, <2>5, <2>6, Basics, CallStep
<1>5. CASE config # proc[p].cfg
  BY <1>1, <1>5, CallEnds
<1> QED BY <1>4, <1>5

\* What happens around the calls touches nothing they rely on.
LEMMA AroundSound ==
  ASSUME SyncAssumption, SyncInv,
         \/ \E e \in Enrollments \cup {None} : Enroll(e)
         \/ Append1 \/ Replace \/ UNCHANGED vars
  PROVE  StepSound
<1>1. cursor' = cursor /\ portal' = portal /\ net' = net /\ proc' = proc
  BY DEF Enroll, Append1, Replace, vars
<1>2. config' \in Enrollments \cup {None} /\ journal' \in Histories
  BY DEF SyncInv, TypeInv, Enroll, Append1, Replace, vars
<1>3. SyncInv'
  BY <1>1, <1>2 DEF SyncInv, TypeInv
<1>4. UpToDateIsTrue
  BY <1>1 DEF UpToDateIsTrue, At
<1>5. TerminalStays
  BY <1>1 DEF TerminalStays
<1> QED BY <1>1, <1>3, <1>4, <1>5 DEF StepSound, Moves

LEMMA NextSound ==
  ASSUME SyncAssumption, SyncInv, [Next]_vars
  PROVE  StepSound
<1>1. CASE UNCHANGED vars
  BY <1>1, AroundSound
<1>2. ASSUME NEW p \in Procs,
             Begin(p) \/ BeginResync(p) \/ Step(p) \/ SourceUnavailable(p) \/ Timeout(p) \/ Stop(p)
      PROVE  StepSound
  <2>1. CASE Begin(p) \/ BeginResync(p)
    BY <2>1, BeginSound
  <2>2. CASE SourceUnavailable(p) \/ Stop(p)
    BY <2>2, StopSound
  <2>3. CASE Timeout(p)
    BY <2>3, TimeoutSound
  <2>4. CASE Step(p)
    BY <2>4, BindSound, ProbeSound, RoundSound, ReadSound, JournalChangedSound, UpToDateSound,
       StorePageSound, SendSound, HandleFailureSound, LocateSound, UnverifiableSound, AdoptSound,
       ResyncSound DEF Step
  <2> QED BY <1>2, <2>1, <2>2, <2>3, <2>4
<1>3. ASSUME NEW m \in net, Takes(m, TRUE) \/ Refuses(m) \/ Takes(m, FALSE)
      PROVE  StepSound
  BY <1>3, TakesSound, RefusesSound
<1>4. CASE (\E e \in Enrollments \cup {None} : Enroll(e)) \/ Append1 \/ Replace
  BY <1>4, AroundSound
<1> QED BY <1>1, <1>2, <1>3, <1>4 DEF Next

LEMMA InitSound ==
  ASSUME SyncAssumption, Init
  PROVE  SyncInv
<1>1. /\ config \in Enrollments /\ journal \in Histories /\ cursor = None
      /\ portal = [e \in Enrollments |-> {}] /\ net = {} /\ proc = [p \in Procs |-> Idle]
  BY DEF Init
<1>2. <<>> \in Histories
  BY <1>1, EmptyHistory
<1>3. Idle \in ProcType
  BY <1>2 DEF Idle, ProcType, Pcs
<1>4. Idle.pc = "idle" /\ Idle.st = None
  BY DEF Idle
<1>5. CallSound(Idle, portal)
  BY <1>4 DEF CallSound, CursorSound, Judged
<1>6. TypeInv
  BY <1>1, <1>3 DEF TypeInv
<1>7. ASSUME NEW e \in Enrollments PROVE OneChain(portal[e])
  <2> SUFFICES ASSUME NEW n \in 1 .. MaxEpoch, NEW j \in Identities
               PROVE  \E h \in Heads({}, n, j) : \A g \in Heads({}, n, j) : IsPrefix(g, h)
    BY <1>1 DEF OneChain
  <2>1. Heads({}, n, j) = {<<>>}
    BY DEF Heads
  <2>2. IsPrefix(<<>>, <<>>)
    BY <1>2, HistoriesClosed, EmptyIsPrefix
  <2> QED BY <2>1, <2>2
<1> QED BY <1>1, <1>5, <1>6, <1>7 DEF SyncInv, CursorSound, StatusSound

-----------------------------------------------------------------------------
(* The cursor implements an acknowledged history                           *)

StoredOf(Q) == [s \in Streams |-> IF s.journal = None THEN <<>> ELSE Held(Q, s.enr, s.epoch, s.journal)]

LEMMA StepImplements ==
  ASSUME SyncAssumption, SyncInv, StepSound
  PROVE  AH!AHStep
<1> DEFINE stored == [s \in Streams |-> IF s.journal = None THEN <<>>
                        ELSE HeadAt(s.enr, [epoch |-> s.epoch, to |-> <<s.journal>>])]
           stream == IF cursor = None THEN None
                     ELSE [enr |-> cursor.enr, journal |-> cursor.journal, epoch |-> cursor.epoch]
           acked == IF cursor = None THEN <<>> ELSE cursor.head
<1>1. stored = StoredOf(portal) /\ stored' = StoredOf(portal')
  BY DEF StoredOf, HeadAt, Pages, Held, Longest, Heads
<1>2. /\ stream = StreamOf(cursor) /\ stream' = StreamOf(cursor')
      /\ acked = AckedOf(cursor) /\ acked' = AckedOf(cursor')
  BY DEF StreamOf, AckedOf
<1>3. AH!AHStep <=> (AH!ReceiveMore \/ AH!Acknowledge \/ AH!StartStream
                       \/ (stream' = stream /\ acked' = acked /\ stored' = stored))
  BY DEF AH!AHStep, AH!AHNext
<1>4. AH!ReceiveMore <=>
        /\ stream' = stream /\ acked' = acked
        /\ \E s \in Streams : /\ stored'[s] # stored[s] /\ IsPrefix(stored[s], stored'[s])
                              /\ \A t \in Streams \ {s} : stored'[t] = stored[t]
  BY DEF AH!ReceiveMore, AH!Extends, AH!IsPrefix, IsPrefix
<1>5. AH!Acknowledge <=>
        /\ stream # None /\ acked' # acked /\ IsPrefix(acked, acked')
        /\ IsPrefix(acked', stored[stream]) /\ stream' = stream /\ stored' = stored
  BY DEF AH!Acknowledge, AH!Extends, AH!IsPrefix, IsPrefix
<1>6. AH!StartStream <=> stream' \in Streams \ {stream} /\ acked' = <<>> /\ stored' = stored
  BY DEF AH!StartStream
<1> HIDE DEF stored, stream, acked
<1>7. Chained(portal) /\ Histories # {} /\ cursor \in Cursor \cup {None}
  BY DEF SyncInv, TypeInv, Chained
<1>8. CASE portal' = portal /\ Moves(cursor, cursor', portal)
  <2>1. stored' = stored
    BY <1>1, <1>8
  <2>2. CASE StreamOf(cursor') = StreamOf(cursor) /\ AckedOf(cursor') = AckedOf(cursor)
    BY <1>2, <1>3, <2>1, <2>2
  <2>3. CASE /\ cursor # None /\ StreamOf(cursor') = StreamOf(cursor) /\ IsPrefix(AckedOf(cursor), AckedOf(cursor'))
             /\ cursor.journal # None
             /\ IsPrefix(AckedOf(cursor'), Held(portal, cursor.enr, cursor.epoch, cursor.journal))
    <3>1. PICK s \in Streams : s = [enr |-> cursor.enr, journal |-> cursor.journal, epoch |-> cursor.epoch]
      BY <1>7, <2>3, CursorFields DEF Streams
    <3>2. s.enr = cursor.enr /\ s.journal = cursor.journal /\ s.epoch = cursor.epoch /\ stream = s /\ s # None
      BY <1>2, <2>3, <3>1 DEF StreamOf, SyncAssumption
    <3>3. StoredOf(portal)[s] = Held(portal, cursor.enr, cursor.epoch, cursor.journal)
      BY <2>3, <3>2 DEF StoredOf
    <3>4. CASE acked' = acked
      BY <1>2, <1>3, <2>1, <2>3, <3>4
    <3>5. CASE acked' # acked
      BY <1>1, <1>2, <1>3, <1>5, <2>1, <2>3, <3>2, <3>3, <3>5
    <3> QED BY <3>4, <3>5
  <2>4. CASE StreamOf(cursor') \in Streams \ {StreamOf(cursor)} /\ AckedOf(cursor') = <<>>
    BY <1>2, <1>3, <1>6, <2>1, <2>4
  <2> QED BY <1>8, <2>2, <2>3, <2>4 DEF Moves
<1>9. ASSUME cursor' = cursor, NEW e \in Enrollments, NEW id \in PageId, OneMore(portal, portal', e, id)
      PROVE  AH!AHStep
  <2>1. /\ id.epoch \in 1 .. MaxEpoch /\ Head(id.to) \in Identities /\ IsPrefix(id.from, id.to)
        /\ id.from # id.to /\ id.to \in Seq(Events) /\ id.to # <<>>
    BY PageFacts
  <2>2. Head(id.to) # None
    <3>1. Head(id.to) \in Events
      BY <2>1
    <3> QED BY <3>1 DEF SyncAssumption
  <2>3. \A f \in Enrollments, n \in 1 .. MaxEpoch, j \in Identities :
          Held(portal', f, n, j) = IF f = e /\ n = id.epoch /\ j = Head(id.to)
                                   THEN id.to ELSE Held(portal, f, n, j)
    <3>1. PICK R : R = portal'
      OBVIOUS
    <3>2. OneMore(portal, R, e, id)
      BY <1>9, <3>1
    <3>3. \A f \in Enrollments, n \in 1 .. MaxEpoch, j \in Identities :
            Held(R, f, n, j) = IF f = e /\ n = id.epoch /\ j = Head(id.to)
                               THEN id.to ELSE Held(portal, f, n, j)
      BY <1>7, <3>2, HeldGrows
    <3> QED BY <3>1, <3>3
  <2>4. Held(portal, e, id.epoch, Head(id.to)) = id.from
    BY <1>9 DEF OneMore, HeldFor
  <2>5. PICK s \in Streams : s = [enr |-> e, journal |-> Head(id.to), epoch |-> id.epoch]
    BY <2>1 DEF Streams
  <2>6. StoredOf(portal)[s] = id.from /\ StoredOf(portal')[s] = id.to
    BY <2>1, <2>2, <2>3, <2>4, <2>5 DEF StoredOf
  <2>7. ASSUME NEW t \in Streams \ {s} PROVE StoredOf(portal')[t] = StoredOf(portal)[t]
    <3>1. /\ t.enr \in Enrollments /\ t.journal \in Identities \cup {None} /\ t.epoch \in 1 .. MaxEpoch
          /\ t = [enr |-> t.enr, journal |-> t.journal, epoch |-> t.epoch] /\ t # s
      BY DEF Streams
    <3>2. ~(t.enr = e /\ t.epoch = id.epoch /\ t.journal = Head(id.to))
      BY <2>5, <3>1
    <3> QED BY <2>3, <3>1, <3>2 DEF StoredOf
  <2>8. stream' = stream /\ acked' = acked
    BY <1>2, <1>9
  <2>9. /\ stored'[s] # stored[s] /\ IsPrefix(stored[s], stored'[s])
        /\ \A t \in Streams \ {s} : stored'[t] = stored[t]
    BY <1>1, <2>1, <2>6, <2>7
  <2> QED BY <1>3, <1>4, <2>8, <2>9
<1> QED BY <1>8, <1>9 DEF StepSound

LEMMA InitImplements ==
  ASSUME SyncAssumption, Init
  PROVE  AH!AHInit
<1>1. SyncInv /\ cursor = None /\ portal = [e \in Enrollments |-> {}]
  BY InitSound DEF Init
<1>2. ASSUME NEW s \in Streams, s.journal # None
      PROVE  HeadAt(s.enr, [epoch |-> s.epoch, to |-> <<s.journal>>]) = <<>>
  <2>1. s.enr \in Enrollments /\ s.journal \in Identities /\ s.epoch \in 1 .. MaxEpoch
    BY <1>2 DEF Streams
  <2>2. Chained(portal) /\ Histories # {}
    BY <1>1 DEF SyncInv, TypeInv, Chained
  <2>3. Held(portal, s.enr, s.epoch, s.journal) = <<>>
    BY <1>1, <2>1, <2>2, HeldTyped
  <2>4. HeadAt(s.enr, [epoch |-> s.epoch, to |-> <<s.journal>>]) = Held(portal, s.enr, s.epoch, s.journal)
    BY DEF HeadAt, Pages, Held, Longest, Heads
  <2> QED BY <2>3, <2>4
<1> QED BY <1>1, <1>2 DEF AH!AHInit

-----------------------------------------------------------------------------
(* The theorems                                                            *)

\* The strengthening every theorem rests on holds throughout.
THEOREM SyncInvariance ==
  ASSUME SyncAssumption
  PROVE  Spec => []SyncInv
<1>1. Init => SyncInv
  BY InitSound
<1>2. SyncInv /\ [Next]_vars => SyncInv'
  BY NextSound DEF StepSound
<1> QED BY <1>1, <1>2, PTL DEF Spec

\* The journal, the cursor, the Portal's pages, the requests on their way and
\* every call have their types.
THEOREM TypeCorrect ==
  ASSUME SyncAssumption
  PROVE  Spec => []TypeOK
<1>1. SyncInv => TypeOK
  BY DEF SyncInv, TypeInv, TypeOK, ProcType, Network
<1> QED BY <1>1, SyncInvariance, PTL

\* A stored page continues the cursor it is stored with, in its epoch and journal,
\* so that the validation of a restored page (portal-memory-sync.mjs) refuses
\* none that this client wrote.
THEOREM StoredPageContinues ==
  ASSUME SyncAssumption
  PROVE  Spec => []PendingContinues
<1>1. SyncInv => PendingContinues
  BY DEF SyncInv, CursorSound, PendingContinues
<1> QED BY <1>1, SyncInvariance, PTL

\* "Up to date" is returned only for a journal the Portal holds of the enrollment
\* asked about, and no late answer overwrites a terminal status, but for the
\* refused page TerminalStays names.
THEOREM SyncReportsTruly ==
  ASSUME SyncAssumption
  PROVE  Spec => SyncIsTrue
<1>1. SyncInv /\ [Next]_vars => UpToDateIsTrue /\ TerminalStays
  BY NextSound DEF StepSound
<1> QED BY <1>1, SyncInvariance, PTL DEF Spec, SyncIsTrue

\* The cursor implements an acknowledged history (module AckedHistory): what it
\* says the Portal holds is held, only grows, and starts again only as another
\* stream.
THEOREM SyncImplementsAckedHistory ==
  ASSUME SyncAssumption
  PROVE  Spec => ImplementsAckedHistory
<1>1. Init => AH!AHInit
  BY InitImplements
<1>2. SyncInv /\ [Next]_vars => AH!AHStep
  BY NextSound, StepImplements
<1> QED BY <1>1, <1>2, SyncInvariance, PTL DEF Spec, ImplementsAckedHistory, AH!AHSpec, AH!AHStep

-----------------------------------------------------------------------------
(* One body of each page, until the stream may be left                     *)

\* The page is the stored one, or starts before the position of the cursor.
Known(c, page) ==
  /\ c # None /\ c.journal # None /\ page # None /\ OnStream(c, page)
  /\ page = c.pending \/ Len(page.id.from) < Len(c.head)
\* What is adopted lies beyond the start of the page.
Further(r) ==
  /\ r.pc = "answered" /\ r.ans.is = "mismatch" => r.ans.at # r.page.id.from
  /\ r.pc = "adopting" => r.seen # r.page.id.from
CallKnown(r, c) ==
  /\ r.pc # "resync" /\ r.cfg \in {None, config} /\ Further(r)
  /\ r.st # None /\ r.st.pending # None => Known(c, r.st.pending)
  /\ r.page # None => Known(c, r.page)
Bodies ==
  /\ cursor # None => cursor.enr = config
  /\ \A p \in Procs : CallKnown(proc[p], cursor)
  /\ \A m \in net : Known(cursor, m.page)
BodyInv == changes \in Nat /\ (changes = 0 => Bodies)

\* The file keeps its position and its page.
SamePlace(c, d) == d # None /\ d.enr = c.enr /\ d.journal = c.journal /\ d.epoch = c.epoch /\ d.head = c.head
                   /\ d.pending = c.pending

LEMMA PlaceKeeps ==
  ASSUME NEW c, NEW d, c # None, SamePlace(c, d), NEW g, Known(c, g)
  PROVE  Known(d, g)
BY DEF SamePlace, Known, OnStream

\* A page that is stored is known.
LEMMA StoredKnown ==
  ASSUME NEW c, NEW Q, CursorSound(c, Q), c # None, c.pending # None
  PROVE  Known(c, c.pending)
BY DEF CursorSound, Known

\* A step of one call.
LEMMA BodyStep ==
  ASSUME Bodies, NEW p \in Procs, config' = config, \A q \in Procs \ {p} : proc'[q] = proc[q],
         CallKnown(proc'[p], cursor'), cursor' # None => cursor'.enr = config,
         \A g : Known(cursor, g) => Known(cursor', g),
         \A m \in net' : m \in net \/ Known(cursor', m.page)
  PROVE  Bodies'
<1>1. ASSUME NEW q \in Procs, q # p PROVE CallKnown(proc'[q], cursor')
  <2>1. CallKnown(proc[q], cursor) /\ proc'[q] = proc[q]
    BY <1>1 DEF Bodies
  <2> QED BY <2>1 DEF CallKnown
<1>2. ASSUME NEW q \in Procs PROVE CallKnown(proc[q], cursor)'
  <2>1. CallKnown(proc'[q], cursor')
    BY <1>1
  <2> QED BY <2>1 DEF CallKnown
<1>3. \A m \in net' : Known(cursor', m.page)
  BY DEF Bodies
<1> QED BY <1>2, <1>3 DEF Bodies, Known

\* Its call ends, and the file keeps its place.
LEMMA BodyEnds ==
  ASSUME SyncInv, Bodies, NEW p \in Procs, config' = config, End(p), net' \subseteq net,
         cursor' = cursor \/ (cursor # None /\ SamePlace(cursor, cursor'))
  PROVE  Bodies'
<1>1. proc'[p] = Idle /\ \A q \in Procs \ {p} : proc'[q] = proc[q]
  BY DEF End, SyncInv, TypeInv
<1>2. CallKnown(Idle, cursor')
  BY DEF CallKnown, Further, Idle
<1>3. cursor' # None => cursor'.enr = config
  BY DEF Bodies, SamePlace
<1>4. \A g : Known(cursor, g) => Known(cursor', g)
  BY PlaceKeeps
<1> QED BY <1>1, <1>2, <1>3, <1>4, BodyStep

LEMMA StatusPlace ==
  ASSUME SyncAssumption, SyncInv, cursor # None,
         NEW s \in Terminal \cup {"active", "server-incompatible"}, cursor' = SetStatus(s)
  PROVE  SamePlace(cursor, cursor')
<1>1. cursor \in Cursor
  BY DEF SyncInv, TypeInv
<1>2. PICK c \in Cursor : c = SetStatus(s)
  BY StatusSet
<1>3. /\ c # None /\ c.enr = cursor.enr /\ c.journal = cursor.journal /\ c.epoch = cursor.epoch
      /\ c.head = cursor.head /\ c.pending = cursor.pending
  BY <1>1, <1>2, CursorFields DEF Cursor, SetStatus
<1> QED BY <1>2, <1>3 DEF SamePlace

\* What Bodies says of one call.
LEMMA CallFacts ==
  ASSUME SyncInv, Bodies, NEW p \in Procs
  PROVE  /\ CallKnown(proc[p], cursor) /\ proc[p] \in ProcType
         /\ cursor \in Cursor \cup {None} /\ (cursor # None => cursor.enr = config)
         /\ CursorSound(cursor, portal) /\ CallSound(proc[p], portal)
         /\ proc \in [Procs -> ProcType] /\ net \subseteq Network
BY DEF SyncInv, TypeInv, Bodies

\* A step of one call that leaves the file and sends nothing.
LEMMA BodyQuiet ==
  ASSUME SyncInv, Bodies, NEW p \in Procs, config' = config, cursor' = cursor, net' \subseteq net,
         NEW r, proc' = [proc EXCEPT ![p] = r], CallKnown(r, cursor)
  PROVE  Bodies'
<1>1. proc'[p] = r /\ \A q \in Procs \ {p} : proc'[q] = proc[q]
  BY DEF SyncInv, TypeInv
<1>2. cursor' # None => cursor'.enr = config
  BY DEF Bodies
<1> QED BY <1>1, <1>2, BodyStep

LEMMA BeginBody ==
  ASSUME SyncInv, Bodies, NEW p \in Procs, Begin(p)
  PROVE  Bodies'
<1>1. /\ proc' = [proc EXCEPT ![p] = [Idle EXCEPT !.pc = "binding", !.cfg = config]]
      /\ config' = config /\ cursor' = cursor /\ net' = net
  BY DEF Begin, world
<1>2. CallKnown([Idle EXCEPT !.pc = "binding", !.cfg = config], cursor)
  BY DEF CallKnown, Further, Idle
<1> QED BY <1>1, <1>2, BodyQuiet

LEMMA BindBody ==
  ASSUME SyncAssumption, SyncInv, SyncInv', Bodies, NEW p \in Procs, Bind(p)
  PROVE  Bodies'
<1>1. config' = config /\ net' = net /\ portal' = portal /\ cursor' = BoundCursor(p) /\ proc[p].pc = "binding"
  BY DEF Bind, world, At
<1>2. CallKnown(proc[p], cursor) /\ proc[p] \in ProcType /\ proc \in [Procs -> ProcType]
  BY CallFacts
<1>3. cursor' = cursor \/ (cursor = None /\ cursor' = Fresh(config, None, 1))
  BY <1>1 DEF BoundCursor, Bodies
<1>4. \A g : Known(cursor, g) => Known(cursor', g)
  BY <1>3 DEF Known
<1>5. cursor' # None => cursor'.enr = config
  BY <1>3 DEF Bodies, Fresh
<1>6. \A q \in Procs \ {p} : proc'[q] = proc[q]
  BY <1>2 DEF Bind, End
<1>7. CallKnown(proc'[p], cursor')
  <2>1. CASE End(p)
    BY <1>2, <2>1 DEF End, CallKnown, Further, Idle
  <2>2. CASE proc' = [proc EXCEPT ![p] = [@ EXCEPT !.pc = "probing", !.st = cursor']]
    <3>1. /\ proc'[p].pc = "probing" /\ proc'[p].st = cursor' /\ proc'[p].page = proc[p].page
          /\ proc'[p].cfg = proc[p].cfg
      BY <1>2, <2>2 DEF ProcType
    <3>2. CursorSound(cursor', portal')
      BY DEF SyncInv
    <3>3. cursor' # None /\ cursor'.pending # None => Known(cursor', cursor'.pending)
      BY <3>2, StoredKnown
    <3> QED BY <1>2, <1>4, <3>1, <3>3 DEF CallKnown, Further
  <2> QED BY <2>1, <2>2 DEF Bind
<1> QED BY <1>1, <1>4, <1>5, <1>6, <1>7, BodyStep

LEMMA ProbeBody ==
  ASSUME SyncAssumption, SyncInv, SyncInv', Bodies, NEW p \in Procs, Probe(p)
  PROVE  Bodies'
<1>1. config' = config /\ net' = net /\ portal' = portal /\ proc[p].pc = "probing"
  BY DEF Probe, world, At
<1>2. /\ CallKnown(proc[p], cursor) /\ proc[p] \in ProcType /\ proc \in [Procs -> ProcType]
      /\ cursor # None => cursor.enr = config
  BY CallFacts
<1>3. cursor' = cursor \/ (cursor # None /\ SamePlace(cursor, cursor'))
  <2>1. "active" \in Terminal \cup {"active", "server-incompatible"}
        /\ "server-incompatible" \in Terminal \cup {"active", "server-incompatible"}
    OBVIOUS
  <2>2. \/ cursor' = cursor
        \/ cursor # None /\ (cursor' = SetStatus("active") \/ cursor' = SetStatus("server-incompatible"))
    BY DEF Probe, Bound
  <2> QED BY <2>1, <2>2, StatusPlace
<1>4. \A g : Known(cursor, g) => Known(cursor', g)
  BY <1>3, PlaceKeeps
<1>5. cursor' # None => cursor'.enr = config
  BY <1>2, <1>3 DEF SamePlace
<1>6. CASE End(p)
  BY <1>1, <1>3, <1>6, BodyEnds
<1>7. CASE proc' = [proc EXCEPT ![p].pc = "round",
             ![p].st = IF proc[p].st.status = "server-incompatible" THEN cursor' ELSE @]
  <2>1. /\ proc'[p].pc = "round" /\ proc'[p].page = proc[p].page /\ proc'[p].cfg = proc[p].cfg
        /\ proc'[p].st = cursor' \/ proc'[p].st = proc[p].st
        /\ \A q \in Procs \ {p} : proc'[q] = proc[q]
    BY <1>2, <1>7 DEF ProcType
  <2>2. CursorSound(cursor', portal')
    BY DEF SyncInv
  <2>3. cursor' # None /\ cursor'.pending # None => Known(cursor', cursor'.pending)
    BY <2>2, StoredKnown
  <2>4. CallKnown(proc'[p], cursor')
    BY <1>2, <1>4, <2>1, <2>3 DEF CallKnown, Further
  <2> QED BY <1>1, <1>4, <1>5, <2>1, <2>4, BodyStep
<1> QED BY <1>6, <1>7 DEF Probe

LEMMA RoundBody ==
  ASSUME SyncInv, Bodies, NEW p \in Procs, Round(p)
  PROVE  Bodies'
<1>1. config' = config /\ net' = net /\ cursor' = cursor
  BY DEF Round, world
<1>2. CallKnown(proc[p], cursor) /\ proc[p] \in ProcType /\ proc \in [Procs -> ProcType]
  BY CallFacts
<1>3. CASE End(p)
  BY <1>1, <1>3, BodyEnds
<1>4. ASSUME proc[p].st # None,
             proc' = [proc EXCEPT ![p].pc = IF proc[p].st.pending = None THEN "reading" ELSE "sending",
                                  ![p].page = proc[p].st.pending,
                                  ![p].st = IF proc[p].st.pending = None THEN proc[p].st ELSE None]
      PROVE  Bodies'
  <2>1. /\ proc'[p].pc \in {"reading", "sending"} /\ proc'[p].cfg = proc[p].cfg
        /\ proc'[p].page = proc[p].st.pending /\ proc'[p].st \in {proc[p].st, None}
        /\ \A q \in Procs \ {p} : proc'[q] = proc[q]
    BY <1>2, <1>4 DEF ProcType
  <2>2. CallKnown(proc'[p], cursor)
    BY <1>2, <1>4, <2>1 DEF CallKnown, Further
  <2>3. cursor' # None => cursor'.enr = config
    BY <1>1 DEF Bodies
  <2> QED BY <1>1, <2>1, <2>2, <2>3, BodyStep
<1> QED BY <1>3, <1>4 DEF Round

\* A step that moves a call on with what it has.
LEMMA BodyOn ==
  ASSUME SyncInv, Bodies, NEW p \in Procs, config' = config, cursor' = cursor, net' \subseteq net,
         \A q \in Procs \ {p} : proc'[q] = proc[q], proc'[p].cfg = proc[p].cfg,
         proc'[p].page = proc[p].page, proc'[p].st \in {proc[p].st, None},
         proc'[p].pc # "resync", Further(proc'[p])
  PROVE  Bodies'
<1>1. CallKnown(proc[p], cursor)
  BY CallFacts
<1>2. CallKnown(proc'[p], cursor)
  BY <1>1 DEF CallKnown
<1>3. cursor' # None => cursor'.enr = config
  BY DEF Bodies
<1> QED BY <1>2, <1>3, BodyStep

LEMMA ReadBody ==
  ASSUME SyncInv, Bodies, NEW p \in Procs, Read(p)
  PROVE  Bodies'
<1>1. config' = config /\ net' = net /\ cursor' = cursor
  BY DEF Read, world
<1>2. /\ proc'[p].pc \in {"read", "diverged"} /\ proc'[p].cfg = proc[p].cfg
      /\ proc'[p].page = proc[p].page /\ proc'[p].st = proc[p].st
      /\ \A q \in Procs \ {p} : proc'[q] = proc[q]
  BY CallFacts DEF Read, ProcType
<1> QED BY <1>1, <1>2, BodyOn DEF Further

LEMMA EndBody ==
  ASSUME SyncAssumption, SyncInv, Bodies, NEW p \in Procs,
         JournalChanged(p) \/ UpToDate(p) \/ Unverifiable(p) \/ SourceUnavailable(p) \/ Stop(p) \/ HandleFailure(p)
  PROVE  Bodies'
<1>1. config' = config /\ net' = net
  BY DEF JournalChanged, UpToDate, Unverifiable, SourceUnavailable, Stop, HandleFailure, world
<1>2. CASE JournalChanged(p) \/ Unverifiable(p)
  <2>1. "reset-required" \in Terminal \cup {"active", "server-incompatible"}
    BY DEF Terminal
  <2>2. End(p) /\ (cursor' = cursor \/ (cursor # None /\ cursor' = SetStatus("reset-required")))
    BY <1>2 DEF JournalChanged, Unverifiable, Update, CursorBound, PageBound, StreamBound, Bound
  <2> QED BY <1>1, <2>1, <2>2, StatusPlace, BodyEnds
<1>3. CASE SourceUnavailable(p) \/ Stop(p)
  BY <1>1, <1>3, BodyEnds DEF SourceUnavailable, Stop, End
<1>4. CASE UpToDate(p)
  <2>1. CASE End(p)
    BY <1>1, <1>4, <2>1, BodyEnds DEF UpToDate
  <2>2. CASE Claim(p)
    <3>1. /\ proc'[p].pc = "up-to-date" /\ proc'[p].cfg = proc[p].cfg
          /\ proc'[p].page = proc[p].page /\ proc'[p].st = None
          /\ \A q \in Procs \ {p} : proc'[q] = proc[q]
      BY <2>2, CallFacts DEF Claim, ProcType
    <3> QED BY <1>1, <1>4, <3>1, BodyOn DEF Further, UpToDate
  <2> QED BY <1>4, <2>1, <2>2 DEF UpToDate
<1>5. CASE HandleFailure(p)
  <2>1. End(p) /\ proc[p].pc = "answered"
    BY <1>5 DEF HandleFailure, Update, At
  <2>2. CASE ~PageBound(p)
    BY <1>1, <1>5, <2>1, <2>2, BodyEnds DEF HandleFailure, Update
  <2>3. CASE PageBound(p)
    <3>1. cursor # None /\ cursor' = SetStatus(StatusAfter(proc[p].ans.is))
      BY <1>5, <2>3 DEF HandleFailure, Update, PageBound, StreamBound, Bound
    <3>2. cursor.status \in Terminal \cup {"active", "server-incompatible"}
      BY <3>1 DEF SyncInv, TypeInv, Cursor
    <3>3. StatusAfter(proc[p].ans.is) \in Terminal \cup {"active", "server-incompatible"}
      BY <3>2 DEF StatusAfter, Terminal
    <3> QED BY <1>1, <2>1, <3>1, <3>3, StatusPlace, BodyEnds
  <2> QED BY <2>2, <2>3
<1> QED BY <1>2, <1>3, <1>4, <1>5

LEMMA AgainKnown ==
  ASSUME SyncInv, SyncInv', Bodies, NEW p \in Procs, NEW pc \in {"round", "next"}, Again(p, pc)
  PROVE  CallKnown(proc'[p], cursor') /\ \A q \in Procs \ {p} : proc'[q] = proc[q]
<1>1. CallKnown(proc[p], cursor) /\ proc[p] \in ProcType /\ proc \in [Procs -> ProcType]
  BY CallFacts
<1>2. /\ proc'[p].pc = pc /\ proc'[p].cfg = proc[p].cfg /\ proc'[p].page = None /\ proc'[p].st = cursor'
      /\ \A q \in Procs \ {p} : proc'[q] = proc[q]
  BY <1>1 DEF Again, ProcType
<1>3. CursorSound(cursor', portal')
  BY DEF SyncInv
<1>4. cursor' # None /\ cursor'.pending # None => Known(cursor', cursor'.pending)
  BY <1>3, StoredKnown
<1> QED BY <1>1, <1>2, <1>4 DEF CallKnown, Further

LEMMA StorePageBody ==
  ASSUME SyncAssumption, SyncInv, SyncInv', Bodies, NEW p \in Procs, StorePage(p)
  PROVE  Bodies'
<1>1. config' = config /\ net' = net /\ portal' = portal /\ proc[p].pc = "read"
  BY DEF StorePage, SameJournal, world, At
<1>2. /\ CallKnown(proc[p], cursor) /\ proc[p] \in ProcType /\ proc \in [Procs -> ProcType]
      /\ cursor # None => cursor.enr = config
  BY CallFacts
<1>3. CASE LostRace(p)
  <2>1. cursor' = cursor /\ Again(p, "round")
    BY <1>3 DEF LostRace
  <2>2. CallKnown(proc'[p], cursor') /\ \A q \in Procs \ {p} : proc'[q] = proc[q]
    BY <2>1, AgainKnown
  <2> QED BY <1>1, <1>2, <2>1, <2>2, BodyStep
<1>4. CASE /\ CursorBound(p)
           /\ cursor' = [cursor EXCEPT !.journal = Identity(proc[p].seen), !.pending = BuildPage(p)]
           /\ proc' = [proc EXCEPT ![p] = [@ EXCEPT !.pc = "sending", !.page = BuildPage(p), !.seen = <<>>, !.st = None]]
  <2>1. /\ cursor \in Cursor /\ cursor # None /\ cursor.enr = config /\ cursor.journal = proc[p].st.journal
        /\ cursor.pending = None /\ proc[p].st \in Cursor /\ CursorSound(proc[p].st, portal)
    BY <1>1, <1>4, ReadFacts
  <2>2. PICK st \in Cursor : st = proc[p].st
    BY <2>1
  <2>3. PICK seen \in Histories : seen = proc[p].seen
    BY Basics
  <2>4. IsPrefix(st.head, seen) /\ seen # st.head
    BY <1>1, <2>2, <2>3, Basics DEF CallSound, StorePage
  <2>5. PICK page \in Page : page = BuildPage(p) /\ page # None
    BY <2>2, <2>3, <2>4, BuiltPage DEF SyncAssumption
  <2>6. PICK j \in Identities : j = Identity(proc[p].seen) /\ j # None
    BY <2>2, <2>3, <2>4, BuiltPage
  <2>7. PICK c \in Cursor : c = [cursor EXCEPT !.journal = j, !.pending = page]
    BY <2>1 DEF Cursor
  <2>8. /\ c # None /\ c.enr = cursor.enr /\ c.journal = j /\ c.epoch = cursor.epoch
        /\ c.head = cursor.head /\ c.pending = page /\ cursor' = c
    BY <1>4, <2>1, <2>5, <2>6, <2>7, CursorFields DEF Cursor
  <2>9. CursorSound(cursor', portal')
    BY DEF SyncInv
  <2>10. Known(cursor', page)
    BY <2>5, <2>8, <2>9, StoredKnown
  <2>11. cursor.journal \in {None, j}
    BY <1>1, <2>1, <2>6 DEF StorePage, SameJournal
  <2>12. \A g : Known(cursor, g) => Known(cursor', g)
    BY <2>1, <2>8, <2>11 DEF Known, OnStream
  <2>13. /\ proc'[p].pc = "sending" /\ proc'[p].page = page /\ proc'[p].st = None /\ proc'[p].cfg = proc[p].cfg
         /\ \A q \in Procs \ {p} : proc'[q] = proc[q]
    BY <1>2, <1>4, <2>5 DEF ProcType
  <2>14. CallKnown(proc'[p], cursor')
    BY <1>2, <2>10, <2>13 DEF CallKnown, Further
  <2> QED BY <1>1, <2>1, <2>8, <2>12, <2>13, <2>14, BodyStep
<1> QED BY <1>3, <1>4 DEF StorePage

LEMMA SendBody ==
  ASSUME SyncAssumption, SyncInv, Bodies, NEW p \in Procs, Send(p)
  PROVE  Bodies'
<1>1. config' = config /\ cursor' = cursor /\ proc[p].pc = "sending"
  BY DEF Send, world, At
<1>2. /\ CallKnown(proc[p], cursor) /\ proc[p] \in ProcType /\ proc \in [Procs -> ProcType]
      /\ cursor # None => cursor.enr = config
  BY CallFacts
<1>3. CASE net' = net /\ End(p)
  BY <1>1, <1>3, BodyEnds
<1>4. CASE /\ net' = net \cup {[to |-> config, page |-> proc[p].page, from |-> p]}
           /\ proc' = [proc EXCEPT ![p].pc = "posted"]
  <2>1. /\ proc'[p].pc = "posted" /\ proc'[p].cfg = proc[p].cfg
        /\ proc'[p].page = proc[p].page /\ proc'[p].st = proc[p].st
        /\ \A q \in Procs \ {p} : proc'[q] = proc[q]
    BY <1>2, <1>4 DEF ProcType
  <2>2. proc[p].page # None
    BY <1>1, Basics DEF CallSound
  <2>3. Known(cursor', proc[p].page)
    BY <1>1, <1>2, <2>2 DEF CallKnown
  <2>4. CallKnown(proc'[p], cursor')
    BY <1>1, <1>2, <2>1 DEF CallKnown, Further
  <2>5. \A m \in net' : m \in net \/ Known(cursor', m.page)
    BY <1>4, <2>3
  <2> QED BY <1>1, <1>2, <2>1, <2>4, <2>5, BodyStep
<1> QED BY <1>3, <1>4 DEF Send

\* Beyond the page is what it ends with, and what the Portal holds if it took another.
LEMMA LocateBody ==
  ASSUME SyncAssumption, SyncInv, Bodies, NEW p \in Procs, Locate(p)
  PROVE  Bodies'
<1> DEFINE ans == proc[p].ans
           id == proc[p].page.id
           pc == IF ans.is = "mismatch" /\ ~Verified(ans.at) THEN "reset" ELSE "adopting"
           seen == IF ans.is = "mismatch" \/ (Len(ans.at) > Len(id.to) /\ Verified(ans.at)) THEN ans.at ELSE id.to
<1>1. /\ net' = net /\ proc[p].pc = "answered" /\ ans.is \in {"ack", "mismatch"}
      /\ cursor' = cursor /\ config' = config
  BY DEF Locate, At, world
<1>2. CallKnown(proc[p], cursor) /\ proc[p] \in ProcType /\ proc \in [Procs -> ProcType]
  BY CallFacts
<1>3. /\ ans \in Answer /\ proc[p].page \in Page
  BY <1>1, Basics DEF CallSound, Judged
<1>4. /\ id \in PageId /\ Len(id.from) \in Nat /\ Len(id.to) \in Nat /\ Len(id.from) < Len(id.to)
      /\ id.from # id.to
  BY <1>3, PageFacts DEF Page
<1>5. CASE End(p)
  BY <1>1, <1>5, BodyEnds
<1>6. CASE proc' = [proc EXCEPT ![p].pc = pc, ![p].seen = seen]
  <2>1. seen # id.from /\ pc \in {"reset", "adopting"}
    <3>1. CASE ans.is = "mismatch"
      BY <1>1, <1>2, <3>1 DEF CallKnown, Further
    <3>2. CASE ans.is = "ack" /\ Len(ans.at) > Len(id.to)
      <4>1. ans.at # id.from
        <5>1. ans.at \in Seq(Events)
          BY <1>3, HistoriesClosed DEF Answer
        <5>2. Len(ans.at) \in Nat
          BY <5>1
        <5> HIDE DEF ans, id
        <5> QED BY <1>4, <3>2, <5>2
      <4> QED BY <1>4, <4>1
    <3>3. CASE ans.is = "ack" /\ ~(Len(ans.at) > Len(id.to))
      BY <1>4, <3>3
    <3> QED BY <1>1, <3>1, <3>2, <3>3
  <2> HIDE DEF seen, pc
  <2>2. /\ proc'[p].pc = pc /\ proc'[p].seen = seen /\ proc'[p].cfg = proc[p].cfg
        /\ proc'[p].page = proc[p].page /\ proc'[p].st = proc[p].st
        /\ \A q \in Procs \ {p} : proc'[q] = proc[q]
    BY <1>2, <1>6 DEF ProcType
  <2>3. Further(proc'[p]) /\ proc'[p].pc # "resync"
    BY <2>1, <2>2 DEF Further
  <2> QED BY <1>1, <2>2, <2>3, BodyOn
<1> QED BY <1>5, <1>6 DEF Locate

LEMMA AdoptBody ==
  ASSUME SyncAssumption, SyncInv, SyncInv', Bodies, NEW p \in Procs, Adopt(p)
  PROVE  Bodies'
<1> DEFINE seen == proc[p].seen
           id == proc[p].page.id
<1>1. /\ net' = net /\ proc[p].pc = "adopting" /\ config' = config
      /\ cursor' = IF PageBound(p)
                   THEN [cursor EXCEPT !.head = seen, !.pending = None,
                                       !.status = IF proc[p].ans.is = "ack" THEN "active" ELSE @]
                   ELSE cursor
      /\ End(p) \/ Again(p, "next")
  BY DEF Adopt, At, world
<1>2. /\ CallKnown(proc[p], cursor) /\ proc[p] \in ProcType /\ proc \in [Procs -> ProcType]
      /\ cursor # None => cursor.enr = config
  BY CallFacts
<1>3. /\ proc[p].page \in Page /\ seen \in Histories /\ IsPrefix(id.from, seen)
  BY <1>1, Basics DEF CallSound, Judged
<1>4. /\ cursor' # None => cursor'.enr = config
      /\ \A g : Known(cursor, g) => Known(cursor', g)
  <2>1. CASE ~PageBound(p)
    BY <1>1, <1>2, <2>1
  <2>2. CASE PageBound(p)
    <3>1. /\ cursor \in Cursor /\ cursor # None /\ cursor.pending # None /\ cursor.pending.id = id
          /\ cursor.head = id.from /\ cursor.journal # None
      BY <1>3, <2>2, PageFound
    <3>2. cursor.status \in Terminal \cup {"active", "server-incompatible"}
      BY <3>1 DEF Cursor
    <3>3. PICK s \in Terminal \cup {"active", "server-incompatible"} :
            s = IF proc[p].ans.is = "ack" THEN "active" ELSE cursor.status
      BY <3>2
    <3>4. PICK c \in Cursor : c = [cursor EXCEPT !.head = seen, !.pending = None, !.status = s]
      BY <1>3, <3>1 DEF Cursor
    <3>5. /\ c # None /\ c.enr = cursor.enr /\ c.journal = cursor.journal /\ c.epoch = cursor.epoch
          /\ c.head = seen /\ c.pending = None /\ cursor' = c
      BY <1>1, <2>2, <3>1, <3>3, <3>4, CursorFields DEF Cursor
    <3>6. Len(cursor.head) < Len(seen) /\ Len(cursor.head) \in Nat /\ Len(seen) \in Nat
      <4>1. id.from \in Seq(Events) /\ seen \in Seq(Events) /\ seen # id.from
        BY <1>1, <1>2, <1>3, HistoriesClosed, PageFacts DEF CallKnown, Further, Page
      <4>2. Len(id.from) < Len(seen) /\ Len(id.from) \in Nat /\ Len(seen) \in Nat
        BY <1>3, <4>1, PrefixLonger
      <4> QED BY <3>1, <4>2
    <3>7. ASSUME NEW g, Known(cursor, g) PROVE Known(c, g)
      <4>1. CASE g = cursor.pending
        <5>1. Len(g.id.from) < Len(c.head)
          BY <3>1, <3>5, <3>6, <4>1
        <5> QED BY <3>5, <3>7, <5>1 DEF Known, OnStream
      <4>2. CASE Len(g.id.from) < Len(cursor.head)
        <5>1. Len(g.id.from) < Len(c.head)
          BY <3>5, <3>6, <4>2
        <5> QED BY <3>5, <3>7, <5>1 DEF Known, OnStream
      <4> QED BY <3>7, <4>1, <4>2 DEF Known
    <3> QED BY <1>2, <3>1, <3>5, <3>7
  <2> QED BY <2>1, <2>2
<1>5. CallKnown(proc'[p], cursor') /\ \A q \in Procs \ {p} : proc'[q] = proc[q]
  <2>1. CASE End(p)
    BY <1>2, <2>1 DEF End, CallKnown, Further, Idle
  <2>2. CASE Again(p, "next")
    BY <2>2, AgainKnown
  <2> QED BY <1>1, <2>1, <2>2
<1> QED BY <1>1, <1>4, <1>5, BodyStep

LEMMA TakesBody ==
  ASSUME SyncAssumption, SyncInv, SyncInv', Bodies, NEW m \in net, NEW got \in BOOLEAN, Takes(m, got)
  PROVE  Bodies'
<1> DEFINE id == m.page.id
           v == Verdict(m.to, id)
           is == IF v \in {"accepted", "duplicate"} THEN "ack" ELSE v
           p == m.from
           waits == At(p, "posted") /\ proc[p].page = m.page /\ proc[p].cfg = m.to
<1>1. /\ p \in Procs /\ m.to \in Enrollments /\ m.page \in Page /\ id \in PageId
      /\ net' \subseteq net /\ cursor' = cursor /\ config' = config
  BY DEF SyncInv, TypeInv, Network, Page, Takes, world
<1>2. CallKnown(proc[p], cursor) /\ proc[p] \in ProcType /\ proc \in [Procs -> ProcType]
  BY <1>1, CallFacts
<1>3. CASE proc' = proc
  BY <1>1, <1>2, <1>3, BodyQuiet
<1>4. CASE /\ waits
           /\ proc' = [proc EXCEPT ![p].pc = "answered", ![p].ans = [is |-> is, at |-> HeadAt(m.to, id)']]
  <2>1. /\ proc'[p].pc = "answered" /\ proc'[p].cfg = proc[p].cfg /\ proc'[p].st = proc[p].st
        /\ proc'[p].page = m.page /\ proc'[p].ans = [is |-> is, at |-> HeadAt(m.to, id)']
        /\ \A q \in Procs \ {p} : proc'[q] = proc[q]
    BY <1>1, <1>2, <1>4 DEF ProcType
  <2>2. /\ proc[p].pc = "posted" /\ proc[p].page = m.page
        /\ IsPrefix(id.from, HeldFor(portal, m.to, id))
    BY <1>1, <1>4, Basics DEF CallSound, At
  <2>3. ASSUME is = "mismatch"
        PROVE  HeadAt(m.to, id)' # id.from
    <3>1. v = "mismatch"
      BY <2>3
    <3>2. portal' = portal
      BY <3>1 DEF Takes
    <3>3. HeadAt(m.to, id)' = HeldFor(portal, m.to, id)
      BY <3>2 DEF HeadAt, Pages, HeldFor, Held, Longest, Heads
    <3>4. Never(portal, m.to, id)
      BY <1>1, <2>2, <3>1, Basics, Verdicts
    <3> QED BY <3>3, <3>4 DEF Never
  <2>4. Further(proc'[p])
    <3>1. proc'[p].ans.is = is /\ proc'[p].ans.at = HeadAt(m.to, id)'
      BY <2>1
    <3> HIDE DEF is, id
    <3>2. proc'[p].page.id = id
      BY <2>1 DEF id
    <3> QED BY <2>1, <2>3, <3>1, <3>2 DEF Further
  <2>5. proc'[p].page = proc[p].page
    BY <2>1, <2>2
  <2> HIDE DEF id, is, v
  <2> QED BY <1>1, <2>1, <2>4, <2>5, BodyOn
<1> QED BY <1>3, <1>4 DEF Takes

\* An answer without a position, or none in time.
LEMMA ErrorBody ==
  ASSUME SyncAssumption, SyncInv, Bodies, NEW p \in Procs, config' = config, cursor' = cursor, net' \subseteq net,
         NEW is \in {"error", "incompatible", "conflict"},
         proc' = [proc EXCEPT ![p].pc = "answered", ![p].ans = [is |-> is, at |-> <<>>]]
  PROVE  Bodies'
<1>1. /\ proc'[p].pc = "answered" /\ proc'[p].cfg = proc[p].cfg /\ proc'[p].st = proc[p].st
      /\ proc'[p].page = proc[p].page /\ proc'[p].ans = [is |-> is, at |-> <<>>]
      /\ \A q \in Procs \ {p} : proc'[q] = proc[q]
  BY CallFacts DEF ProcType
<1>2. Further(proc'[p])
  BY <1>1 DEF Further
<1> QED BY <1>1, <1>2, BodyOn

LEMMA TimeoutBody ==
  ASSUME SyncAssumption, SyncInv, Bodies, NEW p \in Procs, Timeout(p)
  PROVE  Bodies'
<1>1. /\ proc' = [proc EXCEPT ![p].pc = "answered", ![p].ans = [is |-> "error", at |-> <<>>]]
      /\ config' = config /\ cursor' = cursor /\ net' = net
  BY DEF Timeout, world
<1> QED BY <1>1, ErrorBody

LEMMA RefusesBody ==
  ASSUME SyncAssumption, SyncInv, Bodies, NEW m \in net, Refuses(m)
  PROVE  Bodies'
<1>1. m.from \in Procs /\ net' \subseteq net /\ config' = config /\ cursor' = cursor
  BY DEF SyncInv, TypeInv, Network, Refuses, world
<1>2. PICK is \in {"error", "incompatible", "conflict"} :
        proc' = [proc EXCEPT ![m.from].pc = "answered", ![m.from].ans = [is |-> is, at |-> <<>>]]
  BY DEF Refuses
<1> QED BY <1>1, <1>2, ErrorBody

\* A step that is no resync, no other journal and no other enrollment.
LEMMA BodyNext ==
  ASSUME SyncAssumption, SyncInv, BodyInv, [Next]_vars
  PROVE  BodyInv'
<1>1. SyncInv'
  BY NextSound DEF StepSound
<1>2. CASE changes' = changes + 1
  BY <1>2 DEF BodyInv
<1>3. ASSUME changes' = changes, changes = 0, ~(changes' = changes + 1)
      PROVE  Bodies'
  <2>1. Bodies
    BY <1>3 DEF BodyInv
  <2>2. CASE UNCHANGED vars
    BY <2>1, <2>2 DEF vars, Bodies, CallKnown, Further, Known, OnStream
  <2>3. ASSUME NEW p \in Procs, Begin(p) \/ SourceUnavailable(p) \/ Timeout(p) \/ Stop(p)
        PROVE  Bodies'
    BY <2>1, <2>3, BeginBody, EndBody, TimeoutBody
  <2>4. ASSUME NEW p \in Procs, Step(p)
        PROVE  Bodies'
    <3>1. CASE Bind(p) \/ Probe(p) \/ Round(p) \/ Read(p)
      BY <1>1, <2>1, <3>1, BindBody, ProbeBody, RoundBody, ReadBody
    <3>2. CASE JournalChanged(p) \/ UpToDate(p) \/ HandleFailure(p) \/ Unverifiable(p)
      BY <2>1, <3>2, EndBody
    <3>3. CASE StorePage(p) \/ Send(p) \/ Locate(p) \/ Adopt(p)
      BY <1>1, <2>1, <3>3, StorePageBody, SendBody, LocateBody, AdoptBody
    <3>4. ~Resync(p)
      <4>1. proc[p].pc # "resync"
        BY <2>1 DEF Bodies, CallKnown
      <4> QED BY <4>1 DEF Resync, At
    <3> QED BY <2>4, <3>1, <3>2, <3>3, <3>4 DEF Step
  <2>5. ASSUME NEW m \in net, Takes(m, TRUE) \/ Refuses(m) \/ Takes(m, FALSE)
        PROVE  Bodies'
    BY <1>1, <2>1, <2>5, TakesBody, RefusesBody
  <2>6. CASE Append1
    BY <2>1, <2>6 DEF Append1, Bodies, CallKnown, Further, Known, OnStream
  <2>7. /\ \A p \in Procs : ~BeginResync(p)
        /\ \A e \in Enrollments \cup {None} : ~Enroll(e)
        /\ ~Replace
    BY <1>3 DEF BeginResync, Enroll, Replace
  <2> QED BY <2>2, <2>3, <2>4, <2>5, <2>6, <2>7 DEF Next
<1>4. changes' = changes \/ changes' = changes + 1
  <2>1. CASE UNCHANGED vars
    BY <2>1 DEF vars
  <2>2. ASSUME NEW p \in Procs,
               Begin(p) \/ BeginResync(p) \/ SourceUnavailable(p) \/ Timeout(p) \/ Stop(p)
        PROVE  changes' = changes \/ changes' = changes + 1
    BY <2>2 DEF Begin, BeginResync, SourceUnavailable, Timeout, Stop, world
  <2>3. ASSUME NEW p \in Procs, Step(p)
        PROVE  changes' = changes
    BY <2>3 DEF Step, Bind, Probe, Round, Read, JournalChanged, UpToDate, StorePage, Send, HandleFailure,
       Locate, Unverifiable, Adopt, Resync, world
  <2>4. ASSUME NEW m \in net, Takes(m, TRUE) \/ Refuses(m) \/ Takes(m, FALSE)
        PROVE  changes' = changes
    BY <2>4 DEF Takes, Refuses, world
  <2>5. CASE (\E e \in Enrollments \cup {None} : Enroll(e)) \/ Append1 \/ Replace
    BY <2>5 DEF Enroll, Append1, Replace
  <2> QED BY <2>1, <2>2, <2>3, <2>4, <2>5 DEF Next
<1> QED BY <1>2, <1>3, <1>4 DEF BodyInv

LEMMA BodyInit ==
  ASSUME Init
  PROVE  BodyInv
<1>1. cursor = None /\ net = {} /\ proc = [p \in Procs |-> Idle] /\ changes = 0
  BY DEF Init
<1>2. \A p \in Procs : CallKnown(proc[p], cursor)
  BY <1>1 DEF CallKnown, Further, Idle
<1> QED BY <1>1, <1>2 DEF BodyInv, Bodies

LEMMA BodyIsOne ==
  ASSUME SyncAssumption, SyncInv, Bodies
  PROVE  OneBody
<1> SUFFICES ASSUME cursor # None, cursor.pending # None
             PROVE  /\ \A m \in net : m.page.id = cursor.pending.id => m.page = cursor.pending
                    /\ \A p \in Procs : At(p, "sending") /\ IdOf(proc[p].page) = cursor.pending.id
                                          => proc[p].page = cursor.pending
  BY DEF OneBody
<1>1. cursor.pending.id.from = cursor.head /\ cursor.head \in Seq(Events)
  BY CursorFields DEF SyncInv, TypeInv, CursorSound
<1>2. ASSUME NEW g, Known(cursor, g), g.id = cursor.pending.id
      PROVE  g = cursor.pending
  <2>1. g.id.from = cursor.head
    BY <1>1, <1>2
  <2>2. Len(cursor.head) \in Nat
    BY <1>1
  <2>3. ~(Len(g.id.from) < Len(cursor.head))
    BY <2>1, <2>2
  <2> QED BY <1>2, <2>3 DEF Known
<1>3. ASSUME NEW p \in Procs, At(p, "sending"), IdOf(proc[p].page) = cursor.pending.id
      PROVE  proc[p].page = cursor.pending
  <2>1. proc[p].page # None
    BY <1>3, Basics DEF At, CallSound
  <2>2. Known(cursor, proc[p].page)
    BY <2>1 DEF Bodies, CallKnown
  <2> QED BY <1>2, <1>3, <2>1, <2>2 DEF IdOf
<1>4. \A m \in net : Known(cursor, m.page)
  BY DEF Bodies
<1> QED BY <1>2, <1>3, <1>4

\* "A retransmission is byte-identical" (portal-memory-sync.mjs): until the first
\* resync, replaced journal or change of enrollment, a page that is on its way or
\* about to be sent with the id of the stored one has its bytes, for any number
\* of syncs, stops, losses, late answers and refusals.
THEOREM PagesHaveOneBody ==
  ASSUME SyncAssumption
  PROVE  Spec => [](changes = 0 => OneBody)
<1>1. Spec => []BodyInv
  <2>1. Init => BodyInv
    BY BodyInit
  <2>2. SyncInv /\ BodyInv /\ [Next]_vars => BodyInv'
    BY BodyNext
  <2> QED BY <2>1, <2>2, SyncInvariance, PTL DEF Spec
<1>2. SyncInv /\ BodyInv => (changes = 0 => OneBody)
  BY BodyIsOne DEF BodyInv
<1> QED BY <1>1, <1>2, SyncInvariance, PTL

\* Where none of these may come, there is none.
LEMMA NothingChanges ==
  ASSUME SyncAssumption, MaxChanges = 0
  PROVE  Spec => [](changes = 0)
<1>1. Init => changes = 0
  BY DEF Init
<1>2. changes = 0 /\ [Next]_vars => (changes = 0)'
  <2> SUFFICES ASSUME changes = 0, [Next]_vars PROVE changes' = changes
    OBVIOUS
  <2>1. CASE UNCHANGED vars
    BY <2>1 DEF vars
  <2>2. ASSUME NEW p \in Procs,
               Begin(p) \/ BeginResync(p) \/ SourceUnavailable(p) \/ Timeout(p) \/ Stop(p)
        PROVE  changes' = changes
    BY <2>2 DEF Begin, BeginResync, SourceUnavailable, Timeout, Stop, world
  <2>3. ASSUME NEW p \in Procs, Step(p)
        PROVE  changes' = changes
    BY <2>3 DEF Step, Bind, Probe, Round, Read, JournalChanged, UpToDate, StorePage, Send, HandleFailure,
       Locate, Unverifiable, Adopt, Resync, world
  <2>4. ASSUME NEW m \in net, Takes(m, TRUE) \/ Refuses(m) \/ Takes(m, FALSE)
        PROVE  changes' = changes
    BY <2>4 DEF Takes, Refuses, world
  <2>5. CASE (\E e \in Enrollments \cup {None} : Enroll(e)) \/ Append1 \/ Replace
    BY <2>5 DEF Enroll, Append1, Replace
  <2> QED BY <2>1, <2>2, <2>3, <2>4, <2>5 DEF Next
<1> QED BY <1>1, <1>2, PTL DEF Spec

-----------------------------------------------------------------------------
(* The state file, its backup and their lock, for any processes, events,     *)
(* deaths and damaged files, as long as no live holder is slow and no two     *)
(* processes wait for a dead one, and repairs run with no hook at work.       *)

\* An instance has its own copy of the library's operators.
LEMMA StateLibrary == \A S : State!Cardinality(S) = Cardinality(S)
  BY Zenon DEF State!Cardinality, Cardinality

-----------------------------------------------------------------------------
(* The lock *)

\* Where two processes wait for the lock of a dead one, each may read its age and
\* the second remove the lock the first has taken.
StateWaiting(p) == p \notin dead /\ writers[p].pc \in {"want", "evict"}
StateOneWaiter == stateLock \in dead => \A p, q \in Procs : StateWaiting(p) /\ StateWaiting(q) => p = q

Working == {"load", "keep", "save", "release"}
StatePcs == {"idle", "want", "evict", "load", "keep", "save", "release", "planned", "restoring"}
StateProcType == [pc : StatePcs, ev : StateEvents \cup {None}, state : SUBSET StateEvents]
Works(p) == p \notin dead /\ writers[p].pc \in Working
Repairs(p) == p \notin dead /\ writers[p].pc \in {"planned", "restoring"}

\* Whoever works holds the lock; an evictor has found the lock of a dead one;
\* and nobody works beside a repair.
StateLockInv ==
  /\ State!TypeOK
  /\ stateOld => stateLock \in dead
  /\ \A p \in Procs : Works(p) => stateLock = p /\ writers[p].ev \in StateEvents
  /\ \A p \in Procs : State!At(p, "evict") => stateLock \in dead
  /\ \A p \in Procs : StateWaiting(p) => writers[p].ev \in StateEvents
  /\ \A p \in Procs : Repairs(p) => /\ Repair = "alone"
                                    /\ \A q \in Procs \ dead : p # q => State!At(q, "idle")

-----------------------------------------------------------------------------
(* The files *)

\* A file that is not read holds nothing.
StateHolds(f) == f.is \notin {"ok", "newer"} => f.has = {}

\* A live process that has read the files holds all they can still give; it read
\* a state that no newer version wrote, and no newer one comes beside its lock.
StateKept(p) ==
  /\ State!At(p, "keep") \/ State!At(p, "save") =>
             /\ primary.is = "ok" => primary.has \subseteq writers[p].state
             /\ backup.has \subseteq writers[p].state
             /\ writers[p].ev \in writers[p].state
  /\ State!At(p, "save") \/ Repairs(p) => primary.is # "newer"
  /\ Repairs(p) => primary.is \in {"corrupt", "absent"}
  /\ State!At(p, "restoring") => backup.has \subseteq writers[p].state

FilesInv ==
  /\ StateHolds(primary) /\ StateHolds(backup) /\ backup.is # "newer"
  /\ primary.is \in {"ok", "newer"} => backup.has \subseteq primary.has
  /\ \A p \in Procs : StateKept(p)

\* What is recorded: the events whose update returned, or is about to.
Recorded == done \cup {writers[p].ev : p \in {q \in Procs : State!At(q, "release")}}

\* What the damages cost: nothing the state file holds, one event of the backup,
\* unless the state file is damaged itself.
Lacking(R, S) == Cardinality(R \ S)
CostOf(p) ==
  /\ State!At(p, "keep") \/ State!At(p, "save") \/ State!At(p, "restoring") => Lacking(Recorded, writers[p].state) <= damage
  /\ State!At(p, "save") /\ backup.is # "corrupt" => Lacking(Recorded, backup.has) <= damage
CostInv ==
  /\ IsFiniteSet(Recorded) /\ damage \in Nat
  /\ primary.is = "ok" => Lacking(Recorded, primary.has) <= damage
  /\ backup.is # "corrupt" =>
       Lacking(Recorded, backup.has) <= damage + (IF primary.is \in {"ok", "newer"} THEN 1 ELSE 0)
  /\ \A p \in Procs : CostOf(p)

-----------------------------------------------------------------------------
(* Steps *)

\* One case for each action.
LEMMA StateStepCases ==
  ASSUME [State!Next]_State!vars, NEW P,
         UNCHANGED State!vars => P,
         \A p \in Procs : (\E e \in StateEvents : State!Want(p, e)) => P,
         \A p \in Procs : State!Acquire(p) => P,
         \A p \in Procs : State!FindStale(p) \/ State!GivesUp(p) => P,
         \A p \in Procs : State!Evict(p) => P,
         \A p \in Procs : State!Load(p) => P,
         \A p \in Procs : State!LoadFails(p) => P,
         \A p \in Procs : State!KeepBackup(p) => P,
         \A p \in Procs : State!Save(p) => P,
         \A p \in Procs : State!Return(p) => P,
         \A p \in Procs : State!Dies(p) => P,
         \A p \in Procs : State!Plan(p) => P,
         \A p \in Procs : State!Recheck(p) => P,
         \A p \in Procs : State!Restore(p) => P,
         State!Ages => P,
         State!Damaged => P
  PROVE  P
  BY DEF State!Next, State!Step

StateBecomes(p, r) == r \in StateProcType /\ writers'[p] = r /\ writers' \in [Procs -> StateProcType]
                      /\ \A q \in Procs : q # p => writers'[q] = writers[q]

\* What a process becomes.
LEMMA StateBecoming ==
  ASSUME State!TypeOK, NEW p \in Procs, NEW r \in StateProcType, writers' = [writers EXCEPT ![p] = r]
  PROVE  StateBecomes(p, r)
  BY DEF StateBecomes, State!TypeOK, StateProcType, StatePcs

LEMMA StateGoing ==
  ASSUME State!TypeOK, NEW p \in Procs, NEW pc \in StatePcs, State!Goto(p, pc)
  PROVE  \E r \in StateProcType : StateBecomes(p, r) /\ r.pc = pc /\ r.ev = writers[p].ev /\ r.state = writers[p].state
<1> DEFINE r == [writers[p] EXCEPT !.pc = pc]
<1>1. r \in StateProcType /\ r.pc = pc /\ r.ev = writers[p].ev /\ r.state = writers[p].state
  BY DEF StateProcType, StatePcs, State!TypeOK
<1>2. StateBecomes(p, r)
  BY <1>1, StateBecoming DEF State!Goto
<1> QED BY <1>1, <1>2

LEMMA Ending ==
  ASSUME State!TypeOK, NEW p \in Procs, State!Ends(p)
  PROVE  \E r \in StateProcType : StateBecomes(p, r) /\ r.pc = "idle"
<1>1. State!Idle \in StateProcType /\ State!Idle.pc = "idle"
  BY DEF StateProcType, StatePcs, State!Idle
<1> QED BY <1>1, StateBecoming DEF State!Ends

LEMMA Coming ==
  ASSUME State!TypeOK, NEW p \in Procs, NEW e \in StateEvents, State!Want(p, e)
  PROVE  \E r \in StateProcType : StateBecomes(p, r) /\ r.pc = "want" /\ r.ev = e
<1> DEFINE r == [State!Idle EXCEPT !.pc = "want", !.ev = e]
<1>1. r \in StateProcType /\ r.pc = "want" /\ r.ev = e
  BY DEF StateProcType, State!Idle, StatePcs
<1> QED BY <1>1, StateBecoming DEF State!Want

ReadsTo(p, pc, s) == writers' = [writers EXCEPT ![p] = [@ EXCEPT !.pc = pc, !.state = s]]
LEMMA Reading ==
  ASSUME State!TypeOK, NEW p \in Procs, NEW pc \in StatePcs, NEW s \in SUBSET StateEvents, ReadsTo(p, pc, s)
  PROVE  \E r \in StateProcType : StateBecomes(p, r) /\ r.pc = pc /\ r.ev = writers[p].ev /\ r.state = s
<1> DEFINE r == [writers[p] EXCEPT !.pc = pc, !.state = s]
<1>1. r \in StateProcType /\ r.pc = pc /\ r.ev = writers[p].ev /\ r.state = s
  BY DEF StateProcType, StatePcs, State!TypeOK
<1>2. StateBecomes(p, r)
  BY <1>1, StateBecoming DEF ReadsTo
<1> QED BY <1>1, <1>2

\* What the files hold are events.
LEMMA LoadedType == ASSUME State!TypeOK PROVE State!Loaded \subseteq StateEvents /\ primary.has \subseteq StateEvents /\ backup.has \subseteq StateEvents
  BY DEF State!TypeOK, State!Loaded, State!File

-----------------------------------------------------------------------------
(* The lock is kept *)

LEMMA LockInit == ASSUME State!StateAssumption, State!Init PROVE StateLockInv
<1>1. State!Idle \in StateProcType /\ State!Idle.pc = "idle"
  BY DEF StateProcType, StatePcs, State!Idle
<1>2. State!TypeOK
  BY <1>1 DEF State!Init, State!TypeOK, State!File, State!Absent, StateProcType, StatePcs, State!StateAssumption
<1> QED BY <1>1, <1>2 DEF State!Init, StateLockInv, Works, Repairs, StateWaiting, Working, State!At

\* What a process may count on: no other works, none repairs, all are idle.
NoOther(p) == \A q \in Procs : p # q => ~Works(q) /\ ~State!At(q, "evict")
NoRepairBut(p) == \A q \in Procs : p # q => ~Repairs(q)
StateAlone(p) == Repair = "alone" /\ \A q \in Procs \ dead : p # q => State!At(q, "idle")

\* A step of a process that leaves the lock alone.
LEMMA LockLeft ==
  ASSUME StateLockInv, NEW p \in Procs, p \notin dead, NEW r \in StateProcType, StateBecomes(p, r), UNCHANGED <<stateLock, stateOld, dead>>,
         primary' \in State!File, backup' \in State!File, done' \subseteq StateEvents,
         r.pc \in Working => Works(p) /\ r.ev = writers[p].ev,
         r.pc = "evict" => stateLock \in dead,
         r.pc \in {"want", "evict"} => r.ev \in StateEvents,
         r.pc \in {"planned", "restoring"} => StateAlone(p),
         r.pc # "idle" => NoRepairBut(p)
  PROVE  StateLockInv'
<1>1. State!TypeOK'
  BY DEF StateLockInv, State!TypeOK, StateBecomes, StateProcType, StatePcs
<1>2. \A q \in Procs : Works(q)' => stateLock' = q /\ writers'[q].ev \in StateEvents
  BY DEF StateLockInv, Works, StateBecomes
<1>3. \A q \in Procs : State!At(q, "evict")' => stateLock' \in dead'
  BY DEF StateLockInv, State!At, StateBecomes
<1>4. \A q \in Procs : StateWaiting(q)' => writers'[q].ev \in StateEvents
  BY DEF StateLockInv, StateWaiting, StateBecomes
<1>5. \A q \in Procs : Repairs(q)' => Repair = "alone" /\ \A o \in Procs \ dead' : q # o => State!At(o, "idle")'
  BY DEF StateLockInv, Repairs, State!At, StateBecomes, StateAlone, NoRepairBut
<1> QED BY <1>1, <1>2, <1>3, <1>4, <1>5 DEF StateLockInv

\* A step of a process that leaves the lock free.
LEMMA LockFreed ==
  ASSUME State!StateAssumption, StateLockInv, NEW p \in Procs, p \notin dead, NEW r \in StateProcType, StateBecomes(p, r), stateLock' = None, stateOld' = FALSE,
         UNCHANGED dead, primary' \in State!File, backup' \in State!File, done' \subseteq StateEvents,
         r.pc = "idle" \/ (r.pc = "want" /\ r.ev = writers[p].ev /\ writers[p].ev \in StateEvents),
         NoOther(p),
         ~State!At(p, "idle") /\ ~Repairs(p)
  PROVE  StateLockInv'
<1>1. State!TypeOK'
  BY DEF StateLockInv, State!TypeOK, StateBecomes, StateProcType, StatePcs, State!StateAssumption
<1>2. \A q \in Procs : ~Works(q)' /\ ~State!At(q, "evict")'
  BY DEF Works, Working, State!At, StateBecomes, NoOther
<1>3. \A q \in Procs : StateWaiting(q)' => writers'[q].ev \in StateEvents
  BY DEF StateLockInv, StateWaiting, StateBecomes
<1>4. \A q \in Procs : ~Repairs(q)'
  BY DEF StateLockInv, Repairs, State!At, StateBecomes
<1> QED BY <1>1, <1>2, <1>3, <1>4 DEF StateLockInv

\* Whoever works is the only one who works, and the lock is no dead one's.
LEMMA OnlyWorker ==
  ASSUME StateLockInv, NEW p \in Procs, Works(p)
  PROVE  /\ stateLock = p /\ writers[p].ev \in StateEvents /\ p \notin dead
         /\ NoOther(p) /\ NoRepairBut(p) /\ ~Repairs(p)
  BY DEF NoOther, NoRepairBut, StateLockInv, Works, Working, Repairs, State!At

LEMMA LockStep ==
  ASSUME State!StateAssumption, ~Slow, Repair # "any", StateOneWaiter, StateLockInv, [State!Next]_State!vars PROVE StateLockInv'
<1> State!TypeOK
  BY DEF StateLockInv
<1>files. primary \in State!File /\ backup \in State!File /\ done \subseteq StateEvents
  BY DEF State!TypeOK
<1>1. ASSUME UNCHANGED State!vars PROVE StateLockInv'
  BY <1>1 DEF State!vars, State!files, StateLockInv, State!TypeOK, Works, StateWaiting, Repairs, State!At
<1>2. ASSUME NEW p \in Procs, NEW e \in StateEvents, State!Want(p, e) PROVE StateLockInv'
  <2>1. PICK r \in StateProcType : StateBecomes(p, r) /\ r.pc = "want" /\ r.ev = e
    BY <1>2, Coming
  <2>2. NoRepairBut(p)
    BY <1>2 DEF NoRepairBut, State!Want, State!NoRepair, StateLockInv, Repairs, State!At
  <2> QED BY <1>2, <1>files, <2>1, <2>2, LockLeft DEF State!Want, State!files, State!At, Working
<1>3. ASSUME NEW p \in Procs, State!Acquire(p) PROVE StateLockInv'
  <2>1. PICK r \in StateProcType : StateBecomes(p, r) /\ r.pc = "load" /\ r.ev = writers[p].ev
    BY <1>3, StateGoing DEF State!Acquire, StatePcs
  <2>2. State!TypeOK'
    BY <1>3, <2>1 DEF State!Acquire, State!files, State!TypeOK, StateBecomes, StateProcType, StatePcs, State!StateAssumption
  <2>3. \A q \in Procs : ~Works(q) /\ ~State!At(q, "evict") /\ ~Repairs(q)
    BY <1>3 DEF State!Acquire, State!Free, StateLockInv, State!TypeOK, State!StateAssumption, Repairs, State!At, Works
  <2>4. writers[p].ev \in StateEvents
    BY <1>3 DEF State!Acquire, StateLockInv, StateWaiting, State!At
  <2>5. \A q \in Procs : Works(q)' => q = p
    BY <1>3, <2>1, <2>3 DEF State!Acquire, Works, StateBecomes
  <2>6. \A q \in Procs : ~State!At(q, "evict")' /\ ~Repairs(q)'
    BY <1>3, <2>1, <2>3 DEF State!Acquire, State!At, Repairs, StateBecomes
  <2>7. \A q \in Procs : StateWaiting(q)' => writers'[q].ev \in StateEvents
    BY <1>3, <2>1 DEF State!Acquire, StateLockInv, StateWaiting, StateBecomes
  <2> QED BY <1>3, <2>1, <2>2, <2>4, <2>5, <2>6, <2>7 DEF State!Acquire, StateLockInv, StateBecomes
<1>4. ASSUME NEW p \in Procs, State!FindStale(p) \/ State!GivesUp(p) PROVE StateLockInv'
  <2>1. State!At(p, "want") /\ UNCHANGED <<stateLock, stateOld, State!files, dead, done>>
    BY <1>4 DEF State!FindStale, State!GivesUp
  <2>2. NoRepairBut(p) /\ writers[p].ev \in StateEvents
    BY <2>1 DEF NoRepairBut, StateLockInv, Repairs, State!At, StateWaiting
  <2>3. CASE State!FindStale(p)
    <3>1. PICK r \in StateProcType : StateBecomes(p, r) /\ r.pc = "evict" /\ r.ev = writers[p].ev
      BY <2>3, StateGoing DEF State!FindStale, StatePcs
    <3>2. stateLock \in dead
      BY <2>3 DEF State!FindStale, State!Stale, StateLockInv
    <3> QED BY <1>files, <2>1, <2>2, <3>1, <3>2, LockLeft DEF State!files, State!At, Working
  <2>4. CASE State!GivesUp(p)
    <3>1. PICK r \in StateProcType : StateBecomes(p, r) /\ r.pc = "idle"
      BY <2>4, Ending DEF State!GivesUp
    <3> QED BY <1>files, <2>1, <3>1, LockLeft DEF State!files, State!At, Working
  <2> QED BY <1>4, <2>3, <2>4
<1>5. ASSUME NEW p \in Procs, State!Evict(p) PROVE StateLockInv'
  <2>1. PICK r \in StateProcType : StateBecomes(p, r) /\ r.pc = "want" /\ r.ev = writers[p].ev
    BY <1>5, StateGoing DEF State!Evict, StatePcs
  <2>2. stateLock \in dead /\ StateWaiting(p) /\ writers[p].ev \in StateEvents
    BY <1>5 DEF State!Evict, StateLockInv, StateWaiting, State!At
  <2>3. NoOther(p)
    BY <1>5, <2>2 DEF State!Evict, NoOther, StateOneWaiter, StateLockInv, Works, StateWaiting, State!At
  <2> QED BY <1>5, <1>files, <2>1, <2>2, <2>3, LockFreed DEF State!Evict, State!Release, State!files, State!At, Repairs, StateWaiting
<1>6. ASSUME NEW p \in Procs, State!Load(p) PROVE StateLockInv'
  <2>1. State!Loaded \cup {writers[p].ev} \in SUBSET StateEvents /\ Works(p)
    BY <1>6, LoadedType DEF State!Load, StateLockInv, Works, Working, State!At
  <2>2. ReadsTo(p, "keep", State!Loaded \cup {writers[p].ev}) /\ "keep" \in StatePcs
    BY <1>6 DEF State!Load, ReadsTo, StatePcs
  <2>3. PICK r \in StateProcType : StateBecomes(p, r) /\ r.pc = "keep" /\ r.ev = writers[p].ev
    BY <2>1, <2>2, Reading
  <2> QED BY <1>6, <1>files, <2>1, <2>3, OnlyWorker, LockLeft DEF State!Load, State!files
<1>7. ASSUME NEW p \in Procs, State!LoadFails(p) PROVE StateLockInv'
  <2>1. Works(p)
    BY <1>7 DEF State!LoadFails, Works, Working, State!At
  <2> QED BY <1>7, <1>files, <2>1, Ending, OnlyWorker, LockFreed DEF State!LoadFails, State!Release, State!files, Works, Working, State!At, Repairs
<1>8. ASSUME NEW p \in Procs, State!KeepBackup(p) PROVE StateLockInv'
  <2>1. Works(p) /\ State!At(p, "keep")
    BY <1>8 DEF State!KeepBackup, Works, Working, State!At
  <2>2. CASE primary.is = "newer"
    BY <1>8, <1>files, <2>1, <2>2, Ending, OnlyWorker, LockFreed DEF State!KeepBackup, State!Release, State!At, Repairs
  <2>3. CASE primary.is # "newer"
    <3>1. PICK r \in StateProcType : StateBecomes(p, r) /\ r.pc = "save" /\ r.ev = writers[p].ev
      BY <1>8, <2>3, StateGoing DEF State!KeepBackup, StatePcs
    <3>2. backup' \in State!File
      BY <1>8, <1>files, <2>3 DEF State!KeepBackup, State!BackupKept
    <3> QED BY <1>8, <1>files, <2>1, <2>3, <3>1, <3>2, OnlyWorker, LockLeft DEF State!KeepBackup
  <2> QED BY <2>2, <2>3
<1>9. ASSUME NEW p \in Procs, State!Save(p) PROVE StateLockInv'
  <2>1. Works(p)
    BY <1>9 DEF State!Save, Works, Working, State!At
  <2>2. PICK r \in StateProcType : StateBecomes(p, r) /\ r.pc = "release" /\ r.ev = writers[p].ev
    BY <1>9, StateGoing DEF State!Save, StatePcs
  <2>3. primary' \in State!File
    BY <1>9 DEF State!Save, State!File, State!TypeOK
  <2> QED BY <1>9, <1>files, <2>1, <2>2, <2>3, OnlyWorker, LockLeft DEF State!Save
<1>10. ASSUME NEW p \in Procs, State!Return(p) PROVE StateLockInv'
  <2>1. Works(p)
    BY <1>10 DEF State!Return, Works, Working, State!At
  <2> QED BY <1>10, <1>files, <2>1, Ending, OnlyWorker, LockFreed DEF State!Return, State!Release, State!files, Works, Working, State!At, Repairs
<1>11. ASSUME NEW p \in Procs, State!Dies(p) PROVE StateLockInv'
  <2>1. p \notin dead /\ dead' = dead \cup {p} /\ UNCHANGED <<stateLock, stateOld, State!files, writers, done, damage>>
    BY <1>11 DEF State!Dies
  <2> QED BY <2>1 DEF State!files, StateLockInv, State!TypeOK, Works, StateWaiting, Repairs, State!At
<1>12. ASSUME NEW p \in Procs, State!Plan(p) PROVE StateLockInv'
  <2>1. PICK r \in StateProcType : StateBecomes(p, r) /\ r.pc = "planned"
    BY <1>12, StateGoing DEF State!Plan, StatePcs
  <2>2. StateAlone(p)
    BY <1>12 DEF State!Plan, StateAlone, State!StateAssumption
  <2>3. NoRepairBut(p)
    BY <2>2 DEF StateAlone, NoRepairBut, Repairs, State!At
  <2> QED BY <1>12, <1>files, <2>1, <2>2, <2>3, LockLeft DEF State!Plan, State!files, State!At, Working
<1>13. ASSUME NEW p \in Procs, State!Recheck(p) \/ State!Restore(p) PROVE StateLockInv'
  <2>1. backup.has \in SUBSET StateEvents
    BY LoadedType
  <2>2. PICK r \in StateProcType : StateBecomes(p, r) /\ r.pc \in {"idle", "restoring"}
    <3>1. CASE State!Ends(p)
      BY <3>1, Ending
    <3>2. CASE ~State!Ends(p)
      <4>1. ReadsTo(p, "restoring", backup.has) /\ "restoring" \in StatePcs
        BY <1>13, <3>2 DEF State!Recheck, State!Restore, ReadsTo, StatePcs
      <4> QED BY <2>1, <4>1, Reading
    <3> QED BY <3>1, <3>2
  <2>3. Repairs(p)
    BY <1>13 DEF State!Recheck, State!Restore, Repairs, State!At
  <2>4. StateAlone(p)
    BY <2>3 DEF StateLockInv, StateAlone
  <2>5. NoRepairBut(p)
    BY <2>4 DEF StateAlone, NoRepairBut, Repairs, State!At
  <2>6. primary' \in State!File
    BY <1>13 DEF State!Recheck, State!Restore, State!TypeOK, State!File, State!files
  <2> QED BY <1>13, <1>files, <2>2, <2>3, <2>4, <2>5, <2>6, LockLeft DEF State!Recheck, State!Restore, State!files, Repairs, Working
<1>14. ASSUME State!Ages PROVE StateLockInv'
  BY <1>14 DEF State!Ages, State!files, StateLockInv, State!TypeOK, Works, StateWaiting, Repairs, State!At
<1>15. ASSUME State!Damaged PROVE StateLockInv'
  <2>1. primary' \in State!File /\ backup' \in State!File /\ UNCHANGED <<stateLock, stateOld, writers, dead, done>>
    BY <1>15, <1>files, LoadedType DEF State!Damaged, State!File
  <2> QED BY <2>1 DEF StateLockInv, State!TypeOK, Works, StateWaiting, Repairs, State!At
<1> QED BY <1>1, <1>2, <1>3, <1>4, <1>5, <1>6, <1>7, <1>8, <1>9, <1>10, <1>11, <1>12, <1>13, <1>14, <1>15, StateStepCases

-----------------------------------------------------------------------------
(* The files are kept *)

\* A step of a process that leaves the files alone and reads nothing of them.
LEMMA FilesLeft ==
  ASSUME FilesInv, UNCHANGED <<State!files, dead>>, NEW p \in Procs, NEW r \in StateProcType, StateBecomes(p, r),
         r.pc \notin {"keep", "save", "planned", "restoring"}
  PROVE  FilesInv'
<1>1. \A q \in Procs : StateKept(q)'
  BY DEF FilesInv, State!files, StateKept, State!At, Repairs, StateBecomes
<1> QED BY <1>1 DEF FilesInv, State!files, StateHolds

LEMMA FilesInit == ASSUME State!Init PROVE FilesInv
  BY DEF State!Init, FilesInv, StateHolds, State!Absent, StateKept, State!At, Repairs, State!Idle

LEMMA FilesStep ==
  ASSUME State!StateAssumption, Repair # "any", StateLockInv, FilesInv, [State!Next]_State!vars PROVE FilesInv'
<1> State!TypeOK
  BY DEF StateLockInv
<1>files. primary \in State!File /\ backup \in State!File /\ StateHolds(primary) /\ StateHolds(backup)
  BY DEF State!TypeOK, FilesInv
<1>1. ASSUME UNCHANGED State!vars PROVE FilesInv'
  BY <1>1 DEF State!vars, State!files, FilesInv, StateHolds, StateKept, State!At, Repairs
<1>2. ASSUME NEW p \in Procs, NEW e \in StateEvents, State!Want(p, e) PROVE FilesInv'
  <2>1. PICK r \in StateProcType : StateBecomes(p, r) /\ r.pc = "want"
    BY <1>2, Coming
  <2> QED BY <1>2, <2>1, FilesLeft DEF State!Want
<1>3. ASSUME NEW p \in Procs, State!Acquire(p) PROVE FilesInv'
  <2>1. PICK r \in StateProcType : StateBecomes(p, r) /\ r.pc = "load"
    BY <1>3, StateGoing DEF State!Acquire, StatePcs
  <2> QED BY <1>3, <2>1, FilesLeft DEF State!Acquire
<1>4. ASSUME NEW p \in Procs, State!FindStale(p) \/ State!GivesUp(p) PROVE FilesInv'
  <2>1. CASE State!FindStale(p)
    <3>1. PICK r \in StateProcType : StateBecomes(p, r) /\ r.pc = "evict"
      BY <2>1, StateGoing DEF State!FindStale, StatePcs
    <3> QED BY <2>1, <3>1, FilesLeft DEF State!FindStale
  <2>2. CASE State!GivesUp(p)
    BY <2>2, Ending, FilesLeft DEF State!GivesUp
  <2> QED BY <1>4, <2>1, <2>2
<1>5. ASSUME NEW p \in Procs, State!Evict(p) PROVE FilesInv'
  <2>1. PICK r \in StateProcType : StateBecomes(p, r) /\ r.pc = "want"
    BY <1>5, StateGoing DEF State!Evict, StatePcs
  <2> QED BY <1>5, <2>1, FilesLeft DEF State!Evict
<1>6. ASSUME NEW p \in Procs, State!Load(p) PROVE FilesInv'
  <2>1. State!Loaded \cup {writers[p].ev} \in SUBSET StateEvents /\ Works(p)
    BY <1>6, LoadedType DEF State!Load, StateLockInv, Works, Working, State!At
  <2>2. ReadsTo(p, "keep", State!Loaded \cup {writers[p].ev}) /\ "keep" \in StatePcs
    BY <1>6 DEF State!Load, ReadsTo, StatePcs
  <2>3. PICK r \in StateProcType : StateBecomes(p, r) /\ r.pc = "keep" /\ r.ev = writers[p].ev /\ r.state = State!Loaded \cup {writers[p].ev}
    BY <2>1, <2>2, Reading
  <2>4. (primary.is = "ok" => primary.has \subseteq State!Loaded) /\ backup.has \subseteq State!Loaded
    BY <1>6, <1>files DEF State!Load, FilesInv, State!Loaded, State!Unreadable
  <2>5. \A q \in Procs : StateKept(q)'
    BY <1>6, <2>3, <2>4 DEF State!Load, FilesInv, State!files, StateKept, State!At, Repairs, StateBecomes
  <2> QED BY <1>6, <2>5 DEF State!Load, FilesInv, State!files, StateHolds
<1>7. ASSUME NEW p \in Procs, State!LoadFails(p) PROVE FilesInv'
  BY <1>7, Ending, FilesLeft DEF State!LoadFails
<1>8. ASSUME NEW p \in Procs, State!KeepBackup(p) PROVE FilesInv'
  <2>1. Works(p) /\ State!At(p, "keep")
    BY <1>8 DEF State!KeepBackup, Works, Working, State!At
  <2>2. CASE primary.is = "newer"
    BY <1>8, <2>2, Ending, FilesLeft DEF State!KeepBackup, State!files
  <2>3. CASE primary.is # "newer"
    <3>1. PICK r \in StateProcType : StateBecomes(p, r) /\ r.pc = "save" /\ r.ev = writers[p].ev /\ r.state = writers[p].state
      BY <1>8, <2>3, StateGoing DEF State!KeepBackup, StatePcs
    <3>2. backup' = State!BackupKept /\ UNCHANGED <<primary, dead>>
      BY <1>8, <2>3 DEF State!KeepBackup
    <3>3. \A q \in Procs : p # q => ~Works(q) /\ ~Repairs(q)
      BY <2>1, OnlyWorker DEF NoOther, NoRepairBut
    <3>4. StateKept(p)'
      BY <2>1, <2>3, <3>1, <3>2 DEF FilesInv, State!BackupKept, StateKept, State!At, Repairs, StateBecomes
    <3>5. \A q \in Procs : p # q => StateKept(q)'
      BY <3>1, <3>2, <3>3 DEF StateKept, State!At, Works, Working, Repairs, StateBecomes
    <3> QED BY <2>3, <3>2, <3>4, <3>5 DEF FilesInv, State!BackupKept, StateHolds
  <2> QED BY <2>2, <2>3
<1>9. ASSUME NEW p \in Procs, State!Save(p) PROVE FilesInv'
  <2>1. Works(p) /\ State!At(p, "save")
    BY <1>9 DEF State!Save, Works, Working, State!At
  <2>2. PICK r \in StateProcType : StateBecomes(p, r) /\ r.pc = "release"
    BY <1>9, StateGoing DEF State!Save, StatePcs
  <2>3. primary' = [is |-> "ok", has |-> writers[p].state] /\ UNCHANGED <<backup, dead>>
    BY <1>9 DEF State!Save
  <2>4. \A q \in Procs : p # q => ~Works(q) /\ ~Repairs(q)
    BY <2>1, OnlyWorker DEF NoOther, NoRepairBut
  <2>5. \A q \in Procs : StateKept(q)'
    BY <2>2, <2>3, <2>4 DEF StateKept, State!At, Works, Working, Repairs, StateBecomes
  <2>6. backup.has \subseteq writers[p].state
    BY <2>1 DEF FilesInv, StateKept
  <2> QED BY <2>3, <2>5, <2>6 DEF FilesInv, StateHolds
<1>10. ASSUME NEW p \in Procs, State!Return(p) PROVE FilesInv'
  BY <1>10, Ending, FilesLeft DEF State!Return
<1>11. ASSUME NEW p \in Procs, State!Dies(p) PROVE FilesInv'
  BY <1>11 DEF State!Dies, State!files, FilesInv, StateHolds, StateKept, State!At, Repairs
<1>12. ASSUME NEW p \in Procs, State!Plan(p) PROVE FilesInv'
  <2>1. PICK r \in StateProcType : StateBecomes(p, r) /\ r.pc = "planned"
    BY <1>12, StateGoing DEF State!Plan, StatePcs
  <2>2. \A q \in Procs : StateKept(q)'
    BY <1>12, <2>1 DEF State!Plan, State!Restorable, State!files, FilesInv, StateKept, State!At, Repairs, StateBecomes
  <2> QED BY <1>12, <2>2 DEF State!Plan, State!files, FilesInv, StateHolds
<1>13. ASSUME NEW p \in Procs, State!Recheck(p) PROVE FilesInv'
  <2>1. CASE State!Ends(p)
    BY <1>13, <2>1, Ending, FilesLeft DEF State!Recheck
  <2>2. CASE ~State!Ends(p)
    <3>1. backup.has \in SUBSET StateEvents
      BY LoadedType
    <3>2. ReadsTo(p, "restoring", backup.has) /\ "restoring" \in StatePcs
      BY <1>13, <2>2 DEF State!Recheck, ReadsTo, StatePcs
    <3>3. PICK r \in StateProcType : StateBecomes(p, r) /\ r.pc = "restoring" /\ r.state = backup.has
      BY <3>1, <3>2, Reading
    <3>4. Repairs(p)
      BY <1>13 DEF State!Recheck, State!At, Repairs
    <3>5. \A q \in Procs : StateKept(q)'
      BY <1>13, <3>3, <3>4 DEF State!Recheck, State!files, FilesInv, StateKept, State!At, Repairs, StateBecomes
    <3> QED BY <1>13, <3>5 DEF State!Recheck, State!files, FilesInv, StateHolds
  <2> QED BY <2>1, <2>2
<1>14. ASSUME NEW p \in Procs, State!Restore(p) PROVE FilesInv'
  <2>1. PICK r \in StateProcType : StateBecomes(p, r) /\ r.pc = "idle"
    BY <1>14, Ending DEF State!Restore
  <2>2. Repairs(p) /\ State!At(p, "restoring")
    BY <1>14 DEF State!Restore, Repairs, State!At
  <2>3. \A q \in Procs \ dead : p # q => State!At(q, "idle")
    BY <2>2 DEF StateLockInv
  <2>4. primary' = [is |-> "ok", has |-> writers[p].state] /\ UNCHANGED <<backup, dead>>
    BY <1>14 DEF State!Restore
  <2>5. \A q \in Procs : StateKept(q)'
    BY <2>1, <2>3, <2>4 DEF StateKept, State!At, Repairs, StateBecomes
  <2>6. backup.has \subseteq writers[p].state
    BY <2>2 DEF FilesInv, StateKept
  <2> QED BY <2>4, <2>5, <2>6 DEF FilesInv, StateHolds
<1>15. ASSUME State!Ages PROVE FilesInv'
  BY <1>15 DEF State!Ages, State!files, FilesInv, StateHolds, StateKept, State!At, Repairs
<1>16. ASSUME State!Damaged PROVE FilesInv'
  <2>1. CASE \E is \in {"corrupt", "absent"} : primary' = [is |-> is, has |-> {}] /\ UNCHANGED backup
    BY <1>16, <2>1 DEF State!Damaged, FilesInv, StateHolds, StateKept, State!At, Repairs
  <2>2. CASE backup' = [is |-> "corrupt", has |-> {}] /\ UNCHANGED primary
    BY <1>16, <2>2 DEF State!Damaged, FilesInv, StateHolds, StateKept, State!At, Repairs
  <2>3. CASE State!Free /\ State!NoRepair /\ ~State!Unreadable /\ primary' = [is |-> "newer", has |-> State!Loaded] /\ UNCHANGED backup
    <3>1. \A q \in Procs : ~Works(q) /\ ~Repairs(q)
      BY <2>3 DEF State!Free, State!NoRepair, StateLockInv, Works, Repairs, State!At, State!StateAssumption
    <3>2. \A q \in Procs : StateKept(q)'
      BY <1>16, <3>1 DEF State!Damaged, StateKept, State!At, Works, Working, Repairs
    <3>3. backup.has \subseteq State!Loaded
      BY <2>3, <1>files DEF FilesInv, State!Loaded, State!Unreadable
    <3> QED BY <2>3, <3>2, <3>3 DEF FilesInv, StateHolds
  <2> QED BY <1>16, <2>1, <2>2, <2>3 DEF State!Damaged
<1> QED BY <1>1, <1>2, <1>3, <1>4, <1>5, <1>6, <1>7, <1>8, <1>9, <1>10, <1>11, <1>12, <1>13, <1>14, <1>15, <1>16, StateStepCases

\* A step loses nothing that can be read, unless it damages a file.
LEMMA NothingLost ==
  ASSUME State!StateAssumption, Repair # "any", StateLockInv, FilesInv, damage \in Nat, [State!Next]_State!vars
  PROVE  State!NothingOverwritten /\ State!NeverDowngraded
<1>1. CASE UNCHANGED State!files
  BY <1>1 DEF State!files, State!NothingOverwritten, State!NeverDowngraded, State!Readable, State!Unreadable, State!Loaded
<1>2. ASSUME NEW p \in Procs, State!KeepBackup(p) PROVE State!NothingOverwritten /\ State!NeverDowngraded
  BY <1>2 DEF State!KeepBackup, State!BackupKept, State!NothingOverwritten, State!NeverDowngraded, State!Readable, State!Unreadable, State!Loaded
<1>3. ASSUME NEW p \in Procs, State!Save(p) PROVE State!NothingOverwritten /\ State!NeverDowngraded
  <2>1. StateKept(p) /\ State!At(p, "save") /\ primary' = [is |-> "ok", has |-> writers[p].state]
    BY <1>3 DEF State!Save, FilesInv
  <2> QED BY <2>1 DEF StateKept, State!NothingOverwritten, State!NeverDowngraded, State!Readable, State!Unreadable, State!Loaded
<1>4. ASSUME NEW p \in Procs, State!Restore(p) PROVE State!NothingOverwritten /\ State!NeverDowngraded
  <2>1. StateKept(p) /\ State!At(p, "restoring") /\ Repairs(p) /\ primary' = [is |-> "ok", has |-> writers[p].state]
    BY <1>4 DEF State!Restore, FilesInv, Repairs, State!At
  <2> QED BY <2>1 DEF StateKept, State!NothingOverwritten, State!NeverDowngraded, State!Readable, State!Unreadable, State!Loaded
<1>5. ASSUME State!Damaged PROVE State!NothingOverwritten /\ State!NeverDowngraded
  <2>1. damage' = damage + 1 /\ damage \in Nat
    BY <1>5 DEF State!Damaged
  <2>2. damage' # damage
    BY <2>1
  <2> QED BY <2>2 DEF State!NothingOverwritten, State!NeverDowngraded
<1>6. [State!Next]_State!vars => UNCHANGED State!files \/ State!Damaged \/ \E p \in Procs : State!KeepBackup(p) \/ State!Save(p) \/ State!Restore(p)
  BY DEF State!Next, State!Step, State!vars, State!Want, State!Acquire, State!GivesUp, State!FindStale, State!Evict, State!Ages, State!Load, State!LoadFails, State!Return, State!Dies,
         State!Plan, State!Recheck
<1> QED BY <1>1, <1>2, <1>3, <1>4, <1>5, <1>6

-----------------------------------------------------------------------------
(* What damages cost *)

\* What is missing from more is fewer.
LEMMA FewerMissing ==
  ASSUME NEW R, NEW Q, IsFiniteSet(R), Q \subseteq R, NEW S, NEW T, S \subseteq T
  PROVE  Lacking(Q, T) <= Lacking(R, S) /\ Lacking(Q, T) \in Nat /\ Lacking(R, S) \in Nat
<1>1. IsFiniteSet(R \ S) /\ Q \ T \in SUBSET (R \ S)
  BY FS_Difference
<1> QED BY <1>1, FS_Subset, FS_CardinalityType DEF Lacking

\* One more event costs at most one, and nothing where it is in.
LEMMA StateOneMore ==
  ASSUME NEW R, IsFiniteSet(R), NEW e, NEW S
  PROVE  /\ IsFiniteSet(R \cup {e})
         /\ Lacking(R \cup {e}, S) <= Lacking(R, S) + 1
         /\ e \in S => Lacking(R \cup {e}, S) = Lacking(R, S)
         /\ Lacking(R, S) \in Nat /\ Lacking(R \cup {e}, S) \in Nat
<1>1. IsFiniteSet(R \ S) /\ IsFiniteSet((R \cup {e}) \ S) /\ IsFiniteSet(R \cup {e})
  BY FS_Difference, FS_AddElement
<1>2. Lacking(R, S) \in Nat /\ Lacking(R \cup {e}, S) \in Nat
  BY <1>1, FS_CardinalityType DEF Lacking
<1>3. CASE e \in S
  <2>1. (R \cup {e}) \ S = R \ S
    BY <1>3
  <2> QED BY <1>1, <1>2, <2>1 DEF Lacking
<1>4. CASE e \notin S
  <2>1. (R \cup {e}) \ S = (R \ S) \cup {e}
    BY <1>4
  <2>2. Cardinality((R \ S) \cup {e}) <= Cardinality(R \ S) + 1
    BY <1>1, <1>2, FS_AddElement DEF Lacking
  <2> QED BY <1>1, <1>2, <1>4, <2>1, <2>2 DEF Lacking
<1> QED BY <1>3, <1>4

\* A save records its event, whoever dies takes its own with it, and no other
\* step changes what is recorded.
StateSame == Recorded' \subseteq Recorded
LEMMA RecordedStep ==
  ASSUME State!StateAssumption, StateLockInv, [State!Next]_State!vars
  PROVE  \/ StateSame
         \/ \E p \in Procs : State!Save(p) /\ Recorded' \subseteq Recorded \cup {writers[p].ev}
<1> State!TypeOK
  BY DEF StateLockInv
<1>1. ASSUME NEW p \in Procs, NEW r \in StateProcType, StateBecomes(p, r), r.pc # "release", UNCHANGED <<done, dead>> PROVE StateSame
  BY <1>1 DEF StateSame, Recorded, State!At, StateBecomes
<1>2. ASSUME NEW p \in Procs, p \notin dead, State!Step(p) \/ (\E e \in StateEvents : State!Want(p, e)) \/ State!GivesUp(p) \/ State!Plan(p) \/ State!Dies(p)
      PROVE  StateSame \/ (State!Save(p) /\ Recorded' \subseteq Recorded \cup {writers[p].ev})
  <2>1. CASE State!Save(p)
    <3>1. PICK r \in StateProcType : StateBecomes(p, r) /\ r.pc = "release" /\ r.ev = writers[p].ev
      BY <2>1, StateGoing DEF State!Save, StatePcs
    <3>2. Recorded' \subseteq Recorded \cup {writers[p].ev}
      BY <2>1, <3>1 DEF State!Save, Recorded, State!At, StateBecomes
    <3> QED BY <2>1, <3>2
  <2>2. CASE State!Return(p)
    <3>1. State!At(p, "release") /\ done' = done \cup {writers[p].ev} /\ UNCHANGED dead
      BY <2>2 DEF State!Return
    <3>2. PICK r \in StateProcType : StateBecomes(p, r) /\ r.pc = "idle"
      BY <2>2, Ending DEF State!Return
    <3>3. \A q \in Procs : State!At(q, "release")' => State!At(q, "release") /\ writers'[q].ev = writers[q].ev
      BY <3>1, <3>2 DEF State!At, StateBecomes
    <3> QED BY <3>1, <3>3 DEF StateSame, Recorded
  <2>3. CASE State!Dies(p)
    BY <2>3 DEF State!Dies, StateSame, Recorded, State!At
  <2>4. CASE State!Load(p)
    <3>1. State!Loaded \cup {writers[p].ev} \in SUBSET StateEvents
      BY <2>4, LoadedType DEF State!Load, StateLockInv, Works, Working, State!At
    <3>2. ReadsTo(p, "keep", State!Loaded \cup {writers[p].ev}) /\ "keep" \in StatePcs
      BY <2>4 DEF State!Load, ReadsTo, StatePcs
    <3> QED BY <1>1, <2>4, <3>1, <3>2, Reading DEF State!Load
  <2>5. CASE State!Recheck(p)
    <3>1. CASE State!Ends(p)
      BY <1>1, <2>5, <3>1, Ending DEF State!Recheck
    <3>2. CASE ~State!Ends(p)
      <4>1. backup.has \in SUBSET StateEvents
        BY LoadedType
      <4>2. ReadsTo(p, "restoring", backup.has) /\ "restoring" \in StatePcs
        BY <2>5, <3>2 DEF State!Recheck, ReadsTo, StatePcs
      <4> QED BY <1>1, <2>5, <4>1, <4>2, Reading DEF State!Recheck
    <3> QED BY <3>1, <3>2
  <2>6. CASE State!KeepBackup(p)
    <3>1. CASE State!Ends(p)
      BY <1>1, <2>6, <3>1, Ending DEF State!KeepBackup
    <3>2. CASE ~State!Ends(p)
      <4>1. State!Goto(p, "save") /\ "save" \in StatePcs /\ UNCHANGED <<done, dead>>
        BY <2>6, <3>2 DEF State!KeepBackup, StatePcs
      <4> QED BY <1>1, <4>1, StateGoing
    <3> QED BY <3>1, <3>2
  <2>7. CASE \E e \in StateEvents : State!Want(p, e)
    <3>1. UNCHANGED <<done, dead>>
      BY <2>7 DEF State!Want
    <3> QED BY <1>1, <2>7, <3>1, Coming
  <2>8. CASE State!GivesUp(p) \/ State!LoadFails(p) \/ State!Restore(p)
    <3>1. State!Ends(p) /\ UNCHANGED <<done, dead>>
      BY <2>8 DEF State!GivesUp, State!LoadFails, State!Restore
    <3> QED BY <1>1, <3>1, Ending
  <2>9. CASE State!Acquire(p) \/ State!FindStale(p) \/ State!Evict(p) \/ State!Plan(p)
    <3>1. PICK pc \in {"load", "evict", "want", "planned"} : State!Goto(p, pc)
      BY <2>9 DEF State!Acquire, State!FindStale, State!Evict, State!Plan
    <3>2. UNCHANGED <<done, dead>> /\ pc \in StatePcs
      BY <2>9 DEF State!Acquire, State!FindStale, State!Evict, State!Plan, StatePcs
    <3> QED BY <1>1, <3>1, <3>2, StateGoing
  <2> QED BY <1>2, <2>1, <2>2, <2>3, <2>4, <2>5, <2>6, <2>7, <2>8, <2>9 DEF State!Step
<1>3. CASE UNCHANGED State!vars \/ State!Ages \/ State!Damaged
  BY <1>3 DEF State!vars, State!Ages, State!Damaged, StateSame, Recorded, State!At
<1>4. \A p \in Procs : State!Step(p) \/ (\E e \in StateEvents : State!Want(p, e)) \/ State!GivesUp(p) \/ State!Plan(p) \/ State!Dies(p) => p \notin dead
  BY DEF State!Step, State!Want, State!GivesUp, State!Plan, State!Dies, State!Acquire, State!FindStale, State!Evict, State!Load, State!LoadFails, State!KeepBackup, State!Save, State!Return,
         State!Recheck, State!Restore, State!At
<1> QED BY <1>2, <1>3, <1>4 DEF State!Next

LEMMA CostInit == ASSUME State!Init PROVE CostInv
<1>1. Recorded = {} /\ damage = 0 /\ primary.is = "absent"
  BY DEF State!Init, Recorded, State!At, State!Idle, State!Absent
<1>2. \A S : Lacking(Recorded, S) = 0
  BY <1>1, FS_EmptySet DEF Lacking
<1>3. \A p \in Procs : CostOf(p)
  BY DEF State!Init, CostOf, State!At, State!Idle
<1> QED BY <1>1, <1>2, <1>3, FS_EmptySet DEF CostInv

\* A step that records nothing new costs nothing, unless it damages a file.
LEMMA CostSame ==
  ASSUME State!StateAssumption, Repair # "any", StateLockInv, FilesInv, CostInv, [State!Next]_State!vars, StateSame,
         \A p \in Procs : ~State!Save(p)
  PROVE  CostInv'
<1> State!TypeOK
  BY DEF StateLockInv
<1>1. IsFiniteSet(Recorded)'
  BY FS_Subset DEF StateSame, CostInv
<1>2. ASSUME NEW S, NEW T, S \subseteq T
      PROVE  /\ Lacking(Recorded', T) <= Lacking(Recorded, S)
             /\ Lacking(Recorded', T) \in Nat /\ Lacking(Recorded, S) \in Nat
  BY <1>2, FewerMissing DEF StateSame, CostInv
<1>3. /\ Lacking(Recorded', primary.has) <= Lacking(Recorded, primary.has)
      /\ Lacking(Recorded', backup.has) <= Lacking(Recorded, backup.has)
      /\ Lacking(Recorded', primary.has) \in Nat /\ Lacking(Recorded, primary.has) \in Nat
      /\ Lacking(Recorded', backup.has) \in Nat /\ Lacking(Recorded, backup.has) \in Nat
  BY <1>2
<1>4. \A p \in Procs : /\ Lacking(Recorded', writers[p].state) <= Lacking(Recorded, writers[p].state)
                       /\ Lacking(Recorded', writers[p].state) \in Nat /\ Lacking(Recorded, writers[p].state) \in Nat
  BY <1>2
<1>files. primary \in State!File /\ backup \in State!File /\ StateHolds(primary) /\ StateHolds(backup) /\ damage \in Nat
  BY DEF State!TypeOK, FilesInv, CostInv
\* What a process that reads nothing does.
<1>5. ASSUME NEW p \in Procs, NEW r \in StateProcType, StateBecomes(p, r), UNCHANGED <<State!files, dead, damage>>,
             r.pc \notin {"keep", "save", "restoring"}
      PROVE  CostInv'
  <2>1. \A q \in Procs : CostOf(q)'
    BY <1>3, <1>4, <1>5, <1>files DEF State!files, StateBecomes, State!At, CostOf, CostInv
  <2> QED BY <1>1, <1>3, <1>5, <1>files, <2>1 DEF State!files, CostInv
<1>6. ASSUME NEW p \in Procs, State!Load(p) PROVE CostInv'
  <2>1. State!Loaded \cup {writers[p].ev} \in SUBSET StateEvents /\ ReadsTo(p, "keep", State!Loaded \cup {writers[p].ev}) /\ "keep" \in StatePcs
    BY <1>6, LoadedType DEF State!Load, ReadsTo, StatePcs, StateLockInv, Works, Working, State!At
  <2>2. PICK r \in StateProcType : StateBecomes(p, r) /\ r.pc = "keep" /\ r.state = State!Loaded \cup {writers[p].ev}
    BY <2>1, Reading
  <2>3. Lacking(Recorded, State!Loaded) <= damage
    BY <1>6, <1>files DEF State!Load, State!Unreadable, State!Loaded, CostInv, State!File
  <2>4. Lacking(Recorded', r.state) <= damage
    BY <1>2, <1>files, <2>2, <2>3
  <2>5. \A q \in Procs : CostOf(q)'
    BY <1>3, <1>4, <1>6, <1>files, <2>2, <2>4 DEF State!Load, State!files, StateBecomes, State!At, CostOf, CostInv
  <2> QED BY <1>1, <1>3, <1>6, <1>files, <2>5 DEF State!Load, State!files, CostInv
<1>7. ASSUME NEW p \in Procs, State!KeepBackup(p) PROVE CostInv'
  <2>1. CASE primary.is = "newer"
    BY <1>5, <1>7, <2>1, Ending DEF State!KeepBackup, State!files
  <2>2. CASE primary.is # "newer"
    <3>1. PICK r \in StateProcType : StateBecomes(p, r) /\ r.pc = "save" /\ r.state = writers[p].state
      BY <1>7, <2>2, StateGoing DEF State!KeepBackup, StatePcs
    <3>2. backup' = State!BackupKept /\ UNCHANGED <<primary, dead, damage>> /\ State!At(p, "keep")
      BY <1>7, <2>2 DEF State!KeepBackup
    <3>3. Works(p)
      BY <3>2 DEF Works, Working, State!At
    <3>4. \A q \in Procs : p # q => ~State!At(q, "save")
      BY <3>3, OnlyWorker DEF NoOther, Works, Working, State!At
    <3>5. backup'.is # "corrupt" => Lacking(Recorded', backup'.has) <= damage
      BY <1>3, <1>files, <2>2, <3>2 DEF State!BackupKept, CostInv, State!File
    <3>6. backup'.is # "corrupt" => Lacking(Recorded', backup'.has) \in Nat
      BY <1>3, <3>2 DEF State!BackupKept
    <3>7. \A q \in Procs : CostOf(q)'
      BY <1>4, <1>files, <3>1, <3>2, <3>4, <3>5 DEF StateBecomes, State!At, CostOf, CostInv
    <3> QED BY <1>1, <1>3, <1>files, <3>2, <3>5, <3>6, <3>7 DEF CostInv
  <2> QED BY <2>1, <2>2
<1>8. ASSUME NEW p \in Procs, State!Recheck(p) PROVE CostInv'
  <2>1. CASE State!Ends(p)
    BY <1>5, <1>8, <2>1, Ending DEF State!Recheck
  <2>2. CASE ~State!Ends(p)
    <3>1. backup.has \in SUBSET StateEvents
      BY LoadedType
    <3>2. ReadsTo(p, "restoring", backup.has) /\ "restoring" \in StatePcs /\ backup.is = "ok"
      BY <1>8, <2>2 DEF State!Recheck, ReadsTo, StatePcs
    <3>3. PICK r \in StateProcType : StateBecomes(p, r) /\ r.pc = "restoring" /\ r.state = backup.has
      BY <3>1, <3>2, Reading
    <3>4. primary.is \in {"corrupt", "absent"}
      BY <1>8 DEF State!Recheck, FilesInv, StateKept, Repairs, State!At
    <3>5. Lacking(Recorded', r.state) <= damage
      BY <1>3, <1>files, <3>2, <3>3, <3>4 DEF CostInv
    <3>6. \A q \in Procs : CostOf(q)'
      BY <1>3, <1>4, <1>8, <1>files, <3>3, <3>5 DEF State!Recheck, State!files, StateBecomes, State!At, CostOf, CostInv
    <3> QED BY <1>1, <1>3, <1>8, <1>files, <3>6 DEF State!Recheck, State!files, CostInv
  <2> QED BY <2>1, <2>2
<1>9. ASSUME NEW p \in Procs, State!Restore(p) PROVE CostInv'
  <2>1. PICK r \in StateProcType : StateBecomes(p, r) /\ r.pc = "idle"
    BY <1>9, Ending DEF State!Restore
  <2>2. Repairs(p) /\ State!At(p, "restoring") /\ primary' = [is |-> "ok", has |-> writers[p].state]
        /\ UNCHANGED <<backup, dead, damage>>
    BY <1>9 DEF State!Restore, Repairs, State!At
  <2>3. \A q \in Procs : p # q => ~State!At(q, "keep") /\ ~State!At(q, "save") /\ ~State!At(q, "restoring")
    BY <2>2 DEF StateLockInv, State!At
  <2>4. \A q \in Procs : CostOf(q)'
    BY <2>1, <2>2, <2>3 DEF StateBecomes, State!At, CostOf
  <2>5. primary.is \in {"corrupt", "absent"}
    BY <2>2 DEF FilesInv, StateKept
  <2>6. Lacking(Recorded', writers[p].state) <= damage
    BY <1>4, <1>files, <2>2 DEF CostInv, CostOf
  <2> QED BY <1>1, <1>3, <1>files, <2>2, <2>4, <2>5, <2>6 DEF CostInv
<1>10. CASE UNCHANGED State!vars \/ State!Ages \/ \E p \in Procs : State!Dies(p)
  <2>1. UNCHANGED <<State!files, writers, damage>> /\ dead \subseteq dead'
    BY <1>10 DEF State!vars, State!Ages, State!Dies
  <2>2. \A q \in Procs : CostOf(q)'
    BY <1>3, <1>4, <1>files, <2>1 DEF State!files, State!At, CostOf, CostInv
  <2> QED BY <1>1, <1>3, <1>files, <2>1, <2>2 DEF State!files, CostInv
<1>11. CASE State!Damaged
  <2>1. damage' = damage + 1 /\ UNCHANGED <<writers, dead>> /\ damage + 1 \in Nat
    BY <1>11, <1>files DEF State!Damaged
  <2>2. \/ primary'.is # "ok" /\ UNCHANGED backup
        \/ backup'.is = "corrupt" /\ UNCHANGED primary
    BY <1>11 DEF State!Damaged
  <2>3. \A q \in Procs : CostOf(q)'
    BY <1>3, <1>4, <1>files, <2>1, <2>2 DEF State!At, CostOf, CostInv
  <2> QED BY <1>1, <1>3, <1>files, <2>1, <2>2, <2>3 DEF CostInv
<1>12. ASSUME NEW p \in Procs,
              (\E e \in StateEvents : State!Want(p, e)) \/ State!Acquire(p) \/ State!GivesUp(p) \/ State!FindStale(p) \/ State!Evict(p)
              \/ State!LoadFails(p) \/ State!Return(p) \/ State!Plan(p)
       PROVE  CostInv'
  <2>1. UNCHANGED <<State!files, dead, damage>>
    BY <1>12 DEF State!Want, State!Acquire, State!GivesUp, State!FindStale, State!Evict, State!LoadFails, State!Return, State!Plan
  <2>2. CASE \E e \in StateEvents : State!Want(p, e)
    BY <1>5, <2>1, <2>2, Coming
  <2>3. CASE State!Ends(p)
    BY <1>5, <2>1, <2>3, Ending
  <2>4. CASE \E pc \in {"load", "evict", "want", "planned"} : State!Goto(p, pc)
    <3>1. PICK pc \in {"load", "evict", "want", "planned"} : State!Goto(p, pc)
      BY <2>4
    <3> QED BY <1>5, <2>1, <3>1, StateGoing DEF StatePcs
  <2> QED BY <1>12, <2>2, <2>3, <2>4 DEF State!Acquire, State!GivesUp, State!FindStale, State!Evict, State!LoadFails, State!Return, State!Plan
<1> QED BY <1>6, <1>7, <1>8, <1>9, <1>10, <1>11, <1>12, StateStepCases

\* A save leaves the backup one event behind.
LEMMA CostSave ==
  ASSUME State!StateAssumption, StateLockInv, FilesInv, CostInv, NEW p \in Procs, State!Save(p),
         Recorded' \subseteq Recorded \cup {writers[p].ev}
  PROVE  CostInv'
<1> DEFINE R == Recorded \cup {writers[p].ev}
<1>1. IsFiniteSet(R) /\ IsFiniteSet(Recorded)'
  BY StateOneMore, FS_Subset DEF CostInv
<1>2. PICK r \in StateProcType : StateBecomes(p, r) /\ r.pc = "release"
  BY StateGoing DEF State!Save, StatePcs, StateLockInv
<1>3. Works(p) /\ State!At(p, "save") /\ primary' = [is |-> "ok", has |-> writers[p].state]
      /\ UNCHANGED <<backup, dead, damage>>
  BY DEF State!Save, Works, Working, State!At
<1>4. \A q \in Procs : p # q => ~State!At(q, "keep") /\ ~State!At(q, "save") /\ ~State!At(q, "restoring")
  BY <1>3, OnlyWorker DEF NoOther, NoRepairBut, Works, Working, Repairs, State!At
<1>5. \A q \in Procs : CostOf(q)'
  BY <1>2, <1>3, <1>4 DEF StateBecomes, State!At, CostOf
<1>6. writers[p].ev \in writers[p].state
  BY <1>3 DEF FilesInv, StateKept
<1>7. Lacking(R, writers[p].state) <= damage
  BY <1>3, <1>6, StateOneMore DEF CostInv, CostOf
<1>8. backup.is # "corrupt" => Lacking(R, backup.has) <= damage + 1
  <2>1. IsFiniteSet(Recorded)
    BY DEF CostInv
  <2>2. Lacking(R, backup.has) <= Lacking(Recorded, backup.has) + 1
        /\ Lacking(R, backup.has) \in Nat /\ Lacking(Recorded, backup.has) \in Nat
    BY <2>1, StateOneMore
  <2>3. backup.is # "corrupt" => Lacking(Recorded, backup.has) <= damage
    BY <1>3 DEF CostInv, CostOf
  <2>4. damage \in Nat
    BY DEF CostInv
  <2> HIDE DEF R
  <2> QED BY <2>2, <2>3, <2>4
<1>9. \A S : Lacking(Recorded', S) <= Lacking(R, S) /\ Lacking(Recorded', S) \in Nat /\ Lacking(R, S) \in Nat
  BY <1>1, FewerMissing
<1> HIDE DEF R
<1>10. damage \in Nat /\ Lacking(Recorded', writers[p].state) <= damage
       /\ (backup.is # "corrupt" => Lacking(Recorded', backup.has) <= damage + 1)
  BY <1>7, <1>8, <1>9 DEF CostInv
<1> QED BY <1>1, <1>3, <1>5, <1>10 DEF CostInv

LEMMA CostStep ==
  ASSUME State!StateAssumption, Repair # "any", StateLockInv, FilesInv, CostInv, [State!Next]_State!vars PROVE CostInv'
<1>1. ASSUME NEW p \in Procs, State!Save(p) PROVE CostInv'
  <2>1. StateSame \/ \E q \in Procs : State!Save(q) /\ Recorded' \subseteq Recorded \cup {writers[q].ev}
    BY RecordedStep
  <2> QED BY <1>1, <2>1, CostSave DEF StateSame
<1> QED BY <1>1, CostSame, RecordedStep

\* What is missing from what can be read is bounded by the damages.
LEMMA CostBound == ASSUME StateLockInv, FilesInv, CostInv PROVE State!DamageCostsOne
<1>1. primary \in State!File /\ backup \in State!File
  BY DEF StateLockInv, State!TypeOK
<1>2. ~State!Unreadable => Lacking(Recorded, State!Loaded) <= damage
  BY <1>1 DEF State!Unreadable, State!Loaded, CostInv, State!File
<1>3. /\ Lacking(done, State!Loaded) <= Lacking(Recorded, State!Loaded)
      /\ Lacking(done, State!Loaded) \in Nat /\ Lacking(Recorded, State!Loaded) \in Nat
  BY FewerMissing DEF CostInv, Recorded
<1> QED BY StateLibrary, <1>2, <1>3 DEF State!DamageCostsOne, Lacking, CostInv

-----------------------------------------------------------------------------
(* One at a time *)

StateHolder == IF State!Inside = {} THEN None ELSE CHOOSE p \in State!Inside : TRUE

\* At most the owner of the lock is inside.
StateOwnerInside ==
  /\ State!Inside \subseteq {stateLock} /\ State!Inside \cap dead = {} /\ State!Inside \subseteq Procs
  /\ StateHolder = IF State!Inside = {} THEN None ELSE stateLock
  /\ State!Inside # {} => stateLock \in State!Inside

LEMMA StateInsideOwner == ASSUME StateLockInv PROVE StateOwnerInside
<1>1. State!Inside \subseteq {stateLock}
  BY DEF State!Inside, StateLockInv, Works, Working
<1>2. State!Inside # {} => State!Inside = {stateLock}
  BY <1>1
<1>3. State!Inside # {} => (CHOOSE p \in State!Inside : TRUE) \in State!Inside
  OBVIOUS
<1> QED BY <1>1, <1>2, <1>3 DEF StateOwnerInside, StateHolder, State!Inside

LEMMA StateOneInside == ASSUME StateOwnerInside PROVE Cardinality(State!Inside) <= 1
<1>1. State!Inside = {} \/ State!Inside = {stateLock}
  BY DEF StateOwnerInside
<1>2. Cardinality({}) = 0 /\ Cardinality({stateLock}) = 1
  BY FS_EmptySet, FS_Singleton
<1> QED BY <1>1, <1>2

LEMMA StateMutexStep ==
  ASSUME State!StateAssumption, StateOwnerInside, StateOwnerInside', [State!Next]_State!vars PROVE State!Mutex!MutexStep
<1>1. ASSUME UNCHANGED <<StateHolder, dead>> PROVE State!Mutex!MutexStep
  BY <1>1 DEF State!Mutex!MutexStep, State!Mutex!Next, State!Mutex!vars, StateHolder
<1>2. /\ State!Inside \subseteq {stateLock} /\ State!Inside \cap dead = {} /\ State!Inside \subseteq Procs
      /\ StateHolder = IF State!Inside = {} THEN None ELSE stateLock
      /\ State!Inside # {} => stateLock \in State!Inside
  BY DEF StateOwnerInside
<1>3. /\ State!Inside' \subseteq {stateLock'} /\ State!Inside' \cap dead' = {} /\ State!Inside' \subseteq Procs
      /\ StateHolder' = IF State!Inside' = {} THEN None ELSE stateLock'
      /\ State!Inside' # {} => stateLock' \in State!Inside'
  BY DEF StateOwnerInside
<1>4. ASSUME NEW p \in Procs, State!Dies(p) PROVE State!Mutex!MutexStep
  <2>1. State!Inside' = State!Inside \ {p} /\ stateLock' = stateLock /\ p \notin dead /\ dead' = dead \cup {p}
    BY <1>4 DEF State!Dies, State!Inside
  <2>2. StateHolder' = IF StateHolder = p THEN None ELSE StateHolder
    BY <1>2, <1>3, <2>1 DEF State!StateAssumption
  <2> QED BY <2>1, <2>2 DEF State!Mutex!MutexStep, State!Mutex!Next, State!Mutex!Die, StateHolder
<1>5. ASSUME UNCHANGED dead PROVE State!Mutex!MutexStep
  <2>1. CASE StateHolder' = StateHolder
    BY <1>1, <1>5, <2>1
  <2>2. CASE StateHolder' # StateHolder /\ StateHolder = None
    <3>1. State!Inside' # {} /\ StateHolder' \in Procs /\ StateHolder' \notin dead
      BY <1>2, <1>3, <1>5, <2>2
    <3> QED BY <1>5, <2>2, <3>1 DEF State!Mutex!MutexStep, State!Mutex!Next, State!Mutex!Acquire, StateHolder
  <2>3. CASE StateHolder' # StateHolder /\ StateHolder # None /\ StateHolder' = None
    <3>1. StateHolder \in Procs
      BY <1>2, <2>3
    <3> QED BY <1>5, <2>3, <3>1 DEF State!Mutex!MutexStep, State!Mutex!Next, State!Mutex!Release, StateHolder
  <2>4. CASE StateHolder' # StateHolder /\ StateHolder # None /\ StateHolder' # None
    <3>1. StateHolder = stateLock /\ StateHolder' = stateLock' /\ stateLock \in State!Inside /\ stateLock' \in State!Inside'
      BY <1>2, <1>3, <2>4
    <3>2. stateLock' # stateLock => stateLock = None \/ stateLock' = None
      BY DEF State!Next, State!Step, State!vars, State!Want, State!Acquire, State!Free, State!GivesUp, State!FindStale, State!Evict, State!Release, State!Ages, State!Load, State!LoadFails,
             State!KeepBackup, State!Save, State!Return, State!Dies, State!Plan, State!Recheck, State!Restore, State!Damaged
    <3> QED BY <1>2, <1>3, <2>4, <3>1, <3>2 DEF State!StateAssumption
  <2> QED BY <2>1, <2>2, <2>3, <2>4
<1>6. UNCHANGED dead \/ \E p \in Procs : State!Dies(p)
  <2>1. UNCHANGED State!vars \/ State!Ages \/ State!Damaged => UNCHANGED dead
    BY DEF State!vars, State!Ages, State!Damaged
  <2>2. \A p \in Procs : State!Step(p) => UNCHANGED dead
    BY DEF State!Step, State!Acquire, State!FindStale, State!Evict, State!Load, State!LoadFails, State!KeepBackup, State!Save, State!Return, State!Recheck, State!Restore
  <2>3. \A p \in Procs : (\E e \in StateEvents : State!Want(p, e)) \/ State!GivesUp(p) \/ State!Plan(p) => UNCHANGED dead
    BY DEF State!Want, State!GivesUp, State!Plan
  <2> QED BY <2>1, <2>2, <2>3 DEF State!Next
<1> QED BY <1>4, <1>5, <1>6

-----------------------------------------------------------------------------
(* The theorems *)

StateInv == StateLockInv /\ FilesInv /\ CostInv

LEMMA StateInvariant ==
  ASSUME State!StateAssumption, ~Slow, Repair # "any"
  PROVE  State!Spec /\ []StateOneWaiter => []StateInv
<1>1. State!Init => StateInv
  BY LockInit, FilesInit, CostInit DEF StateInv
<1>2. StateInv /\ StateOneWaiter /\ [State!Next]_State!vars => StateInv'
  BY LockStep, FilesStep, CostStep DEF StateInv
<1> QED BY <1>1, <1>2, PTL DEF State!Spec

\* The state lock, the two files and every process keep their types.
THEOREM StateTypeCorrect ==
  ASSUME State!StateAssumption, ~Slow, Repair # "any"
  PROVE  State!Spec /\ []StateOneWaiter => []State!TypeOK
<1>1. StateInv => State!TypeOK
  BY DEF StateInv, StateLockInv
<1> QED BY <1>1, StateInvariant, PTL

\* Hooks and repairs lose nothing the two files still hold, whatever step one
\* dies at, and replace no state of a newer version.
THEOREM StateNeverLost ==
  ASSUME State!StateAssumption, ~Slow, Repair # "any"
  PROVE  State!Spec /\ []StateOneWaiter => [][State!NothingOverwritten /\ State!NeverDowngraded]_State!vars
<1>1. StateInv /\ [State!Next]_State!vars => [State!NothingOverwritten /\ State!NeverDowngraded]_State!vars
  BY NothingLost DEF StateInv, CostInv
<1> QED BY <1>1, StateInvariant, PTL DEF State!Spec

\* A damaged file costs at most the last recorded event.
THEOREM DamageIsBounded ==
  ASSUME State!StateAssumption, ~Slow, Repair # "any"
  PROVE  State!Spec /\ []StateOneWaiter => []State!DamageCostsOne
<1>1. StateInv => State!DamageCostsOne
  BY CostBound DEF StateInv
<1> QED BY <1>1, StateInvariant, PTL

\* The state lock implements the owner mutex; one process is inside.
LEMMA StateLockExcludes ==
  ASSUME State!StateAssumption, ~Slow, Repair # "any"
  PROVE  State!Spec /\ []StateOneWaiter => State!Mutex!Init /\ [][State!Mutex!MutexStep]_State!vars /\ [](Cardinality(State!Inside) <= 1)
<1>1. State!Init => State!Mutex!Init
  BY DEF State!Init, State!Mutex!Init, State!Inside, State!Idle
<1>2. StateInv => StateOwnerInside
  BY StateInsideOwner DEF StateInv
<1>3. StateOwnerInside /\ StateOwnerInside' /\ [State!Next]_State!vars => [State!Mutex!MutexStep]_State!vars
  BY StateMutexStep
<1>4. StateOwnerInside => Cardinality(State!Inside) <= 1
  BY StateOneInside
<1> QED BY <1>1, <1>2, <1>3, <1>4, StateInvariant, PTL DEF State!Spec

-----------------------------------------------------------------------------
(* Two processes                                                           *)

LEMMA StateDeathsKnown == ASSUME dead \subseteq Procs, [State!Next]_State!vars PROVE (dead \subseteq Procs)'
<1>1. CASE UNCHANGED State!vars
  BY <1>1 DEF State!vars
<1>2. CASE dead' = dead
  BY <1>2
<1>3. CASE \E p \in Procs : State!Dies(p)
  BY <1>3 DEF State!Dies
<1>4. \/ UNCHANGED State!vars \/ dead' = dead \/ \E p \in Procs : State!Dies(p)
  BY DEF State!Next, State!Step, State!Want, State!Acquire, State!FindStale, State!Evict, State!Load, State!LoadFails, State!KeepBackup, State!Save, State!Return, State!Recheck, State!Restore,
         State!GivesUp, State!Plan, State!Ages, State!Damaged
<1> QED BY <1>1, <1>2, <1>3, <1>4

\* Where there are two processes no two wait for a dead one: the premise of the
\* theorems above is theirs for nothing.
THEOREM StateTwoProcessesSuffice == ASSUME NEW a, NEW b, Procs \subseteq {a, b} PROVE State!Spec => []StateOneWaiter
<1>1. State!Init => dead \subseteq Procs
  BY DEF State!Init
<1>2. dead \subseteq Procs => StateOneWaiter
  BY DEF StateOneWaiter, StateWaiting
<1>3. dead \subseteq Procs /\ [State!Next]_State!vars => (dead \subseteq Procs)'
  BY StateDeathsKnown
<1> QED BY <1>1, <1>2, <1>3, PTL DEF State!Spec

-----------------------------------------------------------------------------
(* The flight recorder and its lock, for any processes, events, failures and *)
(* edits, as long as no live holder is slow and no two processes wait for a   *)
(* dead one.                                                                  *)

-----------------------------------------------------------------------------
(* The lock *)

\* Where two processes wait for the lock of a dead one, each may read its age and
\* the second remove the lock the first has taken.
ChainWaiting(p) == p \notin gone /\ at[p] \in {"want", "evict"}
ChainOneWaiter == ledgerLock \in gone => \A p, q \in Procs : ChainWaiting(p) /\ ChainWaiting(q) => p = q

\* Whoever is inside holds the lock; an evictor has found the lock of a dead one.
ChainLockInv ==
  /\ Chain!LockTypeOK
  /\ ledgerOld => ledgerLock \in gone
  /\ \A p \in Procs : Chain!Alive(p, "in") => ledgerLock = p
  /\ \A p \in Procs : Chain!Alive(p, "evict") => ledgerLock \in gone

-----------------------------------------------------------------------------
(* The log and its checkpoint *)

Stamps == (0..MaxEvents) \X (0..MaxEvents)
WorkType == [pc : {"none", "line", "checkpoint", "done"}, at : Chain!Checkpoint]
VerdictType == [stamp : Stamps, ok : BOOLEAN, at : Chain!Checkpoint]
ReaderType == [pc : {"idle", "events", "read", "chain", "answered"}, stamp : Stamps,
               eventsStamp : 0..MaxEvents, events : Seq(Chain!Record), verdict : VerdictType]

\* An appending process is inside.  It has read the checkpoint as it is, and it
\* writes one after a line that no checkpoint covers.
Appends(p) ==
  /\ p \notin gone /\ work[p].pc # "none" => at[p] = "in"
  /\ Chain!Doing(p, "line") => work[p].at = chain
  /\ Chain!Doing(p, "checkpoint") => /\ work[p].at.len <= stamp[1] /\ work[p].at.head <= stamp[1]
                                     /\ work[p].at.len = chain.len + 1 /\ stamp[2] < stamp[1]

\* The types, and how far the stamps bound the checkpoint.
ChainTypeInv ==
  /\ log \in Seq(Chain!Record) /\ Len(log) <= MaxEvents /\ chain \in Chain!Checkpoint /\ stamp \in Stamps
  /\ work \in [Procs -> WorkType]
  /\ reader \in ReaderType /\ Len(reader.events) <= MaxEvents
  /\ signed \subseteq Chain!Checkpoint /\ torn \in BOOLEAN /\ tampers \in Nat
  /\ chain.len <= stamp[1] /\ chain.head <= stamp[1] /\ stamp[2] <= stamp[1]
  /\ \A p \in Procs : Appends(p)

\* The events read last belong to their stamp, and the verdict to its stamps.
ReadInv ==
  /\ reader.stamp[1] <= stamp[1] /\ reader.stamp[2] <= stamp[2] /\ reader.eventsStamp <= stamp[1]
  /\ reader.pc # "read" /\ reader.eventsStamp = stamp[1] => reader.events = log
  /\ reader.pc \in {"read", "chain"} => reader.stamp[1] <= reader.eventsStamp
  /\ reader.verdict.stamp[1] <= stamp[1] /\ reader.verdict.stamp[2] <= stamp[2]
  /\ Chain!FreshVerdictTrue

\* While nobody edits the log it is longer than a checkpoint that misses a line.
TornInv ==
  tampers = 0 => /\ chain.len <= Len(log) /\ (torn => chain.len < Len(log))
                 /\ \A p \in Procs : Chain!Doing(p, "checkpoint") =>
                      work[p].at.len <= Len(log) /\ (torn => work[p].at.len < Len(log))

\* While nobody edits the log and no append was torn, the checkpoint that is, or
\* is about to be, written is true.
IntactInv ==
  Chain!Untouched =>
    /\ \A e \in returned : e.seq \in DOMAIN log /\ log[e.seq].hash = e.hash
    /\ (\A p \in Procs : ~Chain!Doing(p, "checkpoint")) => Chain!Valid(log, chain)
    /\ \A p \in Procs : Chain!Doing(p, "checkpoint") => Chain!Valid(log, work[p].at)

\* While nobody edits the log, the hash of a line is its place, what was read of
\* it is a beginning of it, and a checkpoint that is true of one was true.
Upto(n) == SubSeq(log, 1, n)
SignInv ==
  tampers = 0 =>
    /\ stamp[1] = Len(log) /\ \A i \in DOMAIN log : log[i].hash = i
    /\ Len(reader.events) <= Len(log) /\ reader.events = Upto(Len(reader.events))
    /\ \A p \in Procs : Chain!Doing(p, "checkpoint") => work[p].at.head = Len(log)
    /\ Chain!Valid(Upto(chain.head), chain) => chain \in wasValid
    /\ reader.verdict.ok => reader.verdict.at \in wasValid
    /\ signed \subseteq wasValid

ChainInv == ChainLockInv /\ ChainTypeInv /\ ReadInv /\ TornInv /\ IntactInv /\ SignInv

-----------------------------------------------------------------------------
(* The lock is kept *)

LEMMA LockMoves == ASSUME [Chain!Next]_Chain!vars PROVE [Chain!LockNext]_Chain!lockVars
  BY DEF Chain!Next, Chain!vars, Chain!LockNext, Chain!LockStep, Chain!Begin, Chain!Waits, Chain!AppendLine, Chain!WriteCheckpoint, Chain!Fails, Chain!End, Chain!AppenderDies, Chain!Tamper,
         Chain!Verify, Chain!StampEvents, Chain!ReadEvents, Chain!ReadChain, Chain!Sign, Chain!Answer, Chain!Reads

LEMMA LockStarts == ASSUME Chain!AgeLockAssumption, Chain!LockInit PROVE ChainLockInv
  BY DEF Chain!AgeLockAssumption, Chain!LockInit, ChainLockInv, Chain!LockTypeOK, Chain!Alive

LEMMA LockKept ==
  ASSUME Chain!AgeLockAssumption, ~Slow, ChainOneWaiter, ChainLockInv, [Chain!LockNext]_Chain!lockVars PROVE ChainLockInv'
<1> USE DEF ChainLockInv, Chain!LockTypeOK, Chain!Alive
<1>1. CASE UNCHANGED Chain!lockVars
  BY <1>1 DEF Chain!lockVars
<1>2. CASE Chain!Ages
  BY <1>2 DEF Chain!Ages
<1>3. ASSUME NEW p \in Procs, Chain!Want(p) \/ Chain!GivesUp(p) PROVE ChainLockInv'
  BY <1>3 DEF Chain!Want, Chain!GivesUp, Chain!Move
<1>4. ASSUME NEW p \in Procs, Chain!Take(p) PROVE ChainLockInv'
  BY <1>4 DEF Chain!Take, Chain!Takes, Chain!Move, Chain!AgeLockAssumption
<1>5. ASSUME NEW p \in Procs, Chain!FindStale(p) PROVE ChainLockInv'
  BY <1>5 DEF Chain!FindStale, Chain!Stale, Chain!Move
<1>6. ASSUME NEW p \in Procs, Chain!Evict(p) PROVE ChainLockInv'
  <2>1. ledgerLock \in gone /\ ChainWaiting(p)
    BY <1>6 DEF Chain!Evict, ChainWaiting
  <2>2. \A q \in Procs : q # p => ~Chain!Alive(q, "in") /\ ~Chain!Alive(q, "evict")
    BY <2>1 DEF ChainOneWaiter, ChainWaiting
  <2> QED BY <1>6, <2>2 DEF Chain!Evict, Chain!Removes, Chain!Move
<1>7. ASSUME NEW p \in Procs, Chain!Leave(p) PROVE ChainLockInv'
  BY <1>7 DEF Chain!Leave, Chain!Removes, Chain!Move
<1>8. ASSUME NEW p \in Procs, Chain!Dies(p) PROVE ChainLockInv'
  BY <1>8 DEF Chain!Dies
<1> QED BY <1>1, <1>2, <1>3, <1>4, <1>5, <1>6, <1>7, <1>8 DEF Chain!LockNext, Chain!Waits

ChainHolder == IF Chain!Inside = {} THEN None ELSE CHOOSE p \in Chain!Inside : TRUE

\* At most the owner of the lock is inside.
ChainOwnerInside ==
  /\ Chain!Inside \subseteq {ledgerLock} /\ Chain!Inside \cap gone = {} /\ Chain!Inside \subseteq Procs
  /\ ChainHolder = IF Chain!Inside = {} THEN None ELSE ledgerLock
  /\ Chain!Inside # {} => ledgerLock \in Chain!Inside

LEMMA ChainInsideOwner == ASSUME ChainLockInv PROVE ChainOwnerInside
<1>1. Chain!Inside \subseteq {ledgerLock}
  BY DEF Chain!Inside, ChainLockInv, Chain!Alive
<1>2. Chain!Inside # {} => Chain!Inside = {ledgerLock}
  BY <1>1
<1>3. Chain!Inside # {} => (CHOOSE p \in Chain!Inside : TRUE) \in Chain!Inside
  OBVIOUS
<1> QED BY <1>1, <1>2, <1>3 DEF ChainOwnerInside, ChainHolder, Chain!Inside

LEMMA ChainOneInside == ASSUME ChainOwnerInside PROVE Cardinality(Chain!Inside) <= 1
<1>1. Chain!Inside = {} \/ Chain!Inside = {ledgerLock}
  BY DEF ChainOwnerInside
<1>2. Cardinality({}) = 0 /\ Cardinality({ledgerLock}) = 1
  BY FS_EmptySet, FS_Singleton
<1> QED BY <1>1, <1>2

LEMMA ChainMutexStep ==
  ASSUME Chain!AgeLockAssumption, ChainOwnerInside, ChainOwnerInside', [Chain!LockNext]_Chain!lockVars PROVE Chain!Mutex!MutexStep
<1>1. ASSUME UNCHANGED <<ChainHolder, gone>> PROVE Chain!Mutex!MutexStep
  BY <1>1 DEF Chain!Mutex!MutexStep, Chain!Mutex!Next, Chain!Mutex!vars, ChainHolder
<1>2. /\ Chain!Inside \subseteq {ledgerLock} /\ Chain!Inside \cap gone = {} /\ Chain!Inside \subseteq Procs
      /\ ChainHolder = IF Chain!Inside = {} THEN None ELSE ledgerLock
      /\ Chain!Inside # {} => ledgerLock \in Chain!Inside
  BY DEF ChainOwnerInside
<1>3. /\ Chain!Inside' \subseteq {ledgerLock'} /\ Chain!Inside' \cap gone' = {} /\ Chain!Inside' \subseteq Procs
      /\ ChainHolder' = IF Chain!Inside' = {} THEN None ELSE ledgerLock'
      /\ Chain!Inside' # {} => ledgerLock' \in Chain!Inside'
  BY DEF ChainOwnerInside
<1>4. ASSUME NEW p \in Procs, Chain!Dies(p) PROVE Chain!Mutex!MutexStep
  <2>1. Chain!Inside' = Chain!Inside \ {p} /\ ledgerLock' = ledgerLock /\ p \notin gone /\ gone' = gone \cup {p}
    BY <1>4 DEF Chain!Dies, Chain!Inside
  <2>2. ChainHolder' = IF ChainHolder = p THEN None ELSE ChainHolder
    BY <1>2, <1>3, <2>1 DEF Chain!AgeLockAssumption
  <2> QED BY <2>1, <2>2 DEF Chain!Mutex!MutexStep, Chain!Mutex!Next, Chain!Mutex!Die, ChainHolder
<1>5. ASSUME UNCHANGED gone PROVE Chain!Mutex!MutexStep
  <2>1. CASE ChainHolder' = ChainHolder
    BY <1>1, <1>5, <2>1
  <2>2. CASE ChainHolder' # ChainHolder /\ ChainHolder = None
    <3>1. Chain!Inside' # {} /\ ChainHolder' \in Procs /\ ChainHolder' \notin gone
      BY <1>2, <1>3, <1>5, <2>2
    <3> QED BY <1>5, <2>2, <3>1 DEF Chain!Mutex!MutexStep, Chain!Mutex!Next, Chain!Mutex!Acquire, ChainHolder
  <2>3. CASE ChainHolder' # ChainHolder /\ ChainHolder # None /\ ChainHolder' = None
    <3>1. ChainHolder \in Procs
      BY <1>2, <2>3
    <3> QED BY <1>5, <2>3, <3>1 DEF Chain!Mutex!MutexStep, Chain!Mutex!Next, Chain!Mutex!Release, ChainHolder
  <2>4. CASE ChainHolder' # ChainHolder /\ ChainHolder # None /\ ChainHolder' # None
    <3>1. ChainHolder = ledgerLock /\ ChainHolder' = ledgerLock' /\ ledgerLock \in Chain!Inside /\ ledgerLock' \in Chain!Inside'
      BY <1>2, <1>3, <2>4
    <3>2. ledgerLock' # ledgerLock => ledgerLock = None \/ ledgerLock' = None
      BY DEF Chain!LockNext, Chain!Waits, Chain!lockVars, Chain!Want, Chain!Take, Chain!Takes, Chain!GivesUp, Chain!FindStale, Chain!Evict, Chain!Leave, Chain!Removes, Chain!Ages, Chain!Dies
    <3> QED BY <1>2, <1>3, <2>4, <3>1, <3>2 DEF Chain!AgeLockAssumption
  <2> QED BY <2>1, <2>2, <2>3, <2>4
<1>6. UNCHANGED gone \/ \E p \in Procs : Chain!Dies(p)
  BY DEF Chain!LockNext, Chain!Waits, Chain!lockVars, Chain!Want, Chain!Take, Chain!GivesUp, Chain!FindStale, Chain!Evict, Chain!Leave, Chain!Removes, Chain!Ages
<1> QED BY <1>4, <1>5, <1>6

-----------------------------------------------------------------------------
(* Steps *)

\* What a verification does not touch.
Looks == UNCHANGED <<Chain!lockVars, log, chain, stamp, work, returned, wasValid, failures, tampers, torn>>
Verifies == Chain!Verify \/ Chain!StampEvents \/ Chain!ReadEvents \/ Chain!ReadChain \/ Chain!Sign \/ Chain!Answer

LEMMA ChainStepCases ==
  ASSUME [Chain!Next]_Chain!vars, NEW P,
         UNCHANGED Chain!vars \/ Chain!LockStep => P,
         \A p \in Procs : Chain!Begin(p) => P,
         \A p \in Procs : Chain!AppendLine(p) => P,
         \A p \in Procs : Chain!WriteCheckpoint(p) => P,
         \A p \in Procs : Chain!Fails(p) => P,
         \A p \in Procs : Chain!End(p) => P,
         \A p \in Procs : Chain!AppenderDies(p) => P,
         \A i \in DOMAIN log : Chain!Tamper(i) => P,
         Verifies => P
  PROVE  P
  BY DEF Chain!Next, Verifies

LEMMA VerifyLooks == Verifies => Looks
  BY DEF Verifies, Looks, Chain!Verify, Chain!StampEvents, Chain!ReadEvents, Chain!ReadChain, Chain!Sign, Chain!Answer, Chain!Reads

\* A process that appends is the only one.
LEMMA OneAppends ==
  ASSUME ChainLockInv, ChainTypeInv, NEW p \in Procs, p \notin gone, work[p].pc # "none", NEW q \in Procs, q # p, q \notin gone
  PROVE  work[q].pc = "none"
  BY DEF ChainLockInv, ChainTypeInv, Appends, Chain!Alive

LEMMA LastType ==
  ASSUME Chain!ChainAssumption, NEW l \in Seq(Chain!Record) PROVE Chain!Last(l) \in 0..MaxEvents
<1>1. CASE l = <<>>
  BY <1>1 DEF Chain!Last, Chain!Zero, Chain!ChainAssumption
<1>2. CASE l # <<>>
  <2>1. l[Len(l)] \in Chain!Record
    BY <1>2
  <2>2. l[Len(l)].hash \in 1..MaxEvents
    BY <2>1 DEF Chain!Record
  <2> QED BY <1>2, <2>2 DEF Chain!Last, Chain!ChainAssumption
<1> QED BY <1>1, <1>2

\* One more line.
LEMMA AppendLinked ==
  ASSUME NEW l \in Seq(Chain!Record), NEW r \in Chain!Record, Chain!Linked(l), r.seq = Len(l) + 1, r.prev = Chain!Last(l), r.good
  PROVE  Chain!Linked(Append(l, r))
<1> DEFINE m == Append(l, r)
<1>1. m \in Seq(Chain!Record) /\ Len(m) = Len(l) + 1 /\ m[Len(l) + 1] = r /\ \A i \in 1..Len(l) : m[i] = l[i]
  OBVIOUS
<1>2. \A i \in 1..Len(l) + 1 : SubSeq(m, 1, i - 1) = SubSeq(l, 1, i - 1)
  BY <1>1
<1>3. SubSeq(l, 1, Len(l)) = l
  OBVIOUS
<1> HIDE DEF m
<1>4. ASSUME NEW i \in DOMAIN m PROVE m[i].seq = i /\ m[i].prev = Chain!Last(SubSeq(m, 1, i - 1)) /\ m[i].good
  <2>1. CASE i = Len(l) + 1
    <3>1. m[i] = r /\ SubSeq(m, 1, i - 1) = l
      <4>1. Len(l) \in Nat /\ i - 1 = Len(l)
        BY <2>1
      <4>2. SubSeq(m, 1, i - 1) = SubSeq(l, 1, i - 1)
        BY <1>2, <2>1, <4>1
      <4> QED BY <1>1, <1>3, <2>1, <4>1, <4>2
    <3> QED BY <2>1, <3>1
  <2>2. CASE i # Len(l) + 1
    <3>1. i \in 1..Len(l) /\ i \in DOMAIN l /\ i \in 1..Len(l) + 1
      BY <1>1, <2>2
    <3>2. m[i] = l[i] /\ SubSeq(m, 1, i - 1) = SubSeq(l, 1, i - 1)
      BY <1>1, <1>2, <3>1
    <3>3. l[i].seq = i /\ l[i].prev = Chain!Last(SubSeq(l, 1, i - 1)) /\ l[i].good
      BY <3>1 DEF Chain!Linked
    <3> QED BY <3>2, <3>3
  <2> QED BY <2>1, <2>2
<1> QED BY <1>4 DEF Chain!Linked, m

\* A beginning of a longer log is one of the log.
LEMMA AppendUpto ==
  ASSUME NEW l \in Seq(Chain!Record), NEW r \in Chain!Record, NEW n \in Nat, n <= Len(l)
  PROVE  SubSeq(Append(l, r), 1, n) = SubSeq(l, 1, n)
  OBVIOUS

\* An edit leaves a log that is no longer.
LEMMA TamperType ==
  ASSUME ChainTypeInv, NEW i \in DOMAIN log, Chain!Tamper(i)
  PROVE  log' \in Seq(Chain!Record) /\ Len(log') <= Len(log)
<1>1. log \in Seq(Chain!Record) /\ i \in 1..Len(log)
  BY DEF ChainTypeInv
<1>2. CASE log' = [log EXCEPT ![i].good = FALSE]
  <2>0. log[i] \in Chain!Record
    BY <1>1
  <2>1. [log[i] EXCEPT !.good = FALSE] \in Chain!Record
    BY <2>0 DEF Chain!Record
  <2>2. log' = [log EXCEPT ![i] = [log[i] EXCEPT !.good = FALSE]]
    BY <1>2
  <2> QED BY <1>1, <2>1, <2>2
<1>3. CASE log' = SubSeq(log, 1, i - 1) \o SubSeq(log, i + 1, Len(log))
  <2>1. SubSeq(log, 1, i - 1) \in Seq(Chain!Record) /\ Len(SubSeq(log, 1, i - 1)) = i - 1
    BY <1>1
  <2>2. SubSeq(log, i + 1, Len(log)) \in Seq(Chain!Record) /\ Len(SubSeq(log, i + 1, Len(log))) = Len(log) - i
    BY <1>1
  <2> QED BY <1>1, <1>3, <2>1, <2>2
<1> QED BY <1>2, <1>3 DEF Chain!Tamper

-----------------------------------------------------------------------------
(* Types are kept *)

ChainBecomes(p, r) == r \in WorkType /\ work'[p] = r /\ work' \in [Procs -> WorkType]
                      /\ \A q \in Procs : q # p => work'[q] = work[q]

LEMMA ChainBecoming ==
  ASSUME ChainTypeInv, NEW p \in Procs, NEW r \in WorkType, work' = [work EXCEPT ![p] = r]
  PROVE  ChainBecomes(p, r)
  BY DEF ChainBecomes, ChainTypeInv

\* The record a line becomes.
Lined(p) == [pc |-> "checkpoint", at |-> [len |-> work[p].at.len + 1, head |-> stamp[1] + 1]]

LEMMA Lining ==
  ASSUME Chain!ChainAssumption, ChainTypeInv, NEW p \in Procs, Chain!AppendLine(p)
  PROVE  /\ ChainBecomes(p, Lined(p)) /\ Chain!NextRecord(p) \in Chain!Record
         /\ work[p].at = chain /\ work[p].pc = "line" /\ p \notin gone
         /\ stamp' \in Stamps /\ stamp'[1] = stamp[1] + 1 /\ stamp'[2] = stamp[2]
         /\ log' = Append(log, Chain!NextRecord(p)) /\ log' \in Seq(Chain!Record) /\ Len(log') = Len(log) + 1
         /\ Len(log) + 1 <= MaxEvents
<1>1. p \notin gone /\ work[p].pc = "line" /\ work[p].at = chain /\ chain \in Chain!Checkpoint
  BY DEF Chain!AppendLine, Chain!Doing, ChainTypeInv, Appends
<1>2. stamp[1] \in 0..MaxEvents /\ stamp[2] \in 0..MaxEvents /\ stamp[1] + 1 \in 1..MaxEvents
      /\ chain.len \in 0..MaxEvents /\ chain.len + 1 \in 1..MaxEvents /\ chain.head \in 0..MaxEvents
  BY <1>1 DEF Chain!AppendLine, ChainTypeInv, Stamps, Chain!Checkpoint, Chain!ChainAssumption
<1>3. Chain!NextRecord(p) \in Chain!Record
  BY <1>1, <1>2 DEF Chain!NextRecord, Chain!Record
<1>4. Lined(p) \in WorkType
  BY <1>1, <1>2, Chain!ChainAssumption DEF Lined, WorkType, Chain!Checkpoint, Chain!ChainAssumption
<1>5. work' = [work EXCEPT ![p] = Lined(p)]
  BY DEF Chain!AppendLine, Lined
<1>6. stamp' \in Stamps /\ stamp'[1] = stamp[1] + 1 /\ stamp'[2] = stamp[2]
  BY <1>2, Chain!ChainAssumption DEF Chain!AppendLine, Chain!TouchesLog, Stamps, Chain!ChainAssumption
<1>7. log' = Append(log, Chain!NextRecord(p)) /\ log \in Seq(Chain!Record) /\ Len(log) < MaxEvents
  BY DEF Chain!AppendLine, ChainTypeInv
<1>8. log' \in Seq(Chain!Record) /\ Len(log') = Len(log) + 1 /\ Len(log) + 1 <= MaxEvents
  BY <1>3, <1>7 DEF Chain!ChainAssumption
<1> QED BY <1>1, <1>3, <1>4, <1>5, <1>6, <1>7, <1>8, ChainBecoming

\* A process that keeps its checkpoint and goes on.
Gone(p, pc) == [pc |-> pc, at |-> work[p].at]
LEMMA ChainGoing ==
  ASSUME ChainTypeInv, NEW p \in Procs, NEW pc \in {"line", "checkpoint", "done", "none"}, work' = [work EXCEPT ![p].pc = pc]
  PROVE  ChainBecomes(p, Gone(p, pc))
<1>1. work[p] \in WorkType
  BY DEF ChainTypeInv
<1>2. Gone(p, pc) \in WorkType /\ Gone(p, pc) = [work[p] EXCEPT !.pc = pc]
  BY <1>1 DEF Gone, WorkType
<1>3. work' = [work EXCEPT ![p] = [work[p] EXCEPT !.pc = pc]]
  OBVIOUS
<1> QED BY <1>2, <1>3, ChainBecoming

LEMMA TypeStarts ==
  ASSUME Chain!ChainAssumption, Chain!Init PROVE ChainTypeInv
<1>1. Chain!Empty \in Chain!Checkpoint /\ Chain!NoWork \in WorkType /\ Chain!NoWork.pc = "none" /\ <<0, 0>> \in Stamps
  BY DEF Chain!Empty, Chain!Zero, Chain!Checkpoint, Chain!NoWork, WorkType, Stamps, Chain!ChainAssumption
<1>2. [Chain!NoVerdict EXCEPT !.ok = TRUE] \in VerdictType
  BY <1>1 DEF Chain!NoVerdict, VerdictType
<1>3. reader \in ReaderType /\ Len(reader.events) <= MaxEvents
  BY <1>1, <1>2 DEF Chain!Init, ReaderType, Chain!ChainAssumption
<1>4. log \in Seq(Chain!Record) /\ Len(log) <= MaxEvents /\ stamp[1] = 0 /\ stamp[2] = 0 /\ chain.len = 0 /\ chain.head = 0
  BY DEF Chain!Init, Chain!Empty, Chain!Zero, Chain!ChainAssumption
<1>5. \A p \in Procs : Appends(p)
  BY <1>1 DEF Chain!Init, Appends, Chain!Doing
<1>6. chain = Chain!Empty /\ stamp = <<0, 0>> /\ work = [p \in Procs |-> Chain!NoWork] /\ signed = {} /\ torn = FALSE /\ tampers = 0
  BY DEF Chain!Init
<1>7. chain \in Chain!Checkpoint /\ stamp \in Stamps /\ work \in [Procs -> WorkType]
  BY <1>1, <1>6
<1>8. chain.len <= stamp[1] /\ chain.head <= stamp[1] /\ stamp[2] <= stamp[1] /\ tampers \in Nat
  BY <1>4, <1>6
<1>9. signed \subseteq Chain!Checkpoint /\ torn \in BOOLEAN
  BY <1>6
<1> QED BY <1>3, <1>4, <1>5, <1>7, <1>8, <1>9 DEF ChainTypeInv

\* Where an append leaves the reader, the log and the lock alone.
Rest == UNCHANGED <<log, reader, signed, tampers>> /\ torn' \in BOOLEAN

\* A verification keeps its types.
LEMMA ReaderTyped ==
  ASSUME Chain!ChainAssumption, ChainTypeInv, Verifies
  PROVE  reader' \in ReaderType /\ Len(reader'.events) <= MaxEvents /\ signed' \subseteq Chain!Checkpoint
<1>1. /\ log \in Seq(Chain!Record) /\ Len(log) <= MaxEvents /\ chain \in Chain!Checkpoint /\ stamp \in Stamps
      /\ stamp[1] \in 0..MaxEvents /\ reader \in ReaderType /\ Len(reader.events) <= MaxEvents
      /\ signed \subseteq Chain!Checkpoint
  BY DEF ChainTypeInv, Stamps
<1>2. reader.stamp \in Stamps /\ reader.events \in Seq(Chain!Record) /\ reader.verdict.at \in Chain!Checkpoint
  BY <1>1 DEF ReaderType, VerdictType
<1>3. CASE Chain!Verify
  BY <1>1, <1>3 DEF Chain!Verify, Chain!Reads, ReaderType
<1>4. CASE Chain!StampEvents
  BY <1>1, <1>4 DEF Chain!StampEvents, Chain!Reads, ReaderType
<1>5. CASE Chain!ReadEvents
  BY <1>1, <1>5 DEF Chain!ReadEvents, Chain!Reads, ReaderType
<1>6. CASE Chain!ReadChain
  <2> DEFINE at0 == [len |-> Len(reader.events), head |-> Chain!Last(reader.events)]
             v == [stamp |-> Chain!Key, ok |-> Chain!Valid(reader.events, chain), at |-> at0]
  <2>1. Len(reader.events) \in 0..MaxEvents /\ Chain!Last(reader.events) \in 0..MaxEvents
    BY <1>1, <1>2, LastType DEF Chain!ChainAssumption
  <2>2. at0 \in Chain!Checkpoint
    BY <2>1 DEF Chain!Checkpoint
  <2>3. Chain!Valid(reader.events, chain) \in BOOLEAN
    BY DEF Chain!Valid, Chain!Linked
  <2>4. v \in VerdictType
    BY <1>2, <2>2, <2>3 DEF VerdictType, Chain!Key
  <2>5. reader' = [reader EXCEPT !.pc = "answered", !.verdict = v] /\ signed' = signed
    BY <1>6 DEF Chain!ReadChain, Chain!Reads
  <2> HIDE DEF v
  <2> QED BY <1>1, <2>4, <2>5 DEF ReaderType
<1>7. CASE Chain!Sign
  BY <1>1, <1>2, <1>7 DEF Chain!Sign, ReaderType
<1>8. CASE Chain!Answer
  BY <1>1, <1>8 DEF Chain!Answer, Chain!Reads, ReaderType
<1> QED BY <1>3, <1>4, <1>5, <1>6, <1>7, <1>8 DEF Verifies

LEMMA ChainTypeStep ==
  ASSUME Chain!AgeLockAssumption, Chain!ChainAssumption, ChainLockInv, ChainTypeInv, [Chain!Next]_Chain!vars PROVE ChainTypeInv'
<1>1. CASE UNCHANGED Chain!vars \/ Chain!LockStep
  <2>1. UNCHANGED Chain!chainVars
    BY <1>1 DEF Chain!vars, Chain!LockStep
  <2>2. \A p \in Procs : p \notin gone' => p \notin gone /\ (at'[p] = at[p] \/ (at[p] # "in" /\ work[p].pc = "none"))
    BY <1>1 DEF Chain!vars, Chain!lockVars, Chain!LockStep, Chain!Ages, Chain!Want, Chain!GivesUp, Chain!FindStale, Chain!Evict, Chain!Removes, Chain!Move, Chain!Alive, ChainLockInv, Chain!LockTypeOK,
                ChainTypeInv, Appends
  <2>3. \A p \in Procs : Appends(p)'
    BY <2>1, <2>2 DEF Chain!chainVars, ChainTypeInv, Appends, Chain!Doing
  <2> QED BY <2>1, <2>3 DEF Chain!chainVars, ChainTypeInv
<1>2. ASSUME NEW p \in Procs, Chain!Begin(p) PROVE ChainTypeInv'
  <2> DEFINE r == [pc |-> "line", at |-> Chain!Read]
  <2>1. ChainBecomes(p, r)
    BY <1>2, ChainBecoming DEF Chain!Begin, Chain!Read, ChainTypeInv, WorkType
  <2>2. /\ UNCHANGED <<log, chain, stamp, reader, signed, returned, wasValid, failures, tampers, torn, gone>>
        /\ at'[p] = "in" /\ \A q \in Procs : q # p => at'[q] = at[q]
    BY <1>2 DEF Chain!Begin, Chain!Take, Chain!Move, ChainLockInv, Chain!LockTypeOK
  <2>3. \A q \in Procs : Appends(q)'
    BY <2>1, <2>2 DEF ChainBecomes, Appends, Chain!Doing, Chain!Read, ChainTypeInv
  <2> QED BY <2>1, <2>2, <2>3 DEF ChainBecomes, ChainTypeInv
<1>3. ASSUME NEW p \in Procs, Chain!AppendLine(p) PROVE ChainTypeInv'
  <2>1. /\ ChainBecomes(p, Lined(p)) /\ work[p].at = chain /\ work[p].pc = "line" /\ p \notin gone
        /\ stamp' \in Stamps /\ stamp'[1] = stamp[1] + 1 /\ stamp'[2] = stamp[2]
        /\ log' \in Seq(Chain!Record) /\ Len(log') = Len(log) + 1 /\ Len(log) + 1 <= MaxEvents
    BY <1>3, Lining
  <2>2. UNCHANGED <<Chain!lockVars, chain, reader, signed, tampers, torn>>
    BY <1>3 DEF Chain!AppendLine
  <2>3. \A q \in Procs : q # p => Appends(q)'
    BY <2>1, <2>2, OneAppends DEF Chain!lockVars, ChainBecomes, Appends, Chain!Doing
  <2>4. chain.len \in Nat /\ stamp[1] \in Nat /\ stamp[2] \in Nat /\ chain.head \in Nat
    BY DEF ChainTypeInv, Chain!Checkpoint, Stamps, Chain!ChainAssumption
  <2>5. Appends(p)'
    BY <2>1, <2>2, <2>4 DEF Chain!lockVars, ChainBecomes, Appends, Chain!Doing, Lined, ChainTypeInv
  <2> QED BY <2>1, <2>2, <2>3, <2>4, <2>5 DEF ChainBecomes, ChainTypeInv
<1>4. ASSUME NEW p \in Procs, Chain!WriteCheckpoint(p) PROVE ChainTypeInv'
  <2>1. ChainBecomes(p, Gone(p, "done")) /\ work[p].pc = "checkpoint" /\ p \notin gone
    BY <1>4, ChainGoing DEF Chain!WriteCheckpoint, Chain!Doing
  <2>2. chain' = work[p].at /\ stamp' = <<stamp[1], stamp[2] + 1>> /\ UNCHANGED <<Chain!lockVars, log, reader, signed, tampers, torn>>
    BY <1>4 DEF Chain!WriteCheckpoint, Chain!TouchesChain
  <2>3. work[p].at.len <= stamp[1] /\ work[p].at.head <= stamp[1] /\ stamp[2] < stamp[1] /\ work[p].at \in Chain!Checkpoint
    BY <2>1 DEF ChainTypeInv, Appends, Chain!Doing, WorkType
  <2>4. stamp[1] \in 0..MaxEvents /\ stamp[2] \in 0..MaxEvents
    BY DEF ChainTypeInv, Stamps
  <2>5. stamp' \in Stamps /\ stamp'[1] = stamp[1] /\ stamp'[2] = stamp[2] + 1 /\ stamp[2] + 1 <= stamp[1]
    BY <2>2, <2>3, <2>4, Chain!ChainAssumption DEF Stamps, Chain!ChainAssumption
  <2>6. \A q \in Procs : Appends(q)'
    BY <2>1, <2>2, OneAppends DEF Chain!lockVars, ChainBecomes, Gone, Appends, Chain!Doing, ChainTypeInv
  <2> QED BY <2>1, <2>2, <2>3, <2>5, <2>6 DEF ChainBecomes, ChainTypeInv
<1>5. ASSUME NEW p \in Procs, Chain!Fails(p) PROVE ChainTypeInv'
  <2>1. ChainBecomes(p, Gone(p, "done")) /\ work[p].pc # "none" /\ p \notin gone
    BY <1>5, ChainGoing DEF Chain!Fails, Chain!Doing
  <2>2. UNCHANGED <<Chain!lockVars, log, chain, stamp, reader, signed, tampers>> /\ torn' \in BOOLEAN
    BY <1>5 DEF Chain!Fails, Chain!Tears, Chain!Doing, ChainTypeInv
  <2>3. \A q \in Procs : Appends(q)'
    BY <2>1, <2>2 DEF Chain!lockVars, ChainBecomes, Gone, Appends, Chain!Doing, ChainTypeInv
  <2> QED BY <2>1, <2>2, <2>3 DEF ChainBecomes, ChainTypeInv
<1>6. ASSUME NEW p \in Procs, Chain!End(p) PROVE ChainTypeInv'
  <2>1. Chain!NoWork \in WorkType /\ Chain!NoWork.pc = "none"
    BY DEF Chain!NoWork, WorkType, Chain!Empty, Chain!Zero, Chain!Checkpoint, Chain!ChainAssumption
  <2>2. ChainBecomes(p, Chain!NoWork)
    BY <1>6, <2>1, ChainBecoming DEF Chain!End
  <2>3. /\ UNCHANGED <<gone, log, chain, stamp, reader, signed, tampers, torn>>
        /\ \A q \in Procs : q # p => at'[q] = at[q]
    BY <1>6 DEF Chain!End, Chain!Leave, Chain!Move, ChainLockInv, Chain!LockTypeOK
  <2>4. \A q \in Procs : Appends(q)'
    BY <2>1, <2>2, <2>3 DEF ChainBecomes, Appends, Chain!Doing, ChainTypeInv
  <2> QED BY <2>2, <2>3, <2>4 DEF ChainBecomes, ChainTypeInv
<1>7. ASSUME NEW p \in Procs, Chain!AppenderDies(p) PROVE ChainTypeInv'
  <2>1. /\ UNCHANGED <<at, log, chain, stamp, work, reader, signed, tampers>> /\ torn' \in BOOLEAN
        /\ gone' = gone \cup {p}
    BY <1>7 DEF Chain!AppenderDies, Chain!Tears, Chain!Dies, Chain!Doing, ChainTypeInv
  <2>2. \A q \in Procs : Appends(q)'
    BY <2>1 DEF Appends, Chain!Doing, ChainTypeInv
  <2> QED BY <2>1, <2>2 DEF ChainTypeInv
<1>8. ASSUME NEW i \in DOMAIN log, Chain!Tamper(i) PROVE ChainTypeInv'
  <2>1. log' \in Seq(Chain!Record) /\ Len(log') <= MaxEvents
    BY <1>8, TamperType DEF ChainTypeInv, Chain!ChainAssumption
  <2>2. stamp[1] \in 0..MaxEvents /\ stamp[2] \in 0..MaxEvents /\ stamp[1] < MaxEvents /\ stamp' = <<stamp[1] + 1, stamp[2]>>
    BY <1>8 DEF Chain!Tamper, Chain!TouchesLog, ChainTypeInv, Stamps
  <2>3. stamp' \in Stamps /\ stamp'[1] = stamp[1] + 1 /\ stamp'[2] = stamp[2]
    BY <2>2 DEF Stamps, Chain!ChainAssumption
  <2>4. UNCHANGED <<Chain!lockVars, chain, work, reader, signed, torn>> /\ tampers' \in Nat
    BY <1>8 DEF Chain!Tamper, ChainTypeInv
  <2>5. \A p \in Procs : work[p].at \in Chain!Checkpoint
    BY DEF ChainTypeInv, WorkType
  <2>6. \A p \in Procs : work[p].at.len \in Nat /\ work[p].at.head \in Nat
    BY <2>5 DEF Chain!Checkpoint, Chain!ChainAssumption
  <2>7. \A p \in Procs : Appends(p)'
    BY <2>2, <2>3, <2>4, <2>6 DEF Chain!lockVars, Appends, Chain!Doing, ChainTypeInv
  <2>8. chain.len <= stamp'[1] /\ chain.head <= stamp'[1] /\ stamp'[2] <= stamp'[1]
    BY <2>2, <2>3 DEF ChainTypeInv, Chain!Checkpoint
  <2> QED BY <2>1, <2>3, <2>4, <2>7, <2>8 DEF ChainTypeInv
<1>9. ASSUME Verifies PROVE ChainTypeInv'
  <2>1. Looks /\ reader' \in ReaderType /\ Len(reader'.events) <= MaxEvents /\ signed' \subseteq Chain!Checkpoint
    BY <1>9, VerifyLooks, ReaderTyped
  <2>2. \A p \in Procs : Appends(p)'
    BY <2>1 DEF Looks, Chain!lockVars, ChainTypeInv, Appends, Chain!Doing
  <2> QED BY <2>1, <2>2 DEF Looks, ChainTypeInv
<1> QED BY <1>1, <1>2, <1>3, <1>4, <1>5, <1>6, <1>7, <1>8, <1>9, ChainStepCases

-----------------------------------------------------------------------------
(* A verdict belongs to its stamps *)

LEMMA StampTypes ==
  ASSUME Chain!ChainAssumption, ChainTypeInv
  PROVE  /\ stamp[1] \in Nat /\ stamp[2] \in Nat /\ reader.stamp[1] \in Nat /\ reader.stamp[2] \in Nat
         /\ reader.eventsStamp \in Nat /\ reader.verdict.stamp[1] \in Nat /\ reader.verdict.stamp[2] \in Nat
         /\ stamp \in Stamps /\ reader.stamp \in Stamps /\ reader.verdict.stamp \in Stamps
         /\ reader \in ReaderType
<1>1. stamp \in Stamps /\ reader.stamp \in Stamps /\ reader.verdict.stamp \in Stamps /\ reader.eventsStamp \in 0..MaxEvents
      /\ reader \in ReaderType
  BY DEF ChainTypeInv, ReaderType, VerdictType
<1>2. \A s \in Stamps : s[1] \in Nat /\ s[2] \in Nat
  BY DEF Stamps, Chain!ChainAssumption
<1> QED BY <1>1, <1>2 DEF Chain!ChainAssumption

\* A step of an append or an edit: a log that changes has a new stamp, and so has
\* a checkpoint.
LEMMA ReadWrites ==
  ASSUME Chain!ChainAssumption, ChainTypeInv, ReadInv, UNCHANGED reader,
         stamp'[1] \in Nat, stamp'[2] \in Nat, stamp[1] <= stamp'[1], stamp[2] <= stamp'[2],
         log' # log => stamp'[1] > stamp[1], chain' # chain => stamp'[2] > stamp[2]
  PROVE  ReadInv'
<1> /\ stamp[1] \in Nat /\ stamp[2] \in Nat /\ reader.stamp[1] \in Nat /\ reader.stamp[2] \in Nat
    /\ reader.eventsStamp \in Nat /\ reader.verdict.stamp[1] \in Nat /\ reader.verdict.stamp[2] \in Nat
  BY StampTypes
<1>1. reader.pc # "read" /\ reader.eventsStamp = stamp'[1] => reader.events = log'
  BY DEF ReadInv
<1>2. reader.verdict.stamp = stamp' => stamp'[1] = stamp[1] /\ stamp'[2] = stamp[2] /\ reader.verdict.stamp = stamp
  <2> SUFFICES ASSUME reader.verdict.stamp = stamp'
               PROVE  stamp'[1] = stamp[1] /\ stamp'[2] = stamp[2] /\ reader.verdict.stamp = stamp
    OBVIOUS
  <2>1. stamp'[1] = stamp[1] /\ stamp'[2] = stamp[2]
    BY DEF ReadInv
  <2>2. reader.verdict.stamp \in Stamps /\ stamp \in Stamps
    BY StampTypes
  <2> QED BY <2>1, <2>2 DEF Stamps
<1>3. Chain!FreshVerdictTrue'
  BY <1>2 DEF ReadInv, Chain!FreshVerdictTrue
<1> QED BY <1>1, <1>3 DEF ReadInv

LEMMA ReadStep ==
  ASSUME Chain!AgeLockAssumption, Chain!ChainAssumption, ChainLockInv, ChainTypeInv, ReadInv, [Chain!Next]_Chain!vars PROVE ReadInv'
<1>types. /\ stamp[1] \in Nat /\ stamp[2] \in Nat /\ reader.stamp[1] \in Nat /\ reader.stamp[2] \in Nat
          /\ reader.eventsStamp \in Nat /\ reader.verdict.stamp[1] \in Nat /\ reader.verdict.stamp[2] \in Nat
          /\ reader \in ReaderType
  BY StampTypes
<1>1. ASSUME UNCHANGED <<log, chain, stamp, reader>> PROVE ReadInv'
  BY <1>1 DEF ReadInv, Chain!FreshVerdictTrue
<1>2. CASE UNCHANGED Chain!vars \/ Chain!LockStep
  BY <1>1, <1>2 DEF Chain!vars, Chain!chainVars, Chain!LockStep
<1>3. ASSUME NEW p \in Procs, Chain!Begin(p) \/ Chain!Fails(p) \/ Chain!End(p) \/ Chain!AppenderDies(p) PROVE ReadInv'
  BY <1>1, <1>3 DEF Chain!Begin, Chain!Fails, Chain!End, Chain!AppenderDies
<1>4. ASSUME NEW p \in Procs, Chain!AppendLine(p) PROVE ReadInv'
  <2>1. stamp'[1] = stamp[1] + 1 /\ stamp'[2] = stamp[2] /\ UNCHANGED <<chain, reader>>
    BY <1>4, Lining DEF Chain!AppendLine
  <2> QED BY <1>types, <2>1, ReadWrites
<1>5. ASSUME NEW p \in Procs, Chain!WriteCheckpoint(p) PROVE ReadInv'
  <2>1. stamp' = <<stamp[1], stamp[2] + 1>> /\ UNCHANGED <<log, reader>>
    BY <1>5 DEF Chain!WriteCheckpoint, Chain!TouchesChain
  <2> QED BY <1>types, <2>1, ReadWrites
<1>6. ASSUME NEW i \in DOMAIN log, Chain!Tamper(i) PROVE ReadInv'
  <2>1. stamp' = <<stamp[1] + 1, stamp[2]>> /\ UNCHANGED <<chain, reader>>
    BY <1>6 DEF Chain!Tamper, Chain!TouchesLog
  <2> QED BY <1>types, <2>1, ReadWrites
<1>7. ASSUME Verifies PROVE ReadInv'
  <2>1. UNCHANGED <<log, chain, stamp>>
    BY <1>7, VerifyLooks DEF Looks
  <2>2. CASE Chain!Verify
    BY <1>types, <2>1, <2>2 DEF Chain!Verify, Chain!Reads, ReadInv, Chain!FreshVerdictTrue, ReaderType
  <2>3. CASE Chain!StampEvents
    BY <1>types, <2>1, <2>3 DEF Chain!StampEvents, Chain!Reads, ReadInv, Chain!FreshVerdictTrue, ReaderType
  <2>4. CASE Chain!ReadEvents
    BY <1>types, <2>1, <2>4 DEF Chain!ReadEvents, Chain!Reads, ReadInv, Chain!FreshVerdictTrue, ReaderType
  <2>5. CASE Chain!ReadChain
    <3> DEFINE v == [stamp |-> Chain!Key, ok |-> Chain!Valid(reader.events, chain),
                     at |-> [len |-> Len(reader.events), head |-> Chain!Last(reader.events)]]
    <3>1. v.stamp = reader.stamp /\ v.ok = Chain!Valid(reader.events, chain)
      BY DEF Chain!Key
    <3>2. reader' = [reader EXCEPT !.pc = "answered", !.verdict = v] /\ reader.pc = "chain"
      BY <2>5 DEF Chain!ReadChain, Chain!Reads
    <3> HIDE DEF v
    <3>3. /\ reader'.pc = "answered" /\ reader'.stamp = reader.stamp /\ reader'.eventsStamp = reader.eventsStamp
          /\ reader'.events = reader.events /\ reader'.verdict = v
      BY <1>types, <3>2 DEF ReaderType
    <3>4. reader.stamp = stamp => v.ok = Chain!Valid(log, chain)
      <4>1. reader.stamp = stamp => reader.eventsStamp = stamp[1]
        BY <1>types, <3>2 DEF ReadInv
      <4> QED BY <3>1, <3>2, <4>1 DEF ReadInv
    <3> QED BY <2>1, <3>1, <3>2, <3>3, <3>4 DEF ReadInv, Chain!FreshVerdictTrue
  <2>6. CASE Chain!Sign
    BY <1>types, <2>1, <2>6 DEF Chain!Sign, ReadInv, Chain!FreshVerdictTrue, ReaderType
  <2>7. CASE Chain!Answer
    BY <1>types, <2>1, <2>7 DEF Chain!Answer, Chain!Reads, ReadInv, Chain!FreshVerdictTrue, ReaderType
  <2> QED BY <1>7, <2>2, <2>3, <2>4, <2>5, <2>6, <2>7 DEF Verifies
<1> QED BY <1>2, <1>3, <1>4, <1>5, <1>6, <1>7, ChainStepCases

LEMMA ReadStarts == ASSUME Chain!Init PROVE ReadInv
<1>1. log = <<>> /\ chain = Chain!Empty /\ stamp = <<0, 0>>
  BY DEF Chain!Init
<1>2. reader.pc = "idle" /\ reader.stamp = <<0, 0>> /\ reader.eventsStamp = 0 /\ reader.events = <<>>
      /\ reader.verdict.stamp = <<0, 0>> /\ reader.verdict.ok = TRUE
  BY DEF Chain!Init, Chain!NoVerdict
<1>3. Chain!Valid(<<>>, Chain!Empty) = TRUE
  BY DEF Chain!Valid, Chain!Linked, Chain!Empty, Chain!Last
<1>4. Chain!FreshVerdictTrue
  BY <1>1, <1>2, <1>3 DEF Chain!FreshVerdictTrue
<1>5. stamp[1] = 0 /\ stamp[2] = 0 /\ reader.stamp[1] = 0 /\ reader.stamp[2] = 0
      /\ reader.verdict.stamp[1] = 0 /\ reader.verdict.stamp[2] = 0
  BY <1>1, <1>2
<1> QED BY <1>1, <1>2, <1>4, <1>5 DEF ReadInv

-----------------------------------------------------------------------------
(* A torn line stays visible *)

LEMMA TornStep ==
  ASSUME Chain!AgeLockAssumption, Chain!ChainAssumption, ChainLockInv, ChainTypeInv, TornInv, [Chain!Next]_Chain!vars PROVE TornInv'
<1>types. /\ Len(log) \in Nat /\ chain.len \in Nat /\ tampers \in Nat
          /\ \A p \in Procs : work[p].at.len \in Nat
  <2>1. \A p \in Procs : work[p].at \in Chain!Checkpoint
    BY DEF ChainTypeInv, WorkType
  <2> QED BY <2>1 DEF ChainTypeInv, Chain!Checkpoint, Chain!ChainAssumption
<1>1. ASSUME UNCHANGED <<log, chain, torn, tampers>>, \A p \in Procs : Chain!Doing(p, "checkpoint")' => Chain!Doing(p, "checkpoint") /\ work'[p] = work[p]
      PROVE  TornInv'
  BY <1>1 DEF TornInv
<1>2. CASE UNCHANGED Chain!vars \/ Chain!LockStep
  <2>1. UNCHANGED Chain!chainVars /\ gone' = gone
    BY <1>2 DEF Chain!vars, Chain!lockVars, Chain!LockStep, Chain!Ages, Chain!Want, Chain!GivesUp, Chain!FindStale, Chain!Evict
  <2> QED BY <1>1, <2>1 DEF Chain!chainVars, Chain!Doing
<1>3. ASSUME NEW p \in Procs, Chain!Begin(p) PROVE TornInv'
  <2> DEFINE r == [pc |-> "line", at |-> Chain!Read]
  <2>1. ChainBecomes(p, r) /\ UNCHANGED <<log, chain, torn, tampers, gone>>
    BY <1>3, ChainBecoming DEF Chain!Begin, Chain!Take, Chain!Read, ChainTypeInv, WorkType
  <2> QED BY <1>1, <2>1 DEF ChainBecomes, Chain!Doing
<1>4. ASSUME NEW p \in Procs, Chain!AppendLine(p) PROVE TornInv'
  <2>1. /\ ChainBecomes(p, Lined(p)) /\ work[p].at = chain /\ work[p].pc = "line" /\ p \notin gone
        /\ Len(log') = Len(log) + 1
    BY <1>4, Lining
  <2>2. UNCHANGED <<Chain!lockVars, chain, tampers, torn>>
    BY <1>4 DEF Chain!AppendLine
  <2>3. \A q \in Procs : q # p => ~Chain!Doing(q, "checkpoint")'
    BY <2>1, <2>2, OneAppends DEF Chain!lockVars, ChainBecomes, Chain!Doing
  <2>4. work'[p].at.len = chain.len + 1
    BY <2>1 DEF ChainBecomes, Lined
  <2> QED BY <1>types, <2>1, <2>2, <2>3, <2>4 DEF Chain!lockVars, TornInv
<1>5. ASSUME NEW p \in Procs, Chain!WriteCheckpoint(p) PROVE TornInv'
  <2>1. ChainBecomes(p, Gone(p, "done")) /\ work[p].pc = "checkpoint" /\ p \notin gone
    BY <1>5, ChainGoing DEF Chain!WriteCheckpoint, Chain!Doing
  <2>2. chain' = work[p].at /\ UNCHANGED <<Chain!lockVars, log, tampers, torn>>
    BY <1>5 DEF Chain!WriteCheckpoint
  <2>3. \A q \in Procs : ~Chain!Doing(q, "checkpoint")'
    BY <2>1, <2>2, OneAppends DEF Chain!lockVars, ChainBecomes, Chain!Doing, Gone
  <2> QED BY <1>types, <2>1, <2>2, <2>3 DEF TornInv, Chain!Doing
<1>6. ASSUME NEW p \in Procs, Chain!Fails(p) PROVE TornInv'
  <2>1. ChainBecomes(p, Gone(p, "done")) /\ p \notin gone /\ work[p].pc # "none"
    BY <1>6, ChainGoing DEF Chain!Fails, Chain!Doing
  <2>2. UNCHANGED <<Chain!lockVars, log, chain, tampers>> /\ torn' = (torn \/ Chain!Doing(p, "checkpoint"))
    BY <1>6 DEF Chain!Fails, Chain!Tears
  <2>3. \A q \in Procs : ~Chain!Doing(q, "checkpoint")'
    BY <2>1, <2>2, OneAppends DEF Chain!lockVars, ChainBecomes, Chain!Doing, Gone
  <2>4. Chain!Doing(p, "checkpoint") => work[p].at.len = chain.len + 1
    BY DEF ChainTypeInv, Appends
  <2>5. CASE Chain!Doing(p, "checkpoint")
    BY <1>types, <2>2, <2>3, <2>4, <2>5 DEF TornInv
  <2>6. CASE ~Chain!Doing(p, "checkpoint")
    BY <2>2, <2>3, <2>6 DEF TornInv, ChainTypeInv
  <2> QED BY <2>5, <2>6
<1>7. ASSUME NEW p \in Procs, Chain!End(p) PROVE TornInv'
  <2>1. Chain!NoWork \in WorkType /\ Chain!NoWork.pc = "none"
    BY DEF Chain!NoWork, WorkType, Chain!Empty, Chain!Zero, Chain!Checkpoint, Chain!ChainAssumption
  <2>2. ChainBecomes(p, Chain!NoWork) /\ UNCHANGED <<log, chain, tampers, torn, gone>>
    BY <1>7, <2>1, ChainBecoming DEF Chain!End, Chain!Leave
  <2> QED BY <1>1, <2>1, <2>2 DEF ChainBecomes, Chain!Doing
<1>8. ASSUME NEW p \in Procs, Chain!AppenderDies(p) PROVE TornInv'
  <2>1. UNCHANGED <<log, chain, work, tampers>> /\ torn' = (torn \/ Chain!Doing(p, "checkpoint")) /\ gone' = gone \cup {p}
    BY <1>8 DEF Chain!AppenderDies, Chain!Dies, Chain!Tears
  <2>2. CASE Chain!Doing(p, "checkpoint")
    <3>1. \A q \in Procs : ~Chain!Doing(q, "checkpoint")'
      BY <2>1, <2>2, OneAppends DEF Chain!Doing
    <3>2. work[p].at.len = chain.len + 1
      BY <2>2 DEF ChainTypeInv, Appends
    <3> QED BY <1>types, <2>1, <2>2, <3>1, <3>2 DEF TornInv
  <2>3. CASE ~Chain!Doing(p, "checkpoint")
    BY <2>1, <2>3 DEF TornInv, Chain!Doing, ChainTypeInv
  <2> QED BY <2>2, <2>3
<1>9. ASSUME NEW i \in DOMAIN log, Chain!Tamper(i) PROVE TornInv'
  BY <1>9, <1>types DEF Chain!Tamper, TornInv
<1>10. ASSUME Verifies PROVE TornInv'
  BY <1>1, <1>10, VerifyLooks DEF Looks, Chain!lockVars, Chain!Doing
<1> QED BY <1>2, <1>3, <1>4, <1>5, <1>6, <1>7, <1>8, <1>9, <1>10, ChainStepCases

LEMMA TornStarts == ASSUME Chain!ChainAssumption, Chain!Init PROVE TornInv
<1>1. \A p \in Procs : ~Chain!Doing(p, "checkpoint")
  BY DEF Chain!Init, Chain!Doing, Chain!NoWork
<1> QED BY <1>1 DEF Chain!Init, TornInv, Chain!Empty

-----------------------------------------------------------------------------
(* The chain is intact *)

Checkpointing(p) == Chain!Doing(p, "checkpoint")' <=> Chain!Doing(p, "checkpoint")

LEMMA IntactSame ==
  ASSUME IntactInv, UNCHANGED <<log, chain, returned, torn, tampers, wasValid>>,
         \A p \in Procs : Checkpointing(p), \A p \in Procs : Chain!Doing(p, "checkpoint") => work'[p] = work[p]
  PROVE  IntactInv'
  BY DEF IntactInv, Chain!Untouched, Checkpointing

\* Nobody is between the two writes but the one who is.
LEMMA OnlyCheckpoint ==
  ASSUME ChainLockInv, ChainTypeInv, NEW p \in Procs, p \notin gone, work[p].pc # "none"
  PROVE  \A q \in Procs : q # p => ~Chain!Doing(q, "checkpoint") /\ ~Chain!Doing(q, "line")
  BY OneAppends DEF Chain!Doing

LEMMA IntactStarts == ASSUME Chain!ChainAssumption, Chain!Init PROVE IntactInv
<1>1. \A p \in Procs : ~Chain!Doing(p, "checkpoint")
  BY DEF Chain!Init, Chain!Doing, Chain!NoWork
<1>2. Chain!Valid(log, chain)
  BY DEF Chain!Init, Chain!Valid, Chain!Linked, Chain!Empty, Chain!Last
<1> QED BY <1>1, <1>2 DEF Chain!Init, IntactInv

\* A line written on a valid chain makes a valid one of its checkpoint.
LEMMA LineValid ==
  ASSUME Chain!ChainAssumption, ChainTypeInv, NEW p \in Procs, Chain!AppendLine(p), Chain!Valid(log, chain)
  PROVE  Chain!Valid(log', Lined(p).at)
<1>1. /\ Chain!NextRecord(p) \in Chain!Record /\ work[p].at = chain /\ log' = Append(log, Chain!NextRecord(p)) /\ Len(log') = Len(log) + 1
  BY Lining
<1>2. log \in Seq(Chain!Record) /\ chain.len = Len(log) /\ chain.head = Chain!Last(log) /\ Chain!Linked(log)
  BY DEF ChainTypeInv, Chain!Valid
<1>3. Chain!NextRecord(p).seq = Len(log) + 1 /\ Chain!NextRecord(p).prev = Chain!Last(log) /\ Chain!NextRecord(p).good /\ Chain!NextRecord(p).hash = stamp[1] + 1
  BY <1>1, <1>2 DEF Chain!NextRecord
<1>4. Chain!Linked(log')
  BY <1>1, <1>2, <1>3, AppendLinked
<1>5. Lined(p).at.len = Len(log) + 1 /\ Lined(p).at.head = stamp[1] + 1
  BY <1>1, <1>2 DEF Lined
<1>6. log' # <<>> /\ log'[Len(log')] = Chain!NextRecord(p)
  BY <1>1, <1>2
<1>7. Chain!Last(log') = stamp[1] + 1
  BY <1>3, <1>6 DEF Chain!Last
<1> QED BY <1>1, <1>4, <1>5, <1>7 DEF Chain!Valid

LEMMA IntactStep ==
  ASSUME Chain!AgeLockAssumption, Chain!ChainAssumption, ChainLockInv, ChainTypeInv, IntactInv, [Chain!Next]_Chain!vars PROVE IntactInv'
<1>1. CASE UNCHANGED Chain!vars \/ Chain!LockStep
  <2>1. UNCHANGED Chain!chainVars /\ gone' = gone
    BY <1>1 DEF Chain!vars, Chain!lockVars, Chain!LockStep, Chain!Ages, Chain!Want, Chain!GivesUp, Chain!FindStale, Chain!Evict
  <2> QED BY <2>1, IntactSame DEF Chain!chainVars, Chain!Doing, Checkpointing
<1>2. ASSUME NEW p \in Procs, Chain!Begin(p) PROVE IntactInv'
  <2> DEFINE r == [pc |-> "line", at |-> Chain!Read]
  <2>1. ChainBecomes(p, r) /\ UNCHANGED <<log, chain, returned, torn, tampers, wasValid, gone>>
    BY <1>2, ChainBecoming DEF Chain!Begin, Chain!Take, Chain!Read, ChainTypeInv, WorkType
  <2>2. work[p].pc = "none"
    BY <1>2 DEF Chain!Begin, Chain!Take, Chain!Alive, ChainTypeInv, Appends
  <2> QED BY <2>1, <2>2, IntactSame DEF ChainBecomes, Chain!Doing, Checkpointing
<1>3. ASSUME NEW p \in Procs, Chain!AppendLine(p) PROVE IntactInv'
  <2>1. /\ ChainBecomes(p, Lined(p)) /\ work[p].at = chain /\ work[p].pc = "line" /\ p \notin gone
        /\ Chain!NextRecord(p) \in Chain!Record /\ log' = Append(log, Chain!NextRecord(p))
    BY <1>3, Lining
  <2>2. UNCHANGED <<Chain!lockVars, chain, tampers, torn, returned>>
    BY <1>3 DEF Chain!AppendLine
  <2>3. \A q \in Procs : ~Chain!Doing(q, "checkpoint")
    BY <2>1, OnlyCheckpoint DEF Chain!Doing
  <2>4. \A q \in Procs : q # p => ~Chain!Doing(q, "checkpoint")'
    BY <2>1, <2>2, <2>3 DEF Chain!lockVars, ChainBecomes, Chain!Doing
  <2>5. Chain!Doing(p, "checkpoint")' /\ work'[p] = Lined(p)
    BY <2>1, <2>2 DEF Chain!lockVars, ChainBecomes, Chain!Doing, Lined
  <2>6. Chain!Untouched => Chain!Valid(log', Lined(p).at)
    BY <1>3, <2>3, LineValid DEF IntactInv
  <2>7. \A i \in DOMAIN log : i \in DOMAIN log' /\ log'[i] = log[i]
    BY <2>1 DEF ChainTypeInv
  <2> QED BY <2>2, <2>4, <2>5, <2>6, <2>7 DEF IntactInv, Chain!Untouched
<1>4. ASSUME NEW p \in Procs, Chain!WriteCheckpoint(p) PROVE IntactInv'
  <2>1. ChainBecomes(p, Gone(p, "done")) /\ work[p].pc = "checkpoint" /\ p \notin gone
    BY <1>4, ChainGoing DEF Chain!WriteCheckpoint, Chain!Doing
  <2>2. /\ chain' = work[p].at /\ UNCHANGED <<Chain!lockVars, log, tampers, torn>>
        /\ returned' = returned \cup {[seq |-> work[p].at.len, hash |-> work[p].at.head]}
    BY <1>4 DEF Chain!WriteCheckpoint
  <2>3. \A q \in Procs : ~Chain!Doing(q, "checkpoint")'
    BY <2>1, <2>2, OnlyCheckpoint DEF Chain!lockVars, ChainBecomes, Chain!Doing, Gone
  <2>4. Chain!Untouched => Chain!Valid(log, work[p].at)
    BY <2>1 DEF IntactInv, Chain!Doing
  <2>5. work[p].at.len = chain.len + 1 /\ chain.len \in Nat /\ log \in Seq(Chain!Record)
    BY <2>1 DEF ChainTypeInv, Appends, Chain!Doing, Chain!Checkpoint, Chain!ChainAssumption
  <2>6. Chain!Untouched => work[p].at.len \in DOMAIN log /\ log[work[p].at.len].hash = work[p].at.head
    BY <2>4, <2>5 DEF Chain!Valid, Chain!Last
  <2> QED BY <2>2, <2>3, <2>4, <2>6 DEF IntactInv, Chain!Untouched
<1>5. ASSUME NEW p \in Procs, Chain!Fails(p) PROVE IntactInv'
  <2>1. ChainBecomes(p, Gone(p, "done")) /\ p \notin gone /\ work[p].pc # "none"
    BY <1>5, ChainGoing DEF Chain!Fails, Chain!Doing
  <2>2. UNCHANGED <<Chain!lockVars, log, chain, tampers, returned, wasValid>> /\ torn' = (torn \/ Chain!Doing(p, "checkpoint"))
    BY <1>5 DEF Chain!Fails, Chain!Tears
  <2>3. CASE Chain!Doing(p, "checkpoint")
    BY <2>2, <2>3 DEF IntactInv, Chain!Untouched
  <2>4. CASE ~Chain!Doing(p, "checkpoint")
    <3>1. torn' = torn
      BY <2>2, <2>4 DEF ChainTypeInv
    <3> QED BY <2>1, <2>2, <2>4, <3>1, IntactSame DEF Chain!lockVars, ChainBecomes, Gone, Chain!Doing, Checkpointing
  <2> QED BY <2>3, <2>4
<1>6. ASSUME NEW p \in Procs, Chain!End(p) PROVE IntactInv'
  <2>1. Chain!NoWork \in WorkType /\ Chain!NoWork.pc = "none"
    BY DEF Chain!NoWork, WorkType, Chain!Empty, Chain!Zero, Chain!Checkpoint, Chain!ChainAssumption
  <2>2. ChainBecomes(p, Chain!NoWork) /\ UNCHANGED <<log, chain, returned, torn, tampers, wasValid, gone>> /\ work[p].pc = "done"
    BY <1>6, <2>1, ChainBecoming DEF Chain!End, Chain!Leave, Chain!Doing
  <2> QED BY <2>1, <2>2, IntactSame DEF ChainBecomes, Chain!Doing, Checkpointing
<1>7. ASSUME NEW p \in Procs, Chain!AppenderDies(p) PROVE IntactInv'
  <2>1. UNCHANGED <<log, chain, work, tampers, returned, wasValid>> /\ torn' = (torn \/ Chain!Doing(p, "checkpoint"))
        /\ gone' = gone \cup {p}
    BY <1>7 DEF Chain!AppenderDies, Chain!Dies, Chain!Tears
  <2>2. CASE Chain!Doing(p, "checkpoint")
    BY <2>1, <2>2 DEF IntactInv, Chain!Untouched
  <2>3. CASE ~Chain!Doing(p, "checkpoint")
    <3>1. torn' = torn
      BY <2>1, <2>3 DEF ChainTypeInv
    <3> QED BY <2>1, <2>3, <3>1, IntactSame DEF Chain!Doing, Checkpointing
  <2> QED BY <2>2, <2>3
<1>8. ASSUME NEW i \in DOMAIN log, Chain!Tamper(i) PROVE IntactInv'
  BY <1>8 DEF Chain!Tamper, IntactInv, Chain!Untouched, ChainTypeInv
<1>9. ASSUME Verifies PROVE IntactInv'
  BY <1>9, VerifyLooks, IntactSame DEF Looks, Chain!lockVars, Chain!Doing, Checkpointing
<1> QED BY <1>1, <1>2, <1>3, <1>4, <1>5, <1>6, <1>7, <1>8, <1>9, ChainStepCases

-----------------------------------------------------------------------------
(* What is signed was true *)

LEMMA SignStarts == ASSUME Chain!ChainAssumption, Chain!Init PROVE SignInv
<1>1. \A p \in Procs : ~Chain!Doing(p, "checkpoint")
  BY DEF Chain!Init, Chain!Doing, Chain!NoWork
<1>2. log = <<>> /\ chain = Chain!Empty /\ stamp = <<0, 0>> /\ wasValid = {Chain!Empty} /\ signed = {}
  BY DEF Chain!Init
<1>3. reader.events = <<>> /\ reader.verdict.at = Chain!Empty
  BY DEF Chain!Init, Chain!NoVerdict
<1>4. Upto(Len(reader.events)) = <<>>
  BY <1>2, <1>3 DEF Upto
<1>5. stamp[1] = 0 /\ Len(log) = 0
  BY <1>2
<1> QED BY <1>1, <1>2, <1>3, <1>4, <1>5 DEF SignInv

\* A step that leaves the files and the reader alone.
LEMMA SignSame ==
  ASSUME SignInv, UNCHANGED <<log, chain, stamp, reader, signed, tampers, wasValid>>,
         \A p \in Procs : Chain!Doing(p, "checkpoint")' => Chain!Doing(p, "checkpoint") /\ work'[p] = work[p]
  PROVE  SignInv'
  BY DEF SignInv, Upto

\* A step of a verification that leaves what it has read.
LEMMA SignReads ==
  ASSUME SignInv, Looks, reader'.verdict = reader.verdict, signed' \subseteq signed \cup {x \in {reader.verdict.at} : reader.verdict.ok},
         reader'.events = reader.events \/ reader'.events = log, log \in Seq(Chain!Record)
  PROVE  SignInv'
<1>1. Upto(Len(log)) = log
  BY DEF Upto
<1>2. tampers = 0 => Len(reader'.events) <= Len(log) /\ reader'.events = Upto(Len(reader'.events))
  BY <1>1 DEF SignInv
<1> QED BY <1>2 DEF SignInv, Looks, Chain!lockVars, Upto, Chain!Doing

\* A verdict of what was read is one of a checkpoint that was true.
LEMMA VerdictTrue ==
  ASSUME Chain!ChainAssumption, ChainTypeInv, SignInv, tampers = 0, Chain!Valid(reader.events, chain)
  PROVE  [len |-> Len(reader.events), head |-> Chain!Last(reader.events)] \in wasValid
<1> DEFINE n == Len(reader.events)
<1>1. log \in Seq(Chain!Record) /\ reader.events \in Seq(Chain!Record) /\ chain \in Chain!Checkpoint
  BY DEF ChainTypeInv, ReaderType
<1>2. n \in Nat /\ n <= Len(log) /\ reader.events = Upto(n) /\ \A i \in DOMAIN log : log[i].hash = i
  BY <1>1 DEF SignInv
<1>3. Chain!Last(reader.events) = n
  <2>1. CASE n = 0
    BY <1>1, <2>1 DEF Chain!Last, Chain!Zero
  <2>2. CASE n # 0
    <3>1. n \in 1..Len(log) /\ n \in DOMAIN log /\ reader.events # <<>>
      BY <1>1, <1>2, <2>2
    <3>2. Upto(n)[n] = log[n]
      BY <1>1, <3>1 DEF Upto
    <3> QED BY <1>2, <3>1, <3>2 DEF Chain!Last
  <2> QED BY <2>1, <2>2
<1>4. chain.len = n /\ chain.head = n
  BY <1>3 DEF Chain!Valid
<1>5. chain = [len |-> n, head |-> Chain!Last(reader.events)]
  BY <1>1, <1>3, <1>4 DEF Chain!Checkpoint
<1>6. Chain!Valid(Upto(chain.head), chain)
  BY <1>2, <1>4
<1> QED BY <1>5, <1>6 DEF SignInv

LEMMA SignStep ==
  ASSUME Chain!AgeLockAssumption, Chain!ChainAssumption, ChainLockInv, ChainTypeInv, SignInv, [Chain!Next]_Chain!vars PROVE SignInv'
<1>types. /\ log \in Seq(Chain!Record) /\ Len(log) \in Nat /\ stamp[1] \in Nat /\ chain.head \in Nat /\ tampers \in Nat
          /\ reader \in ReaderType /\ reader.events \in Seq(Chain!Record) /\ Len(reader.events) \in Nat
  BY StampTypes DEF ChainTypeInv, Chain!Checkpoint, Chain!ChainAssumption, ReaderType
<1>1. CASE UNCHANGED Chain!vars \/ Chain!LockStep
  <2>1. UNCHANGED Chain!chainVars /\ gone' = gone
    BY <1>1 DEF Chain!vars, Chain!lockVars, Chain!LockStep, Chain!Ages, Chain!Want, Chain!GivesUp, Chain!FindStale, Chain!Evict
  <2> QED BY <2>1, SignSame DEF Chain!chainVars, Chain!Doing
<1>2. ASSUME NEW p \in Procs, Chain!Begin(p) PROVE SignInv'
  <2> DEFINE r == [pc |-> "line", at |-> Chain!Read]
  <2>1. ChainBecomes(p, r) /\ UNCHANGED <<log, chain, stamp, reader, signed, tampers, wasValid, gone>>
    BY <1>2, ChainBecoming DEF Chain!Begin, Chain!Take, Chain!Read, ChainTypeInv, WorkType
  <2> QED BY <2>1, SignSame DEF ChainBecomes, Chain!Doing
<1>3. ASSUME NEW p \in Procs, Chain!AppendLine(p) PROVE SignInv'
  <2>1. /\ ChainBecomes(p, Lined(p)) /\ work[p].pc = "line" /\ p \notin gone
        /\ Chain!NextRecord(p) \in Chain!Record /\ log' = Append(log, Chain!NextRecord(p)) /\ Len(log') = Len(log) + 1
        /\ stamp'[1] = stamp[1] + 1
    BY <1>3, Lining
  <2>2. UNCHANGED <<Chain!lockVars, chain, reader, signed, tampers, wasValid>>
    BY <1>3 DEF Chain!AppendLine
  <2>3. \A q \in Procs : q # p => ~Chain!Doing(q, "checkpoint")'
    BY <2>1, <2>2, OnlyCheckpoint DEF Chain!lockVars, ChainBecomes, Chain!Doing
  <2>4. work'[p].at.head = stamp[1] + 1 /\ Chain!NextRecord(p).hash = stamp[1] + 1
    BY <2>1 DEF ChainBecomes, Lined, Chain!NextRecord
  <2>5. \A i \in 1..Len(log) : log'[i] = log[i]
    BY <1>types, <2>1
  <2>6. log'[Len(log) + 1] = Chain!NextRecord(p) /\ DOMAIN log' = 1..Len(log) + 1
    BY <1>types, <2>1
  <2>7. tampers = 0 => \A i \in DOMAIN log' : log'[i].hash = i
    <3> SUFFICES ASSUME tampers = 0, NEW i \in 1..Len(log) + 1 PROVE log'[i].hash = i
      BY <2>6
    <3>1. CASE i = Len(log) + 1
      BY <2>4, <2>6, <3>1 DEF SignInv
    <3>2. CASE i # Len(log) + 1
      <4>1. i \in 1..Len(log) /\ i \in DOMAIN log
        BY <1>types, <3>2
      <4> QED BY <2>5, <4>1 DEF SignInv
    <3> QED BY <3>1, <3>2
  <2>8. \A n \in Nat : n <= Len(log) => SubSeq(log', 1, n) = SubSeq(log, 1, n)
    BY <1>types, <2>1, AppendUpto
  <2>9. tampers = 0 => chain.head <= Len(log)
    BY DEF SignInv, ChainTypeInv
  <2>10. tampers = 0 => /\ Upto(chain.head)' = Upto(chain.head)
                        /\ SubSeq(log', 1, Len(reader.events)) = Upto(Len(reader.events))
    BY <1>types, <2>2, <2>8, <2>9 DEF Upto, SignInv
  <2>11. tampers' = 0 => Len(reader'.events) <= Len(log') /\ reader'.events = Upto(Len(reader.events))'
    BY <1>types, <2>1, <2>2, <2>10 DEF SignInv, Upto
  <2>12. tampers' = 0 => (Chain!Valid(Upto(chain.head), chain)' => chain' \in wasValid')
    BY <2>2, <2>10 DEF SignInv, Upto
  <2>13. tampers' = 0 => \A q \in Procs : Chain!Doing(q, "checkpoint")' => work'[q].at.head = Len(log')
    BY <2>1, <2>2, <2>3, <2>4 DEF SignInv
  <2> QED BY <2>1, <2>2, <2>7, <2>11, <2>12, <2>13 DEF SignInv
<1>4. ASSUME NEW p \in Procs, Chain!WriteCheckpoint(p) PROVE SignInv'
  <2>1. ChainBecomes(p, Gone(p, "done")) /\ work[p].pc = "checkpoint" /\ p \notin gone
    BY <1>4, ChainGoing DEF Chain!WriteCheckpoint, Chain!Doing
  <2>2. /\ chain' = work[p].at /\ UNCHANGED <<Chain!lockVars, log, tampers, reader, signed>>
        /\ stamp' = <<stamp[1], stamp[2] + 1>>
        /\ wasValid' = IF Chain!Valid(log, work[p].at) THEN wasValid \cup {work[p].at} ELSE wasValid
    BY <1>4 DEF Chain!WriteCheckpoint, Chain!TouchesChain
  <2>3. \A q \in Procs : ~Chain!Doing(q, "checkpoint")'
    BY <2>1, <2>2, OnlyCheckpoint DEF Chain!lockVars, ChainBecomes, Chain!Doing, Gone
  <2>4. tampers = 0 => SubSeq(log, 1, work[p].at.head) = log
    BY <1>types, <2>1 DEF SignInv, Chain!Doing
  <2>5. tampers = 0 => (Chain!Valid(SubSeq(log, 1, work[p].at.head), work[p].at) => work[p].at \in wasValid')
    BY <2>2, <2>4
  <2>6. stamp'[1] = stamp[1]
    BY <2>2
  <2>7. wasValid \subseteq wasValid'
    BY <2>2
  <2> QED BY <2>2, <2>3, <2>5, <2>6, <2>7 DEF SignInv, Upto
<1>5. ASSUME NEW p \in Procs, Chain!Fails(p) PROVE SignInv'
  <2>1. ChainBecomes(p, Gone(p, "done"))
    BY <1>5, ChainGoing DEF Chain!Fails
  <2> QED BY <1>5, <2>1, SignSame DEF Chain!Fails, Chain!lockVars, ChainBecomes, Gone, Chain!Doing
<1>6. ASSUME NEW p \in Procs, Chain!End(p) PROVE SignInv'
  <2>1. Chain!NoWork \in WorkType /\ Chain!NoWork.pc = "none"
    BY DEF Chain!NoWork, WorkType, Chain!Empty, Chain!Zero, Chain!Checkpoint, Chain!ChainAssumption
  <2>2. ChainBecomes(p, Chain!NoWork) /\ UNCHANGED <<log, chain, stamp, reader, signed, tampers, wasValid, gone>>
    BY <1>6, <2>1, ChainBecoming DEF Chain!End, Chain!Leave
  <2> QED BY <2>1, <2>2, SignSame DEF ChainBecomes, Chain!Doing
<1>7. ASSUME NEW p \in Procs, Chain!AppenderDies(p) PROVE SignInv'
  BY <1>7, SignSame DEF Chain!AppenderDies, Chain!Dies, Chain!Doing
<1>8. ASSUME NEW i \in DOMAIN log, Chain!Tamper(i) PROVE SignInv'
  BY <1>8, <1>types DEF Chain!Tamper, SignInv
<1>9. ASSUME Verifies PROVE SignInv'
  <2>1. Looks
    BY <1>9, VerifyLooks
  <2>2. CASE Chain!Verify
    <3>1. reader'.verdict = reader.verdict /\ reader'.events = reader.events /\ signed' = signed
      BY <1>types, <2>2 DEF Chain!Verify, Chain!Reads, ReaderType
    <3> QED BY <1>types, <2>1, <3>1, SignReads
  <2>3. CASE Chain!StampEvents
    BY <1>types, <2>1, <2>3, SignReads DEF Chain!StampEvents, Chain!Reads, ReaderType
  <2>4. CASE Chain!ReadEvents
    BY <1>types, <2>1, <2>4, SignReads DEF Chain!ReadEvents, Chain!Reads, ReaderType
  <2>5. CASE Chain!ReadChain
    <3> DEFINE at0 == [len |-> Len(reader.events), head |-> Chain!Last(reader.events)]
               v == [stamp |-> Chain!Key, ok |-> Chain!Valid(reader.events, chain), at |-> at0]
    <3>1. v.ok = Chain!Valid(reader.events, chain) /\ v.at = at0
      OBVIOUS
    <3>2. reader' = [reader EXCEPT !.pc = "answered", !.verdict = v] /\ signed' = signed
      BY <2>5 DEF Chain!ReadChain, Chain!Reads
    <3>3. tampers = 0 /\ v.ok => v.at \in wasValid
      BY <3>1, VerdictTrue
    <3> HIDE DEF v
    <3>4. reader'.events = reader.events /\ reader'.verdict = v
      BY <1>types, <3>2 DEF ReaderType
    <3> QED BY <2>1, <3>2, <3>3, <3>4 DEF Looks, Chain!lockVars, SignInv, Upto, Chain!Doing
  <2>6. CASE Chain!Sign
    BY <1>types, <2>1, <2>6, SignReads DEF Chain!Sign, Chain!Signs, ReaderType
  <2>7. CASE Chain!Answer
    BY <1>types, <2>1, <2>7, SignReads DEF Chain!Answer, Chain!Reads, ReaderType
  <2> QED BY <1>9, <2>2, <2>3, <2>4, <2>5, <2>6, <2>7 DEF Verifies
<1> QED BY <1>1, <1>2, <1>3, <1>4, <1>5, <1>6, <1>7, <1>8, <1>9, ChainStepCases

-----------------------------------------------------------------------------
(* The theorems *)

LEMMA ChainInvariant ==
  ASSUME Chain!AgeLockAssumption, Chain!ChainAssumption, ~Slow
  PROVE  Chain!Spec /\ []ChainOneWaiter => []ChainInv
<1>1. Chain!Init => ChainInv
  BY LockStarts, TypeStarts, ReadStarts, TornStarts, IntactStarts, SignStarts DEF ChainInv, Chain!Init
<1>2. ChainInv /\ ChainOneWaiter /\ [Chain!Next]_Chain!vars => ChainInv'
  BY LockMoves, LockKept, ChainTypeStep, ReadStep, TornStep, IntactStep, SignStep DEF ChainInv
<1> QED BY <1>1, <1>2, PTL DEF Chain!Spec

\* The files, the lock and every process keep their types.
THEOREM ChainTypeCorrect ==
  ASSUME Chain!AgeLockAssumption, Chain!ChainAssumption, ~Slow
  PROVE  Chain!Spec /\ []ChainOneWaiter => []Chain!TypeOK
<1>1. ChainInv => Chain!TypeOK
  BY DEF ChainInv, ChainLockInv, ChainTypeInv, Chain!TypeOK, Stamps, WorkType, ReaderType, VerdictType
<1> QED BY <1>1, ChainInvariant, PTL

\* While nobody edits the log and no append is torn, every append that returned is
\* in a valid chain.
THEOREM ChainKept ==
  ASSUME Chain!AgeLockAssumption, Chain!ChainAssumption, ~Slow
  PROVE  Chain!Spec /\ []ChainOneWaiter => []Chain!ChainIntact
<1>1. ChainInv => Chain!ChainIntact
  BY DEF ChainInv, IntactInv, Chain!ChainIntact
<1> QED BY <1>1, ChainInvariant, PTL

\* A torn append is never hidden by a later one.
THEOREM TornAppendsShow ==
  ASSUME Chain!AgeLockAssumption, Chain!ChainAssumption, ~Slow
  PROVE  Chain!Spec /\ []ChainOneWaiter => []Chain!TornStaysVisible
<1>1. ChainInv => Chain!TornStaysVisible
  BY DEF ChainInv, TornInv, ChainTypeInv, Chain!Checkpoint, Chain!ChainAssumption, Chain!TornStaysVisible, Chain!Valid
<1> QED BY <1>1, ChainInvariant, PTL

\* A kept verdict under the present stamps is the verdict of the files.
THEOREM VerdictsAreFresh ==
  ASSUME Chain!AgeLockAssumption, Chain!ChainAssumption, ~Slow
  PROVE  Chain!Spec /\ []ChainOneWaiter => []Chain!FreshVerdictTrue
<1>1. ChainInv => Chain!FreshVerdictTrue
  BY DEF ChainInv, ReadInv
<1> QED BY <1>1, ChainInvariant, PTL

\* While nobody edits the log, a checkpoint is signed only if it was once true.
THEOREM SignaturesAreTrue ==
  ASSUME Chain!AgeLockAssumption, Chain!ChainAssumption, ~Slow
  PROVE  Chain!Spec /\ []ChainOneWaiter => []Chain!SignedWasTrue
<1>1. ChainInv => Chain!SignedWasTrue
  BY DEF ChainInv, SignInv, Chain!SignedWasTrue
<1> QED BY <1>1, ChainInvariant, PTL

\* The ledger lock implements the owner mutex; one process is inside.
LEMMA LedgerLockExcludes ==
  ASSUME Chain!AgeLockAssumption, Chain!ChainAssumption, ~Slow
  PROVE  Chain!Spec /\ []ChainOneWaiter => Chain!Mutex!Init /\ [][Chain!Mutex!MutexStep]_Chain!vars /\ [](Cardinality(Chain!Inside) <= 1)
<1>1. Chain!Init => Chain!Mutex!Init
  BY DEF Chain!Init, Chain!LockInit, Chain!Mutex!Init, Chain!Inside
<1>2. ChainInv => ChainOwnerInside
  BY ChainInsideOwner DEF ChainInv
<1>3. ChainOwnerInside /\ ChainOwnerInside' /\ [Chain!Next]_Chain!vars => [Chain!Mutex!MutexStep]_Chain!vars
  BY ChainMutexStep, LockMoves
<1>4. ChainOwnerInside => Cardinality(Chain!Inside) <= 1
  BY ChainOneInside
<1> QED BY <1>1, <1>2, <1>3, <1>4, ChainInvariant, PTL DEF Chain!Spec

-----------------------------------------------------------------------------
(* Two processes                                                           *)

LEMMA ChainDeathsKnown == ASSUME gone \subseteq Procs, [Chain!Next]_Chain!vars PROVE (gone \subseteq Procs)'
<1>1. CASE UNCHANGED Chain!vars
  BY <1>1 DEF Chain!vars, Chain!lockVars
<1>2. CASE gone' = gone
  BY <1>2
<1>3. CASE \E p \in Procs : Chain!Dies(p)
  BY <1>3 DEF Chain!Dies
<1>4. \/ UNCHANGED Chain!vars \/ gone' = gone \/ \E p \in Procs : Chain!Dies(p)
  BY DEF Chain!Next, Chain!LockStep, Chain!Ages, Chain!Want, Chain!GivesUp, Chain!FindStale, Chain!Evict, Chain!Begin, Chain!Take, Chain!AppendLine, Chain!WriteCheckpoint, Chain!Fails,
         Chain!End, Chain!Leave, Chain!AppenderDies, Chain!Tamper, Chain!Verify, Chain!StampEvents, Chain!ReadEvents, Chain!ReadChain, Chain!Sign, Chain!Answer, Chain!Reads, Chain!lockVars
<1> QED BY <1>1, <1>2, <1>3, <1>4

\* Where there are two processes no two wait for a dead one: the premise of the
\* theorems above is theirs for nothing.
THEOREM ChainTwoProcessesSuffice == ASSUME NEW a, NEW b, Procs \subseteq {a, b} PROVE Chain!Spec => []ChainOneWaiter
<1>1. Chain!Init => gone \subseteq Procs
  BY DEF Chain!Init, Chain!LockInit
<1>2. gone \subseteq Procs => ChainOneWaiter
  BY DEF ChainOneWaiter, ChainWaiting
<1>3. gone \subseteq Procs /\ [Chain!Next]_Chain!vars => (gone \subseteq Procs)'
  BY ChainDeathsKnown
<1> QED BY <1>1, <1>2, <1>3, PTL DEF Chain!Spec

-----------------------------------------------------------------------------
(* The hook runners, for any sessions, contents and number of hooks: a Stop   *)
(* of Claude or Codex is judged where that is required; and, where no two     *)
(* hooks overlap, what waits for a measurement was accepted and has the       *)
(* receipt it was accepted with.                                              *)

-----------------------------------------------------------------------------
(* The inductive invariant *)

HookType == [at : {"idle", "sidecar", "native", "receipt", "job"}, event : Stops!Events,
             identity : Stops!Change, answer : Stops!Answers, blocked : BOOLEAN]
StopsTypeInv ==
  /\ gateConfig \in {"none", "optional", "required", "damaged"} /\ worktree \in Versions
  /\ baseline \in [Sessions -> Versions \cup {"unset"}] /\ armed \in [Sessions -> Versions \cup {"unset"}]
  /\ stopping \in [Sessions -> HookType]
  /\ stops \in [Sessions -> 0..MaxHooks] /\ envelope \in Stops!Change
  /\ completed \subseteq Stops!Change /\ queued \subseteq Stops!Change /\ measuredOf \subseteq Stops!Change
  /\ receipts \subseteq Stops!Change /\ keptFor \subseteq queued

\* What a hook has found out: a Stop that goes past DiffWitness has an answer
\* where one is configured, and is blocked by the answers that block it.
StopsAnswered(s) ==
  /\ ~Stops!At(s, "idle") /\ stopping[s].event = "start" => stopping[s].at \in {"sidecar", "native"}
  /\ Stops!At(s, "native") => stopping[s].event \in {"start", "stop"}
  /\ stopping[s].at \in {"receipt", "job"} /\ stopping[s].event = "stop"
       => stopping[s].blocked \/ (Stops!Required => stopping[s].answer = "accept")

\* With one hook at a time, its completion is of the tree it finds, and what
\* DiffWitness accepts is not bad.
OneHook == \A s, t \in Sessions : ~Stops!At(s, "idle") /\ ~Stops!At(t, "idle") => s = t
CompletedNow(s) == ~Stops!At(s, "idle") /\ stopping[s].identity # Stops!NoChange =>
  stopping[s].identity.candidate = worktree /\ stopping[s].identity \in completed
Accepted(s) ==
  stopping[s].at \in {"receipt", "job"} /\ stopping[s].event = "stop" /\ stopping[s].answer = "accept" => worktree \notin Bad

\* A receipt of a change that may be queued is of a measured one, is kept, or is
\* about to be taken up by the Stop that left it.
TakesUp(s, c) ==
  /\ Stops!At(s, "receipt") /\ stopping[s].event = "stop" /\ ~stopping[s].blocked
  /\ stopping[s].identity = c /\ envelope = c /\ c \in completed
Settled(c) == c \in measuredOf \/ c \in keptFor \/ \E s \in Sessions : TakesUp(s, c)
ReceiptsSettle == \A c \in receipts : Stops!Exact(c) => Settled(c)

\* Whatever hooks overlap.
GateInv == StopsTypeInv /\ \A s \in Sessions : StopsAnswered(s)
\* Where none do.
CalmInv ==
  /\ OneHook /\ \A s \in Sessions : CompletedNow(s) /\ Accepted(s)
  /\ Stops!QueuedWasAccepted /\ ReceiptsSettle

-----------------------------------------------------------------------------
(* Steps *)

\* One case for each action.
LEMMA StopsStepCases ==
  ASSUME [Stops!Next]_Stops!vars, NEW P,
         UNCHANGED Stops!vars => P,
         \A s \in Sessions : (\E event \in Stops!Events : Stops!Begin(s, event)) => P,
         \A s \in Sessions : Stops!Sidecar(s) => P,
         \A s \in Sessions : Stops!SidecarThrows(s) => P,
         \A s \in Sessions : Stops!NotAsked(s) \/ Stops!NativeFails(s) => P,
         \A s \in Sessions : Stops!Arms(s) => P,
         \A s \in Sessions : Stops!Judges(s) => P,
         \A s \in Sessions : (\E taken \in BOOLEAN : Stops!Receipt(s, taken)) => P,
         \A s \in Sessions : Stops!Schedule(s) => P,
         (\E c \in queued : Stops!Work(c)) => P,
         (\E t \in Versions : Stops!Edit(t)) => P
  PROVE  P
  BY DEF Stops!Next

\* A step of one hook makes it r.
StopsBecomes(s, r) == stopping' = [stopping EXCEPT ![s] = r]

LEMMA StopsPointwise ==
  ASSUME StopsTypeInv, NEW s \in Sessions, NEW r, StopsBecomes(s, r)
  PROVE  /\ stopping'[s] = r /\ \A q \in Sessions \ {s} : stopping'[q] = stopping[q]
         /\ r \in HookType => stopping' \in [Sessions -> HookType]
  BY DEF StopsTypeInv, StopsBecomes

LEMMA FreshType == ASSUME Stops!StopGateAssumption PROVE Stops!Fresh \in HookType /\ Stops!NoChange \in Stops!Change
  BY DEF Stops!Fresh, HookType, Stops!NoChange, Stops!Change, Stops!Events, Stops!Answers, Stops!StopGateAssumption

LEMMA Begins ==
  ASSUME Stops!StopGateAssumption, NEW s \in Sessions, NEW event \in Stops!Events, Stops!Begin(s, event)
  PROVE  \E r : /\ StopsBecomes(s, r) /\ r.at = "sidecar" /\ r.event = event /\ r.identity = Stops!NoChange
                /\ r \in HookType
<1> DEFINE r == [Stops!Fresh EXCEPT !.at = "sidecar", !.event = event]
<1>1. r.at = "sidecar" /\ r.event = event /\ r.identity = Stops!NoChange /\ r \in HookType
  BY FreshType DEF Stops!Fresh, HookType
<1>2. StopsBecomes(s, r)
  BY DEF Stops!Begin, StopsBecomes
<1> QED BY <1>1, <1>2

LEMMA Throws ==
  ASSUME Stops!StopGateAssumption, StopsTypeInv, NEW s \in Sessions, Stops!SidecarThrows(s)
  PROVE  \E r : /\ StopsBecomes(s, r) /\ r \in HookType
                /\ \/ r = Stops!Fresh
                   \/ /\ r.at = Stops!AfterSidecar(stopping[s]) /\ r.event = stopping[s].event
                      /\ r.identity = stopping[s].identity /\ r.answer = stopping[s].answer
<1> DEFINE r == IF Stops!AfterThrow(s, stopping[s]) = "idle" THEN Stops!Fresh ELSE [stopping[s] EXCEPT !.at = Stops!AfterThrow(s, stopping[s])]
<1>1. stopping[s] \in HookType
  BY DEF StopsTypeInv
<1>2. StopsBecomes(s, r)
  BY DEF Stops!SidecarThrows, StopsBecomes
<1>3. r \in HookType
  BY <1>1, FreshType DEF HookType, Stops!AfterThrow, Stops!AfterSidecar
<1>4. \/ r = Stops!Fresh
      \/ /\ r.at = Stops!AfterSidecar(stopping[s]) /\ r.event = stopping[s].event
         /\ r.identity = stopping[s].identity /\ r.answer = stopping[s].answer
  BY <1>1 DEF HookType, Stops!AfterThrow
<1> QED BY <1>2, <1>3, <1>4

\* The completion that a sidecar step finds.
Found(s) == IF stopping[s].event \in {"stop", "end"} /\ baseline[s] # "unset"
            THEN [base |-> baseline[s], candidate |-> worktree] ELSE Stops!NoChange

LEMMA Finds ==
  ASSUME Stops!StopGateAssumption, StopsTypeInv, NEW s \in Sessions, Stops!Sidecar(s)
  PROVE  \E r : /\ StopsBecomes(s, r) /\ r \in HookType /\ r.at = Stops!AfterSidecar(stopping[s])
                /\ r.event = stopping[s].event /\ r.identity = Found(s) /\ r.answer = stopping[s].answer
                /\ Found(s) \in Stops!Change
<1> DEFINE h == [stopping[s] EXCEPT !.identity = Found(s)]
           r == [h EXCEPT !.at = Stops!AfterSidecar(h)]
<1>1. stopping[s] \in HookType
  BY DEF StopsTypeInv
<1>2. Found(s) \in Stops!Change
  BY FreshType DEF StopsTypeInv, Found, Stops!Change
<1>3. h.event = stopping[s].event
  BY <1>1 DEF HookType
<1>4. r \in HookType /\ r.at = Stops!AfterSidecar(stopping[s]) /\ r.event = stopping[s].event /\ r.identity = Found(s)
      /\ r.answer = stopping[s].answer
  BY <1>1, <1>2, <1>3 DEF HookType, Stops!AfterSidecar
<1>5. StopsBecomes(s, r)
  BY DEF Stops!Sidecar, StopsBecomes, Found
<1> QED BY <1>2, <1>4, <1>5

LEMMA Answering ==
  ASSUME Stops!StopGateAssumption, StopsTypeInv, NEW s \in Sessions, NEW answer \in Stops!Answers, Stops!Answer(s, answer)
  PROVE  \E r : /\ StopsBecomes(s, r) /\ r \in HookType
                /\ stopping[s].event = "start" => r = Stops!Fresh
                /\ stopping[s].event # "start" =>
                     /\ r.at = "receipt" /\ r.event = stopping[s].event /\ r.identity = stopping[s].identity
                     /\ r.answer = answer /\ r.blocked = Stops!Blocks(answer)
<1> DEFINE r == IF stopping[s].event = "start" THEN Stops!Fresh
                ELSE [stopping[s] EXCEPT !.at = "receipt", !.answer = answer, !.blocked = Stops!Blocks(answer)]
<1>1. stopping[s] \in HookType /\ Stops!Blocks(answer) \in BOOLEAN
  BY DEF StopsTypeInv, Stops!Blocks
<1>2. StopsBecomes(s, r)
  BY DEF Stops!Answer, StopsBecomes
<1>3. CASE stopping[s].event = "start"
  BY <1>2, <1>3, FreshType
<1>4. CASE stopping[s].event # "start"
  <2>1. /\ r \in HookType /\ r.at = "receipt" /\ r.event = stopping[s].event
        /\ r.identity = stopping[s].identity /\ r.answer = answer /\ r.blocked = Stops!Blocks(answer)
    BY <1>1, <1>4 DEF HookType
  <2> QED BY <1>2, <1>4, <2>1
<1> QED BY <1>3, <1>4

LEMMA Asked ==
  ASSUME Stops!StopGateAssumption, StopsTypeInv, NEW s \in Sessions, NEW place \in {"receipt", "job"}, stopping' = [stopping EXCEPT ![s].at = place]
  PROVE  \E r : /\ StopsBecomes(s, r) /\ r \in HookType /\ r.at = place /\ r.event = stopping[s].event
                /\ r.identity = stopping[s].identity /\ r.answer = stopping[s].answer /\ r.blocked = stopping[s].blocked
<1> DEFINE r == [stopping[s] EXCEPT !.at = place]
<1>1. stopping[s] \in HookType
  BY DEF StopsTypeInv
<1>2. r \in HookType /\ r.at = place /\ r.event = stopping[s].event
      /\ r.identity = stopping[s].identity /\ r.answer = stopping[s].answer /\ r.blocked = stopping[s].blocked
  BY <1>1 DEF HookType
<1>3. StopsBecomes(s, r)
  BY DEF StopsBecomes
<1> QED BY <1>2, <1>3

-----------------------------------------------------------------------------
(* Whatever hooks overlap *)

LEMMA GateInit == ASSUME Stops!StopGateAssumption, Stops!Init PROVE GateInv
<1>1. Stops!Fresh \in HookType /\ Stops!NoChange \in Stops!Change
  BY FreshType
<1>2. StopsTypeInv
  BY <1>1 DEF Stops!Init, StopsTypeInv, Stops!StopGateAssumption
<1>3. ASSUME NEW s \in Sessions PROVE StopsAnswered(s)
  BY DEF Stops!Init, StopsAnswered, Stops!At, Stops!Fresh
<1> QED BY <1>2, <1>3 DEF GateInv

\* A step of hook s that makes it r, changes no type and no configuration.
LEMMA OneHookMoves ==
  ASSUME GateInv, NEW s \in Sessions, NEW r \in HookType, StopsBecomes(s, r), gateConfig' = gateConfig, worktree' = worktree,
         StopsTypeInv => StopsTypeInv',
         ~(r.at = "idle") /\ r.event = "start" => r.at \in {"sidecar", "native"},
         r.at = "native" => r.event \in {"start", "stop"},
         r.at \in {"receipt", "job"} /\ r.event = "stop" => r.blocked \/ (Stops!Required => r.answer = "accept"),
         ~Stops!At(s, "idle") /\ r.at = "idle" /\ s \notin Cursors /\ stopping[s].event = "stop" /\ Stops!Required
           => stopping[s].blocked \/ stopping[s].answer = "accept"
  PROVE  GateInv' /\ Stops!StopsAreJudged
<1>1. /\ stopping'[s] = r /\ \A q \in Sessions \ {s} : stopping'[q] = stopping[q]
  BY StopsPointwise DEF GateInv
<1>2. ASSUME NEW q \in Sessions PROVE StopsAnswered(q)'
  <2>1. StopsAnswered(q) /\ (Stops!Required' <=> Stops!Required)
    BY DEF GateInv, Stops!Required
  <2>2. CASE q = s
    BY <1>1, <2>1, <2>2 DEF StopsAnswered, Stops!At
  <2>3. CASE q # s
    <3>1. stopping'[q] = stopping[q]
      BY <1>1, <2>3
    <3> QED BY <2>1, <3>1 DEF StopsAnswered, Stops!At
  <2> QED BY <2>2, <2>3
<1>3. Stops!StopsAreJudged
  BY <1>1 DEF Stops!StopsAreJudged, Stops!At
<1> QED BY <1>2, <1>3 DEF GateInv

LEMMA SameHooks ==
  ASSUME GateInv, StopsTypeInv', UNCHANGED <<gateConfig, stopping>>
  PROVE  GateInv' /\ Stops!StopsAreJudged
<1>1. ASSUME NEW s \in Sessions PROVE StopsAnswered(s)'
  BY DEF GateInv, StopsAnswered, Stops!At, Stops!Required
<1> QED BY <1>1 DEF GateInv, Stops!StopsAreJudged, Stops!At

LEMMA GateStep ==
  ASSUME Stops!StopGateAssumption, GateInv, [Stops!Next]_Stops!vars PROVE GateInv' /\ Stops!StopsAreJudged
<1>t. StopsTypeInv /\ \A s \in Sessions : StopsAnswered(s) /\ stopping[s] \in HookType
  BY DEF GateInv, StopsTypeInv
<1>f. Stops!Fresh \in HookType /\ Stops!Fresh.at = "idle" /\ Stops!NoChange \in Stops!Change
  BY FreshType DEF Stops!Fresh
<1>1. CASE UNCHANGED Stops!vars
  BY <1>1, <1>t, SameHooks DEF Stops!vars, StopsTypeInv
<1>2. ASSUME NEW s \in Sessions, NEW event \in Stops!Events, Stops!Begin(s, event) PROVE GateInv' /\ Stops!StopsAreJudged
  <2>1. PICK r \in HookType : StopsBecomes(s, r) /\ r.at = "sidecar" /\ r.event = event
    BY <1>2, Begins
  <2>2. stops' \in [Sessions -> 0..MaxHooks]
    BY <1>2, <1>t DEF Stops!Begin, StopsTypeInv, Stops!StopGateAssumption
  <2>3. StopsTypeInv'
    BY <1>2, <1>t, <2>1, <2>2, StopsPointwise DEF Stops!Begin, StopsTypeInv, Stops!project
  <2> QED BY <1>2, <2>1, <2>3, OneHookMoves DEF Stops!Begin, Stops!At
<1>3. ASSUME NEW s \in Sessions, Stops!Sidecar(s) PROVE GateInv' /\ Stops!StopsAreJudged
  <2>1. PICK r \in HookType : /\ StopsBecomes(s, r) /\ r.at = Stops!AfterSidecar(stopping[s]) /\ r.event = stopping[s].event
                              /\ r.identity = Found(s) /\ Found(s) \in Stops!Change
    BY <1>3, <1>t, Finds
  <2>2. completed' \subseteq Stops!Change
    BY <1>3, <1>t, <2>1 DEF Stops!Sidecar, StopsTypeInv, Found
  <2>3. StopsTypeInv'
    BY <1>3, <1>t, <2>1, <2>2, StopsPointwise DEF Stops!Sidecar, StopsTypeInv
  <2> QED BY <1>3, <2>1, <2>3, OneHookMoves DEF Stops!Sidecar, Stops!AfterSidecar
<1>4. ASSUME NEW s \in Sessions, Stops!SidecarThrows(s) PROVE GateInv' /\ Stops!StopsAreJudged
  <2>1. PICK r \in HookType : /\ StopsBecomes(s, r)
                              /\ \/ r = Stops!Fresh
                                 \/ r.at = Stops!AfterSidecar(stopping[s]) /\ r.event = stopping[s].event
    BY <1>4, <1>t, Throws
  <2>2. StopsTypeInv'
    BY <1>4, <1>t, <2>1, StopsPointwise DEF Stops!SidecarThrows, StopsTypeInv, Stops!project
  <2>3. s \notin Cursors => r.at # "idle"
    <3>1. ASSUME s \notin Cursors PROVE stopping'[s].at = Stops!AfterSidecar(stopping[s])
      BY <1>4, <1>t, <3>1 DEF Stops!SidecarThrows, Stops!AfterThrow, Stops!AfterSidecar, StopsTypeInv, HookType
    <3> QED BY <1>t, <2>1, <3>1, StopsPointwise DEF Stops!AfterSidecar
  <2> QED BY <1>4, <1>f, <2>1, <2>2, <2>3, OneHookMoves DEF Stops!SidecarThrows, Stops!AfterSidecar
<1>5. ASSUME NEW s \in Sessions, Stops!NotAsked(s) \/ Stops!NativeFails(s) PROVE GateInv' /\ Stops!StopsAreJudged
  <2>1. PICK answer \in {"none", "failed"} :
          Stops!At(s, "native") /\ Stops!Answer(s, answer) /\ (answer = "none" => ~Stops!Gated)
    BY <1>5 DEF Stops!NotAsked, Stops!NativeFails
  <2>2. answer \in Stops!Answers /\ (Stops!Blocks(answer) \/ ~Stops!Required)
    BY <2>1 DEF Stops!Answers, Stops!Blocks, Stops!Gated, Stops!Required
  <2>3. PICK r \in HookType :
          /\ StopsBecomes(s, r)
          /\ stopping[s].event = "start" => r = Stops!Fresh
          /\ stopping[s].event # "start" =>
               r.at = "receipt" /\ r.event = stopping[s].event /\ r.blocked = Stops!Blocks(answer)
    BY <1>t, <2>1, <2>2, Answering
  <2>4. StopsTypeInv'
    BY <1>5, <1>t, <2>3, StopsPointwise DEF Stops!NotAsked, Stops!NativeFails, StopsTypeInv, Stops!project
  <2> QED BY <1>5, <1>f, <2>1, <2>2, <2>3, <2>4, OneHookMoves DEF Stops!NotAsked, Stops!NativeFails
<1>6. ASSUME NEW s \in Sessions, Stops!Arms(s) PROVE GateInv' /\ Stops!StopsAreJudged
  <2>1. PICK r \in HookType : StopsBecomes(s, r) /\ r = Stops!Fresh
    BY <1>6, <1>t, Answering DEF Stops!Arms, Stops!Answers
  <2>2. armed' \in [Sessions -> Versions \cup {"unset"}]
    BY <1>6, <1>t DEF Stops!Arms, StopsTypeInv
  <2>3. StopsTypeInv'
    BY <1>6, <1>t, <2>1, <2>2, StopsPointwise DEF Stops!Arms, StopsTypeInv, Stops!project
  <2> QED BY <1>6, <1>f, <2>1, <2>3, OneHookMoves DEF Stops!Arms
<1>7. ASSUME NEW s \in Sessions, Stops!Judges(s) PROVE GateInv' /\ Stops!StopsAreJudged
  <2>1. PICK answer \in {"unarmed", "block", "accept"} : Stops!Answer(s, answer)
    BY <1>7 DEF Stops!Judges
  <2>2. answer \in Stops!Answers /\ (Stops!Blocks(answer) \/ ~Stops!Required \/ answer = "accept")
    BY <2>1 DEF Stops!Answers, Stops!Blocks
  <2>3. PICK r \in HookType :
          /\ StopsBecomes(s, r) /\ r.at = "receipt" /\ r.event = "stop"
          /\ r.blocked = Stops!Blocks(answer) /\ r.answer = answer
    BY <1>7, <1>t, <2>1, <2>2, Answering DEF Stops!Judges
  <2>4. armed[s] # "unset" => Stops!Judged(s) \in Stops!Change
    BY <1>t DEF StopsTypeInv, Stops!Judged, Stops!Change
  <2>5. envelope' \in Stops!Change /\ receipts' \subseteq Stops!Change
    BY <1>7, <1>t, <2>4 DEF Stops!Judges, StopsTypeInv
  <2>6. StopsTypeInv'
    BY <1>7, <1>t, <2>3, <2>5, StopsPointwise DEF Stops!Judges, StopsTypeInv
  <2> QED BY <1>7, <2>2, <2>3, <2>6, OneHookMoves DEF Stops!Judges
<1>8. ASSUME NEW s \in Sessions, NEW taken \in BOOLEAN, Stops!Receipt(s, taken) PROVE GateInv' /\ Stops!StopsAreJudged
  <2>1. PICK r \in HookType :
          /\ StopsBecomes(s, r) /\ r.at = "job" /\ r.event = stopping[s].event
          /\ r.answer = stopping[s].answer /\ r.blocked = stopping[s].blocked
    BY <1>8, <1>t, Asked DEF Stops!Receipt
  <2>2. Stops!Offered(stopping[s]) \subseteq Stops!Change /\ Stops!Keeps(s) \subseteq Stops!Change
    BY <1>t DEF StopsTypeInv, HookType, Stops!Offered, Stops!Keeps
  <2>3. queued' \subseteq Stops!Change /\ keptFor' \subseteq queued' /\ measuredOf' \subseteq Stops!Change
    BY <1>8, <1>t, <2>2 DEF Stops!Receipt, StopsTypeInv
  <2>4. StopsTypeInv'
    BY <1>8, <1>t, <2>1, <2>3, StopsPointwise DEF Stops!Receipt, StopsTypeInv
  <2> QED BY <1>8, <1>t, <2>1, <2>4, OneHookMoves DEF Stops!Receipt, StopsAnswered, Stops!At
<1>9. ASSUME NEW s \in Sessions, Stops!Schedule(s) PROVE GateInv' /\ Stops!StopsAreJudged
  <2>1. StopsBecomes(s, Stops!Fresh)
    BY <1>9 DEF Stops!Schedule, StopsBecomes
  <2>2. Stops!Offered(stopping[s]) \subseteq Stops!Change
    BY <1>t DEF StopsTypeInv, HookType, Stops!Offered
  <2>3. StopsTypeInv'
    BY <1>9, <1>t, <1>f, <2>1, <2>2, StopsPointwise DEF Stops!Schedule, StopsTypeInv
  <2>4. stopping[s].event = "stop" /\ Stops!Required => stopping[s].blocked \/ stopping[s].answer = "accept"
    BY <1>9, <1>t DEF Stops!Schedule, StopsAnswered, Stops!At
  <2> QED BY <1>9, <1>f, <2>1, <2>3, <2>4, OneHookMoves DEF Stops!Schedule
<1>10. ASSUME NEW c \in queued, Stops!Work(c) PROVE GateInv' /\ Stops!StopsAreJudged
  BY <1>10, <1>t, SameHooks DEF Stops!Work, StopsTypeInv
<1>11. ASSUME NEW x \in Versions, Stops!Edit(x) PROVE GateInv' /\ Stops!StopsAreJudged
  BY <1>11, <1>t, SameHooks DEF Stops!Edit, StopsTypeInv, Stops!project
<1> QED
  BY <1>1, <1>2, <1>3, <1>4, <1>5, <1>6, <1>7, <1>8, <1>9, <1>10, <1>11, StopsStepCases

-----------------------------------------------------------------------------
(* Where no hooks overlap *)

\* The one hook at work.
StopsAlone(s) == ~Stops!At(s, "idle") /\ \A q \in Sessions \ {s} : Stops!At(q, "idle")

LEMMA WorksAlone ==
  ASSUME OneHook, NEW s \in Sessions, ~Stops!At(s, "idle") PROVE StopsAlone(s)
  BY DEF OneHook, StopsAlone

\* What a hook offers was accepted, where that is required.
LEMMA OfferedIsAccepted ==
  ASSUME GateInv, CalmInv, NEW s \in Sessions, stopping[s].at \in {"receipt", "job"},
         NEW c \in Stops!Offered(stopping[s])
  PROVE  /\ c = stopping[s].identity /\ Stops!Exact(c) /\ c \in completed
         /\ Stops!Required => c.candidate \notin Bad
<1>1. c = stopping[s].identity /\ Stops!Admits(stopping[s]) /\ Stops!Exact(c)
  BY DEF Stops!Offered
<1>2. c # Stops!NoChange
  BY <1>1 DEF Stops!Exact, Stops!NoChange
<1>3. c.candidate = worktree /\ c \in completed
  BY <1>1, <1>2 DEF CalmInv, CompletedNow, Stops!At
<1>4. ASSUME Stops!Required PROVE worktree \notin Bad
  <2>1. stopping[s].event = "stop" /\ ~stopping[s].blocked
    BY <1>1, <1>4 DEF Stops!Admits, Stops!Required, Stops!Gated
  <2>2. stopping[s].answer = "accept"
    BY <1>4, <2>1 DEF GateInv, StopsAnswered
  <2> QED BY <2>1, <2>2 DEF CalmInv, Accepted
<1> QED BY <1>1, <1>3, <1>4

\* A step of the one hook at work that leaves the queue alone, and takes no
\* receipt up.
LEMMA AloneMoves ==
  ASSUME GateInv, CalmInv, NEW s \in Sessions, NEW r \in HookType, StopsBecomes(s, r), StopsAlone(s) \/ Stops!Calm,
         ~Stops!At(s, "receipt"),
         UNCHANGED <<gateConfig, worktree, queued, keptFor, measuredOf>>, completed \subseteq completed',
         r.at # "idle" /\ r.identity # Stops!NoChange => r.identity.candidate = worktree /\ r.identity \in completed',
         r.at \in {"receipt", "job"} /\ r.event = "stop" /\ r.answer = "accept" => worktree \notin Bad,
         \A c \in receipts' \ receipts : Stops!Exact(c) =>
           /\ r.at = "receipt" /\ r.event = "stop" /\ ~r.blocked /\ r.identity = c /\ envelope' = c
           /\ c \in completed'
  PROVE  CalmInv' /\ Stops!QueuedWithItsReceipt
<1>1. /\ stopping'[s] = r /\ \A q \in Sessions \ {s} : stopping'[q] = stopping[q]
  BY StopsPointwise DEF GateInv
<1>2. \A q \in Sessions \ {s} : Stops!At(q, "idle") /\ Stops!At(q, "idle")'
  BY <1>1 DEF StopsAlone, Stops!Calm, Stops!At
<1>3. OneHook'
  BY <1>2 DEF OneHook
<1>4. ASSUME NEW q \in Sessions PROVE CompletedNow(q)' /\ Accepted(q)'
  <2>1. CASE q = s
    BY <1>1, <2>1 DEF CompletedNow, Accepted, Stops!At, Stops!NoChange
  <2>2. CASE q # s
    <3>1. stopping'[q].at = "idle"
      BY <1>2, <2>2 DEF Stops!At
    <3> QED BY <3>1 DEF CompletedNow, Accepted, Stops!At
  <2> QED BY <2>1, <2>2
<1>5. Stops!QueuedWasAccepted'
  BY DEF CalmInv, Stops!QueuedWasAccepted, Stops!Required
<1>6. ASSUME NEW c \in receipts', Stops!Exact(c) PROVE Settled(c)'
  <2>1. CASE c \in receipts
    <3>1. ASSUME NEW q \in Sessions, TakesUp(q, c) PROVE FALSE
      <4>1. stopping[q].at = "receipt"
        BY <3>1 DEF TakesUp, Stops!At
      <4> QED BY <1>2, <4>1 DEF Stops!At
    <3>2. c \in measuredOf \/ c \in keptFor
      BY <1>6, <2>1, <3>1 DEF CalmInv, ReceiptsSettle, Settled
    <3> QED BY <3>2 DEF Settled
  <2>2. CASE c \notin receipts
    <3>1. TakesUp(s, c)'
      BY <1>1, <1>6, <2>2 DEF TakesUp, Stops!At
    <3> QED BY <3>1 DEF Settled
  <2> QED BY <2>1, <2>2
<1>7. ReceiptsSettle'
  BY <1>6 DEF ReceiptsSettle, Stops!Exact
<1> QED BY <1>3, <1>4, <1>5, <1>7 DEF CalmInv, Stops!QueuedWithItsReceipt

\* A step that no hook takes.
LEMMA StopsQueueMoves ==
  ASSUME GateInv, CalmInv, UNCHANGED <<gateConfig, stopping, envelope, completed, receipts>>, worktree' = worktree \/ Stops!Calm,
         queued' \subseteq queued, measuredOf \subseteq measuredOf', keptFor \subseteq keptFor' \cup measuredOf'
  PROVE  CalmInv' /\ Stops!QueuedWithItsReceipt
<1>1. OneHook'
  BY DEF CalmInv, OneHook, Stops!At
<1>2. ASSUME NEW q \in Sessions PROVE CompletedNow(q)' /\ Accepted(q)'
  <2>1. CompletedNow(q) /\ Accepted(q)
    BY DEF CalmInv
  <2>2. CASE worktree' = worktree
    BY <2>1, <2>2 DEF CompletedNow, Accepted, Stops!At, Stops!NoChange
  <2>3. CASE Stops!Calm
    BY <2>3 DEF Stops!Calm, CompletedNow, Accepted, Stops!At
  <2> QED BY <2>2, <2>3
<1>3. Stops!QueuedWasAccepted'
  BY DEF CalmInv, Stops!QueuedWasAccepted, Stops!Required
<1>4. ASSUME NEW c \in receipts', Stops!Exact(c) PROVE Settled(c)'
  <2>1. Settled(c)
    BY <1>4 DEF CalmInv, ReceiptsSettle
  <2>2. ASSUME NEW q \in Sessions, TakesUp(q, c) PROVE TakesUp(q, c)'
    BY <2>2 DEF TakesUp, Stops!At
  <2> QED BY <2>1, <2>2 DEF Settled
<1>5. ReceiptsSettle'
  BY <1>4 DEF ReceiptsSettle, Stops!Exact
<1> QED BY <1>1, <1>2, <1>3, <1>5 DEF CalmInv, Stops!QueuedWithItsReceipt

\* The hook that queues what it was told.
LEMMA ReceiptStep ==
  ASSUME Stops!StopGateAssumption, GateInv, CalmInv, NEW s \in Sessions, NEW taken \in BOOLEAN, Stops!Receipt(s, taken)
  PROVE  CalmInv' /\ Stops!QueuedWithItsReceipt
<1>t. StopsTypeInv
  BY DEF GateInv
<1>1. PICK r \in HookType :
        /\ StopsBecomes(s, r) /\ r.at = "job" /\ r.event = stopping[s].event /\ r.identity = stopping[s].identity
        /\ r.answer = stopping[s].answer /\ r.blocked = stopping[s].blocked
  BY <1>t, Asked DEF Stops!Receipt
<1>2. /\ stopping'[s] = r /\ \A q \in Sessions \ {s} : stopping'[q] = stopping[q]
  BY <1>t, <1>1, StopsPointwise
<1>3. stopping[s].at = "receipt" /\ StopsAlone(s)
  BY WorksAlone DEF Stops!Receipt, CalmInv, Stops!At
<1>4. \A q \in Sessions \ {s} : Stops!At(q, "idle") /\ Stops!At(q, "idle")'
  BY <1>2, <1>3 DEF StopsAlone, Stops!At
<1>5. OneHook'
  BY <1>4 DEF OneHook
<1>6. ASSUME NEW q \in Sessions PROVE CompletedNow(q)' /\ Accepted(q)'
  <2>1. CASE q = s
    <3>1. worktree' = worktree /\ completed' = completed
      BY DEF Stops!Receipt
    <3>2. CompletedNow(s) /\ Accepted(s)
      BY DEF CalmInv
    <3> QED BY <1>1, <1>2, <1>3, <2>1, <3>1, <3>2 DEF CompletedNow, Accepted, Stops!At, Stops!NoChange
  <2>2. CASE q # s
    <3>1. stopping'[q].at = "idle"
      BY <1>4, <2>2 DEF Stops!At
    <3> QED BY <3>1 DEF CompletedNow, Accepted, Stops!At
  <2> QED BY <2>1, <2>2
<1>7. ASSUME NEW c \in Stops!Keeps(s) PROVE c \in queued \/ (Stops!Required => c.candidate \notin Bad)
  BY <1>3, OfferedIsAccepted DEF Stops!Keeps
<1>8. Stops!QueuedWasAccepted'
  BY <1>7 DEF CalmInv, Stops!QueuedWasAccepted, Stops!Required, Stops!Receipt
<1>9. ASSUME NEW c \in receipts, Stops!Exact(c) PROVE c \in measuredOf' \/ c \in keptFor'
  <2>1. CASE c \in measuredOf \/ c \in keptFor
    BY <2>1 DEF Stops!Receipt
  <2>2. CASE c \notin measuredOf /\ c \notin keptFor
    <3>1. PICK q \in Sessions : TakesUp(q, c)
      BY <1>9, <2>2 DEF CalmInv, ReceiptsSettle, Settled
    <3>2. q = s
      BY <1>4, <3>1 DEF TakesUp, Stops!At
    <3>3. c \in Stops!Offered(stopping[s]) /\ c \in {envelope} \cap completed
      BY <1>9, <3>1, <3>2 DEF TakesUp, Stops!Offered, Stops!Admits
    <3>4. c \in Stops!Keeps(s)
      BY <2>2, <3>3 DEF Stops!Keeps
    <3> QED BY <3>4 DEF Stops!Receipt
  <2> QED BY <2>1, <2>2
<1>10. ReceiptsSettle'
  <2>1. receipts' = receipts
    BY DEF Stops!Receipt
  <2> QED BY <1>9, <2>1 DEF ReceiptsSettle, Settled, Stops!Exact
<1>11. Stops!QueuedWithItsReceipt
  BY <1>t DEF Stops!QueuedWithItsReceipt, Stops!Receipt, StopsTypeInv
<1> QED BY <1>5, <1>6, <1>8, <1>10, <1>11 DEF CalmInv

LEMMA ScheduleStep ==
  ASSUME Stops!StopGateAssumption, GateInv, CalmInv, NEW s \in Sessions, Stops!Schedule(s)
  PROVE  CalmInv' /\ Stops!QueuedWithItsReceipt
<1>t. StopsTypeInv
  BY DEF GateInv
<1>1. stopping'[s] = Stops!Fresh /\ \A q \in Sessions \ {s} : stopping'[q] = stopping[q]
  BY <1>t, StopsPointwise DEF Stops!Schedule, StopsBecomes
<1>2. stopping[s].at = "job" /\ StopsAlone(s)
  BY WorksAlone DEF Stops!Schedule, CalmInv, Stops!At
<1>3. \A q \in Sessions : stopping'[q].at = "idle"
  BY <1>1, <1>2 DEF StopsAlone, Stops!At, Stops!Fresh
<1>4. OneHook' /\ \A q \in Sessions : CompletedNow(q)' /\ Accepted(q)'
  BY <1>3 DEF OneHook, CompletedNow, Accepted, Stops!At
<1>5. Stops!QueuedWasAccepted'
  BY <1>2, OfferedIsAccepted DEF CalmInv, Stops!QueuedWasAccepted, Stops!Required, Stops!Schedule
<1>6. ASSUME NEW c \in receipts, Stops!Exact(c) PROVE c \in measuredOf \/ c \in keptFor
  <2>1. ASSUME NEW q \in Sessions, TakesUp(q, c) PROVE FALSE
    <3>1. stopping[q].at = "receipt"
      BY <2>1 DEF TakesUp, Stops!At
    <3> QED BY <1>2, <3>1 DEF StopsAlone, Stops!At
  <2> QED BY <1>6, <2>1 DEF CalmInv, ReceiptsSettle, Settled
<1>7. ReceiptsSettle'
  <2>1. UNCHANGED <<receipts, measuredOf, keptFor>>
    BY DEF Stops!Schedule
  <2> QED BY <1>6, <2>1 DEF ReceiptsSettle, Settled, Stops!Exact
<1>8. Stops!QueuedWithItsReceipt
  <2>1. ASSUME NEW c \in queued', c \notin queued, c \in receipts PROVE c \in keptFor'
    <3>1. c \in Stops!Offered(stopping[s]) /\ c \notin measuredOf /\ keptFor' = keptFor
      BY <2>1 DEF Stops!Schedule
    <3>2. Stops!Exact(c)
      BY <3>1 DEF Stops!Offered
    <3> QED BY <1>6, <2>1, <3>1, <3>2
  <2> QED BY <2>1 DEF Stops!QueuedWithItsReceipt
<1> QED BY <1>4, <1>5, <1>7, <1>8 DEF CalmInv

LEMMA CalmInit == ASSUME Stops!StopGateAssumption, Stops!Init PROVE CalmInv
<1>1. \A s \in Sessions : stopping[s].at = "idle"
  BY DEF Stops!Init, Stops!Fresh
<1> QED
  BY <1>1 DEF Stops!Init, CalmInv, OneHook, CompletedNow, Accepted, Stops!QueuedWasAccepted, ReceiptsSettle, Stops!At

LEMMA CalmStep ==
  ASSUME Stops!StopGateAssumption, ~Overlap, GateInv, CalmInv, [Stops!Next]_Stops!vars PROVE CalmInv' /\ Stops!QueuedWithItsReceipt
<1>t. StopsTypeInv /\ \A s \in Sessions : StopsAnswered(s) /\ stopping[s] \in HookType
  BY DEF GateInv, StopsTypeInv
<1>a. \A s \in Sessions : ~Stops!At(s, "idle") => StopsAlone(s)
  BY WorksAlone DEF CalmInv
<1>f. Stops!Fresh \in HookType /\ Stops!Fresh.at = "idle"
  BY FreshType DEF Stops!Fresh
<1>1. CASE UNCHANGED Stops!vars
  BY <1>1, StopsQueueMoves DEF Stops!vars
<1>2. ASSUME NEW s \in Sessions, NEW event \in Stops!Events, Stops!Begin(s, event) PROVE CalmInv' /\ Stops!QueuedWithItsReceipt
  <2>1. PICK r \in HookType : StopsBecomes(s, r) /\ r.at = "sidecar" /\ r.identity = Stops!NoChange
    BY <1>2, Begins
  <2> QED BY <1>2, <2>1, AloneMoves DEF Stops!Begin, Stops!At, Stops!project
<1>3. ASSUME NEW s \in Sessions, Stops!Sidecar(s) PROVE CalmInv' /\ Stops!QueuedWithItsReceipt
  <2>1. PICK r \in HookType : /\ StopsBecomes(s, r) /\ r.at = Stops!AfterSidecar(stopping[s]) /\ r.event = stopping[s].event
                              /\ r.identity = Found(s) /\ Found(s) \in Stops!Change
    BY <1>3, <1>t, Finds
  <2>2. Found(s) # Stops!NoChange => Found(s).candidate = worktree /\ Found(s) \in completed'
    BY <1>3 DEF Stops!Sidecar, Found
  <2>3. ~Stops!At(s, "idle") /\ ~Stops!At(s, "receipt")
    BY <1>3 DEF Stops!Sidecar, Stops!At
  <2>4. ~(r.at \in {"receipt", "job"} /\ r.event = "stop")
    BY <2>1 DEF Stops!AfterSidecar
  <2> QED BY <1>3, <1>a, <2>1, <2>2, <2>3, <2>4, AloneMoves DEF Stops!Sidecar
<1>4. ASSUME NEW s \in Sessions, Stops!SidecarThrows(s) PROVE CalmInv' /\ Stops!QueuedWithItsReceipt
  <2>1. PICK r \in HookType : /\ StopsBecomes(s, r)
                              /\ \/ r = Stops!Fresh
                                 \/ /\ r.at = Stops!AfterSidecar(stopping[s]) /\ r.event = stopping[s].event
                                    /\ r.identity = stopping[s].identity
    BY <1>4, <1>t, Throws
  <2>2. ~Stops!At(s, "idle") /\ ~Stops!At(s, "receipt") /\ UNCHANGED <<gateConfig, worktree, Stops!project>>
    BY <1>4 DEF Stops!SidecarThrows, Stops!At
  <2>3. ~(r.at \in {"receipt", "job"} /\ r.event = "stop")
    BY <1>f, <2>1 DEF Stops!AfterSidecar
  <2>4. r.at # "idle" /\ r.identity # Stops!NoChange => r.identity.candidate = worktree /\ r.identity \in completed
    BY <1>f, <2>1, <2>2 DEF CalmInv, CompletedNow
  <2> QED BY <1>a, <2>1, <2>2, <2>3, <2>4, AloneMoves DEF Stops!project
<1>5. ASSUME NEW s \in Sessions, Stops!NotAsked(s) \/ Stops!NativeFails(s) PROVE CalmInv' /\ Stops!QueuedWithItsReceipt
  <2>1. PICK answer \in {"none", "failed"} : Stops!Answer(s, answer)
    BY <1>5 DEF Stops!NotAsked, Stops!NativeFails
  <2>2. answer \in Stops!Answers
    BY DEF Stops!Answers
  <2>3. PICK r \in HookType :
          /\ StopsBecomes(s, r)
          /\ stopping[s].event = "start" => r = Stops!Fresh
          /\ stopping[s].event # "start" => r.answer = answer /\ r.identity = stopping[s].identity
    BY <1>t, <2>1, <2>2, Answering
  <2>4. ~Stops!At(s, "idle") /\ ~Stops!At(s, "receipt") /\ UNCHANGED <<gateConfig, worktree, Stops!project>>
    BY <1>5 DEF Stops!NotAsked, Stops!NativeFails, Stops!At
  <2>5. ~(r.at \in {"receipt", "job"} /\ r.answer = "accept")
    BY <1>f, <2>3
  <2>6. r.at # "idle" /\ r.identity # Stops!NoChange => r.identity.candidate = worktree /\ r.identity \in completed
    BY <1>f, <2>3, <2>4 DEF CalmInv, CompletedNow
  <2> QED BY <1>a, <2>3, <2>4, <2>5, <2>6, AloneMoves DEF Stops!project
<1>6. ASSUME NEW s \in Sessions, Stops!Arms(s) PROVE CalmInv' /\ Stops!QueuedWithItsReceipt
  <2>1. PICK r \in HookType : StopsBecomes(s, r) /\ r = Stops!Fresh
    BY <1>6, <1>t, Answering DEF Stops!Arms, Stops!Answers
  <2>2. ~Stops!At(s, "idle") /\ ~Stops!At(s, "receipt") /\ UNCHANGED <<gateConfig, worktree, Stops!project>>
    BY <1>6 DEF Stops!Arms, Stops!At
  <2> QED BY <1>a, <1>f, <2>1, <2>2, AloneMoves DEF Stops!project
<1>7. ASSUME NEW s \in Sessions, Stops!Judges(s) PROVE CalmInv' /\ Stops!QueuedWithItsReceipt
  <2>1. PICK answer \in {"unarmed", "block", "accept"} :
          /\ Stops!Answer(s, answer)
          /\ answer = "accept" => worktree \notin Bad
          /\ armed[s] # "unset" /\ worktree \notin Bad => answer = "accept" /\ envelope' = Stops!Judged(s)
    BY <1>7 DEF Stops!Judges
  <2>2. answer \in Stops!Answers /\ (answer = "accept" => ~Stops!Blocks(answer))
    BY <2>1 DEF Stops!Answers, Stops!Blocks
  <2>3. PICK r \in HookType :
          /\ StopsBecomes(s, r) /\ r.at = "receipt" /\ r.event = "stop" /\ r.identity = stopping[s].identity
          /\ r.blocked = Stops!Blocks(answer) /\ r.answer = answer
    BY <1>7, <1>t, <2>1, <2>2, Answering DEF Stops!Judges
  <2>4. ~Stops!At(s, "idle") /\ ~Stops!At(s, "receipt") /\ UNCHANGED <<gateConfig, worktree, queued, keptFor, measuredOf, completed>>
    BY <1>7 DEF Stops!Judges, Stops!At
  <2>5. r.identity # Stops!NoChange => r.identity.candidate = worktree /\ r.identity \in completed
    BY <2>3, <2>4 DEF CalmInv, CompletedNow
  <2>6. ASSUME NEW c \in receipts', c \notin receipts, Stops!Exact(c)
        PROVE  ~r.blocked /\ r.identity = c /\ envelope' = c /\ c \in completed
    <3>1. c = Stops!Judged(s) /\ armed[s] # "unset" /\ worktree \notin Bad /\ c = stopping[s].identity
      BY <1>7, <2>6 DEF Stops!Judges
    <3>2. c # Stops!NoChange
      BY <2>6 DEF Stops!Exact, Stops!NoChange
    <3> QED BY <2>1, <2>2, <2>3, <2>5, <3>1, <3>2
  <2> QED BY <1>a, <2>1, <2>3, <2>4, <2>5, <2>6, AloneMoves
<1>8. ASSUME NEW s \in Sessions, NEW taken \in BOOLEAN, Stops!Receipt(s, taken) PROVE CalmInv' /\ Stops!QueuedWithItsReceipt
  BY <1>8, ReceiptStep
<1>9. ASSUME NEW s \in Sessions, Stops!Schedule(s) PROVE CalmInv' /\ Stops!QueuedWithItsReceipt
  BY <1>9, ScheduleStep
<1>10. ASSUME NEW c \in queued, Stops!Work(c) PROVE CalmInv' /\ Stops!QueuedWithItsReceipt
  BY <1>10, StopsQueueMoves DEF Stops!Work
<1>11. ASSUME NEW x \in Versions, Stops!Edit(x) PROVE CalmInv' /\ Stops!QueuedWithItsReceipt
  BY <1>11, StopsQueueMoves DEF Stops!Edit, Stops!project
<1> QED
  BY <1>1, <1>2, <1>3, <1>4, <1>5, <1>6, <1>7, <1>8, <1>9, <1>10, <1>11, StopsStepCases

-----------------------------------------------------------------------------
(* The theorems *)

LEMMA TypeInvImplies == ASSUME StopsTypeInv PROVE Stops!TypeOK
  BY DEF StopsTypeInv, Stops!TypeOK, HookType

\* The state of hooks, files and queue keeps its shape.
THEOREM StopsTypeCorrect == ASSUME Stops!StopGateAssumption PROVE Stops!Spec => []Stops!TypeOK
<1>1. Stops!Init => GateInv
  BY GateInit
<1>2. GateInv /\ [Stops!Next]_Stops!vars => GateInv'
  BY GateStep
<1>3. GateInv => Stops!TypeOK
  BY TypeInvImplies DEF GateInv
<1> QED BY <1>1, <1>2, <1>3, PTL DEF Stops!Spec

\* Whatever hooks overlap, fail or throw: where DiffWitness is required, a Stop of
\* Claude or Codex ends blocked or accepted (src/bin/idleproof-hook.mjs).
THEOREM EveryStopIsJudged == ASSUME Stops!StopGateAssumption PROVE Stops!Spec => [][Stops!StopsAreJudged]_Stops!vars
<1>1. Stops!Init => GateInv
  BY GateInit
<1>2. GateInv /\ [Stops!Next]_Stops!vars => GateInv' /\ Stops!StopsAreJudged
  BY GateStep
<1> QED BY <1>1, <1>2, PTL DEF Stops!Spec

\* Where no two hooks overlap, no change that DiffWitness blocks is in the queue
\* of a project that requires it, and a change enters the queue with the receipt
\* that its accepted Stop left.
THEOREM QueuedIsAccepted ==
  ASSUME Stops!StopGateAssumption, ~Overlap
  PROVE  Stops!Spec => []Stops!QueuedWasAccepted /\ [][Stops!QueuedWithItsReceipt]_Stops!vars
<1>1. Stops!Init => GateInv /\ CalmInv
  BY GateInit, CalmInit
<1>2. GateInv /\ CalmInv /\ [Stops!Next]_Stops!vars => GateInv' /\ CalmInv' /\ Stops!QueuedWithItsReceipt
  BY GateStep, CalmStep
<1>3. CalmInv => Stops!QueuedWasAccepted
  BY DEF CalmInv
<1> QED BY <1>1, <1>2, <1>3, PTL DEF Stops!Spec

-----------------------------------------------------------------------------
(* The pruning of kept measurements, for any changes, pruners and Keep, also  *)
(* where failed jobs leave the list: a prune removes what was kept for a job  *)
(* only of a change that was dropped with its directory left, and listed      *)
(* again after the prune read the queue.                                      *)

\* An instance has its own copy of the library's operators.
LEMMA PrunesLibrary ==
  /\ \A S : Prunes!ToSet(S) = ToSet(S)
  /\ \A f : Prunes!IsInjective(f) = IsInjective(f)
  /\ \A S : Prunes!Cardinality(S) = Cardinality(S)
  /\ \A s, I : Prunes!Sub(s, I) = Sub(s, I)
<1>1. \A S : Prunes!ToSet(S) = ToSet(S)
  BY DEF Prunes!ToSet, ToSet
<1>2. \A f : Prunes!IsInjective(f) = IsInjective(f)
  BY DEF Prunes!IsInjective, IsInjective
<1>3. \A S : Prunes!Cardinality(S) = Cardinality(S)
  BY Zenon DEF Prunes!Cardinality, Cardinality
<1>4. \A s, I : Prunes!Sub(s, I) = Sub(s, I)
  BY Zenon DEF Prunes!Sub, Sub, Prunes!Rank, Rank, Prunes!Cardinality, Cardinality
<1> QED BY <1>1, <1>2, <1>3, <1>4

-----------------------------------------------------------------------------
(* Positions *)

\* The rank of a position is how many there are up to it.
LEMMA RankBound ==
  ASSUME NEW n \in Nat, NEW I \in SUBSET (1 .. n), NEW i \in I
  PROVE  Rank(I, i) \in Nat /\ Rank(I, i) <= i
<1> DEFINE J == {j \in I : j <= i}
<1>1. i \in Nat /\ J \subseteq 1 .. i
  <2>1. \A j \in I : j \in 1 .. n
    OBVIOUS
  <2>2. i \in Nat
    BY <2>1
  <2>3. ASSUME NEW j \in J PROVE j \in 1 .. i
    BY <2>1, <2>2, <2>3
  <2> QED BY <2>2, <2>3
<1>2. IsFiniteSet(1 .. i) /\ Cardinality(1 .. i) = i
  BY <1>1, FS_Interval
<1>3. IsFiniteSet(J) /\ Cardinality(J) <= i
  BY <1>1, <1>2, FS_Subset
<1>4. Cardinality(J) \in Nat
  BY <1>3, FS_CardinalityType
<1> QED BY <1>3, <1>4 DEF Rank

\* The k-th element of a subsequence comes from the position of rank k.
LEMMA SubRanks ==
  ASSUME NEW S, NEW s \in Seq(S), NEW I \in SUBSET DOMAIN s, NEW k \in DOMAIN Sub(s, I)
  PROVE  \E i \in I : Sub(s, I)[k] = s[i] /\ Rank(I, i) = k /\ k <= i
<1>1. Len(s) \in Nat /\ DOMAIN s = 1 .. Len(s)
  OBVIOUS
<1>2. k \in 1 .. Cardinality(I)
  BY DEF Sub
<1>3. \E i \in I : Rank(I, i) = k
  BY <1>1, <1>2, RankOnto
<1> DEFINE i == CHOOSE j \in I : Rank(I, j) = k
<1>4. i \in I /\ Rank(I, i) = k
  BY <1>3
<1>5. Sub(s, I)[k] = s[i]
  BY <1>2 DEF Sub
<1>6. k <= i
  BY <1>1, <1>4, RankBound
<1> QED BY <1>4, <1>5, <1>6

But(s, d) == Sub(s, {i \in DOMAIN s : s[i] # d})

\* Where d leaves a list without repetitions, what comes after it moves by one
\* place and nothing else moves.
LEMMA OneLeaves ==
  ASSUME NEW S, NEW s \in Seq(S), Distinct(s), NEW d, NEW k \in DOMAIN But(s, d)
  PROVE  \E i \in DOMAIN s : /\ But(s, d)[k] = s[i] /\ s[i] # d /\ k \in {i, i - 1}
                             /\ (\A j \in DOMAIN s : s[j] = d => i < j) => k = i
<1> DEFINE I == {i \in DOMAIN s : s[i] # d}
<1>1. Len(s) \in Nat /\ DOMAIN s = 1 .. Len(s) /\ I \subseteq DOMAIN s
  OBVIOUS
<1>2. PICK i \in I : But(s, d)[k] = s[i] /\ Rank(I, i) = k /\ k <= i
  <2>1. But(s, d) = Sub(s, I)
    BY DEF But
  <2> HIDE DEF I
  <2> QED BY <1>1, <2>1, SubRanks
<1> DEFINE J == {j \in I : j <= i}
<1>3. i \in Nat /\ IsFiniteSet(1 .. i) /\ Cardinality(1 .. i) = i
  BY <1>1, <1>2, FS_Interval
<1>4. CASE \A j \in DOMAIN s : s[j] = d => i < j
  <2>1. J = 1 .. i
    BY <1>1, <1>2, <1>4
  <2> QED BY <1>2, <1>3, <2>1 DEF Rank
<1>5. CASE \E j \in DOMAIN s : s[j] = d /\ ~(i < j)
  <2>1. PICK j \in DOMAIN s : s[j] = d /\ ~(i < j)
    BY <1>5
  <2>2. J = (1 .. i) \ {j} /\ j \in 1 .. i
    <3>1. \A h \in DOMAIN s : s[h] # d <=> h # j
      BY <2>1 DEF Distinct
    <3> QED BY <1>1, <1>2, <2>1, <3>1
  <2>3. Cardinality((1 .. i) \ {j}) = i - 1
    BY <1>3, <2>2, FS_RemoveElement
  <2>4. Rank(I, i) = i - 1
    BY <2>2, <2>3 DEF Rank
  <2> QED BY <1>2, <1>5, <2>4
<1> QED BY <1>2, <1>4, <1>5

\* The same lists without repetitions: d leaves, or comes first.
LEMMA WithoutKeeps ==
  ASSUME NEW S, NEW s \in Seq(S), Distinct(s), NEW d, NEW t, t = But(s, d)
  PROVE  t \in Seq(S) /\ Distinct(t) /\ Elements(t) = Elements(s) \ {d}
<1> DEFINE I == {i \in DOMAIN s : s[i] # d}
<1>1. /\ t \in Seq(S) /\ Inside(t, s)
      /\ \A i \in I : s[i] \in Elements(t)
      /\ \A e \in Elements(t) : \E i \in I : e = s[i]
  <2>1. t = Sub(s, I) /\ I \in SUBSET DOMAIN s
    BY DEF But
  <2> HIDE DEF I
  <2> QED BY <2>1, SubInside
<1>2. Distinct(t)
  BY <1>1 DEF Inside, Distinct
<1>3. Elements(t) = Elements(s) \ {d}
  <2>1. ASSUME NEW e \in Elements(t) PROVE e \in Elements(s) \ {d}
    <3>1. PICK i \in I : e = s[i]
      BY <1>1
    <3> QED BY <3>1 DEF Elements
  <2>2. ASSUME NEW e \in Elements(s), e # d PROVE e \in Elements(t)
    <3>1. PICK i \in DOMAIN s : e = s[i]
      BY DEF Elements
    <3> QED BY <1>1, <2>2, <3>1
  <2> QED BY <2>1, <2>2
<1> QED BY <1>1, <1>2, <1>3

LEMMA FirstKeeps ==
  ASSUME NEW S, NEW s \in Seq(S), Distinct(s), NEW d \in S, d \notin Elements(s)
  PROVE  LET t == <<d>> \o s IN
         /\ t \in Seq(S) /\ Distinct(t) /\ Elements(t) = Elements(s) \cup {d} /\ DOMAIN t = 1 .. (Len(s) + 1)
         /\ t[1] = d /\ \A k \in DOMAIN s : k + 1 \in DOMAIN t /\ t[k + 1] = s[k]
<1> DEFINE t == <<d>> \o s
<1>1. /\ t \in Seq(S) /\ Len(t) = Len(s) + 1 /\ Len(s) \in Nat /\ DOMAIN s = 1 .. Len(s)
      /\ DOMAIN t = 1 .. (Len(s) + 1) /\ t[1] = d /\ \A k \in 1 .. Len(s) : t[k + 1] = s[k]
  <2>1. <<d>> \in Seq(S) /\ Len(<<d>>) = 1 /\ <<d>>[1] = d
    OBVIOUS
  <2>2. /\ t \in Seq(S) /\ Len(t) = Len(<<d>>) + Len(s)
        /\ \A i \in 1 .. Len(<<d>>) + Len(s) : t[i] = IF i <= Len(<<d>>) THEN <<d>>[i] ELSE s[i - Len(<<d>>)]
    BY <2>1, ConcatProperties
  <2>3. Len(s) \in Nat /\ DOMAIN s = 1 .. Len(s) /\ DOMAIN t = 1 .. Len(t)
    BY <2>2
  <2> HIDE DEF t
  <2>4. ASSUME NEW k \in 1 .. Len(s) PROVE t[k + 1] = s[k]
    <3>1. k + 1 \in 1 .. Len(<<d>>) + Len(s) /\ ~(k + 1 <= Len(<<d>>)) /\ k + 1 - Len(<<d>>) = k
      BY <2>1, <2>3
    <3> QED BY <2>2, <3>1
  <2> QED BY <2>1, <2>2, <2>3, <2>4
<1> HIDE DEF t
<1>2. \A k \in DOMAIN t : k = 1 \/ (k - 1 \in DOMAIN s /\ t[k] = s[k - 1])
  BY <1>1
<1>3. Elements(t) = Elements(s) \cup {d}
  <2>1. Elements(t) \subseteq Elements(s) \cup {d}
    BY <1>1, <1>2 DEF Elements
  <2>2. \A k \in DOMAIN s : k + 1 \in DOMAIN t /\ t[k + 1] = s[k]
    BY <1>1
  <2>3. 1 \in DOMAIN t
    BY <1>1
  <2>4. \A e \in Elements(s) \cup {d} : e \in Elements(t)
    BY <1>1, <2>2, <2>3 DEF Elements
  <2> QED BY <2>1, <2>4
<1>4. ASSUME NEW i \in DOMAIN t, NEW k \in DOMAIN t, t[i] = t[k] PROVE i = k
  <2>1. i \in Nat /\ k \in Nat
    BY <1>1
  <2>2. CASE i = 1 /\ k # 1
    BY <1>1, <1>2, <1>4, <2>2 DEF Elements
  <2>3. CASE i # 1 /\ k = 1
    BY <1>1, <1>2, <1>4, <2>3 DEF Elements
  <2>4. CASE i # 1 /\ k # 1
    <3>1. i - 1 \in DOMAIN s /\ k - 1 \in DOMAIN s /\ s[i - 1] = s[k - 1]
      BY <1>2, <1>4, <2>4
    <3>2. i - 1 = k - 1
      BY <3>1 DEF Distinct
    <3> QED BY <2>1, <3>2
  <2> QED BY <2>2, <2>3, <2>4
<1>5. Distinct(t)
  BY <1>4 DEF Distinct
<1> QED BY <1>1, <1>3, <1>5 DEF t

\* A list without repetitions has as many elements as places.
LEMMA DistinctCounts ==
  ASSUME NEW S, NEW s \in Seq(S), Distinct(s)
  PROVE  Cardinality(Elements(s)) = Len(s)
<1>1. Len(s) \in Nat /\ DOMAIN s = 1 .. Len(s) /\ s \in [1 .. Len(s) -> S]
  OBVIOUS
<1>2. s \in Bijection(1 .. Len(s), Elements(s))
  <2>1. s \in [1 .. Len(s) -> Elements(s)]
    BY <1>1 DEF Elements
  <2>2. s \in Injection(1 .. Len(s), Elements(s))
    BY <1>1, <2>1 DEF Injection, IsInjective, Distinct
  <2>3. s \in Surjection(1 .. Len(s), Elements(s))
    BY <1>1, <2>1 DEF Surjection, Elements
  <2> QED BY <2>2, <2>3 DEF Bijection
<1>3. IsFiniteSet(1 .. Len(s)) /\ Cardinality(1 .. Len(s)) = Len(s)
  BY <1>1, FS_Interval
<1> QED BY <1>2, <1>3, FS_Bijection DEF ExistsBijection

-----------------------------------------------------------------------------
(* The inductive invariant *)

All == Measurable \cup ToSet(Old)
PrunerType == [pc : {"idle", "queue", "names", "ages", "remove"}, queued : SUBSET Measurable,
               names : SUBSET All, entries : Seq(All)]
PrunesTypeInv ==
  /\ jobs \subseteq Measurable /\ measured \subseteq All
  /\ dirs \in Seq(All) /\ Distinct(dirs) /\ kept \subseteq Elements(dirs)
  /\ burst \in 0 .. Keep /\ pruner \in [Pruners -> PrunerType] /\ lapsed \subseteq Measurable

\* A directory is of a job, of a measured change or of one that was dropped.
ListInv == jobs \cap measured = {} /\ Elements(dirs) \subseteq jobs \cup measured \cup lapsed

\* e has been modified since a prune began; e is not among the latest.
Recent(e) == \A i \in DOMAIN dirs : dirs[i] = e => i <= burst
Past(e) == \A i \in DOMAIN dirs : dirs[i] = e => i > Keep

\* What a pruner has read: a job that it has not seen listed has a recent
\* directory or was dropped before; what it removes it has not seen listed, and is
\* measured or was dropped.  Directories of dropped changes may come back among the
\* latest, so only without them all it removes is beyond these.
Ended(e) == e \in measured \cup lapsed
Removes(p, e) == Ended(e) /\ e \notin pruner[p].queued /\ (lapsed = {} => Past(e))
Reads(p) ==
  /\ pruner[p].pc \in {"names", "ages"} => \A e \in jobs \ pruner[p].queued : e \in lapsed \/ Recent(e)
  /\ pruner[p].pc = "ages" => pruner[p].names \cap pruner[p].queued = {}
  /\ pruner[p].pc = "remove" => \A e \in Elements(pruner[p].entries) : Removes(p, e)
PruneInv == PrunesTypeInv /\ ListInv /\ \A p \in Pruners : Reads(p)

LEMMA ToSetElements == ASSUME NEW s PROVE ToSet(s) = Elements(s)
  BY DEF ToSet, Elements

LEMMA Initially == ASSUME Prunes!WorkPruneAssumption, Prunes!Init PROVE PruneInv
<1>1. Old \in Seq(All)
  <2>1. ToSet(Old) \subseteq All
    BY DEF All
  <2> QED BY <2>1, SeqMonotonic DEF Prunes!WorkPruneAssumption
<1>2. Distinct(Old)
  BY PrunesLibrary DEF Prunes!WorkPruneAssumption, IsInjective, Distinct
<1>3. Prunes!Idle \in PrunerType /\ Prunes!Idle.pc = "idle"
  BY DEF Prunes!Idle, PrunerType
<1>4. PrunesTypeInv
  BY PrunesLibrary, <1>1, <1>2, <1>3, ToSetElements DEF Prunes!Init, PrunesTypeInv, All, Prunes!WorkPruneAssumption
<1>5. ListInv
  BY PrunesLibrary, ToSetElements DEF Prunes!Init, ListInv
<1>6. \A p \in Pruners : pruner[p].pc = "idle"
  BY <1>3 DEF Prunes!Init
<1> QED BY <1>4, <1>5, <1>6 DEF PruneInv, Reads

-----------------------------------------------------------------------------
(* Steps *)

PrunesKept == PruneInv' /\ Prunes!KeptForJob /\ Prunes!LatestStay

\* A directory that is modified comes first, before all the others.
LEMMA TouchMoves ==
  ASSUME PrunesTypeInv, Keep \in Nat, NEW c \in Measurable, Prunes!Touch(c)
  PROVE  /\ dirs' \in Seq(All) /\ Distinct(dirs') /\ Elements(dirs') = Elements(dirs) \cup {c}
         /\ \A k \in DOMAIN dirs' : \/ k = 1 /\ dirs'[k] = c
                                    \/ /\ dirs'[k] # c
                                       /\ \E i \in DOMAIN dirs : dirs'[k] = dirs[i] /\ k \in {i, i + 1}
         /\ burst' \in 0 .. Keep /\ (Prunes!Quiet(pruner) \/ burst' = burst + 1)
<1> DEFINE s == But(dirs, c)
<1>1. s \in Seq(All) /\ Distinct(s) /\ Elements(s) = Elements(dirs) \ {c}
  BY WithoutKeeps DEF PrunesTypeInv
<1>2. c \in All /\ c \notin Elements(s)
  BY <1>1 DEF All
<1>3. ASSUME NEW k \in DOMAIN s
      PROVE  s[k] # c /\ \E i \in DOMAIN dirs : s[k] = dirs[i] /\ k \in {i, i - 1}
  <2>1. PICK i \in DOMAIN dirs : s[k] = dirs[i] /\ dirs[i] # c /\ k \in {i, i - 1}
    BY OneLeaves DEF PrunesTypeInv
  <2> QED BY <2>1
<1>4. dirs' = <<c>> \o s
  BY PrunesLibrary DEF Prunes!Touch, Prunes!Without, But
<1> HIDE DEF s
<1>5. /\ dirs' \in Seq(All) /\ Distinct(dirs') /\ Elements(dirs') = Elements(s) \cup {c}
      /\ DOMAIN dirs' = 1 .. (Len(s) + 1) /\ dirs'[1] = c
      /\ \A k \in DOMAIN s : k + 1 \in DOMAIN dirs' /\ dirs'[k + 1] = s[k]
  BY <1>1, <1>2, <1>4, FirstKeeps
<1>6. ASSUME NEW k \in DOMAIN dirs', k # 1
      PROVE  dirs'[k] # c /\ \E i \in DOMAIN dirs : dirs'[k] = dirs[i] /\ k \in {i, i + 1}
  <2>1. k - 1 \in DOMAIN s /\ k \in Nat
    BY <1>1, <1>5, <1>6
  <2>2. dirs'[k] = s[k - 1]
    <3>1. dirs'[(k - 1) + 1] = s[k - 1]
      BY <1>5, <2>1
    <3> QED BY <2>1, <3>1
  <2>3. PICK i \in DOMAIN dirs : s[k - 1] = dirs[i] /\ k - 1 \in {i, i - 1}
    BY <1>3, <2>1
  <2>4. i \in Nat
    BY DEF PrunesTypeInv
  <2>5. k \in {i, i + 1}
    BY <2>1, <2>3, <2>4
  <2> QED BY <1>3, <2>1, <2>2, <2>3, <2>5
<1>7. burst' \in 0 .. Keep /\ (Prunes!Quiet(pruner) \/ burst' = burst + 1)
  BY DEF Prunes!Touch, PrunesTypeInv
<1> QED BY <1>1, <1>5, <1>6, <1>7

LEMMA Touched ==
  ASSUME PruneInv, Keep \in Nat, NEW c \in Measurable, c \notin measured, Prunes!Touch(c), jobs' = jobs \cup {c},
         kept \subseteq kept', kept' \subseteq kept \cup {c}, UNCHANGED <<measured, pruner, lapsed>>
  PROVE  PrunesKept
<1>1. /\ dirs' \in Seq(All) /\ Distinct(dirs') /\ Elements(dirs') = Elements(dirs) \cup {c}
      /\ burst' \in 0 .. Keep /\ (Prunes!Quiet(pruner) \/ burst' = burst + 1)
  BY TouchMoves DEF PruneInv
<1>2. \A k \in DOMAIN dirs' : \/ k = 1 /\ dirs'[k] = c
                              \/ /\ dirs'[k] # c
                                 /\ \E i \in DOMAIN dirs : dirs'[k] = dirs[i] /\ k \in {i, i + 1}
  BY TouchMoves DEF PruneInv
<1>3. PrunesTypeInv' /\ ListInv'
  BY <1>1 DEF PruneInv, PrunesTypeInv, ListInv
<1>n. burst \in Nat /\ \A i \in DOMAIN dirs : i \in Nat
  BY DEF PruneInv, PrunesTypeInv
<1>4. ASSUME NEW p \in Pruners PROVE Reads(p)'
  <2>1. pruner'[p] = pruner[p] /\ Reads(p)
    BY DEF PruneInv
  <2>2. ASSUME pruner[p].pc \in {"names", "ages"}, NEW e \in jobs' \ pruner[p].queued, e \notin lapsed PROVE Recent(e)'
    <3>1. burst' = burst + 1
      BY <1>1, <2>2 DEF Prunes!Quiet
    <3>2. ASSUME NEW k \in DOMAIN dirs', dirs'[k] = e PROVE k <= burst'
      <4>1. CASE k = 1
        BY <1>n, <3>1, <4>1
      <4>2. CASE k # 1
        <5>1. PICK i \in DOMAIN dirs : dirs'[k] = dirs[i] /\ k \in {i, i + 1} /\ dirs'[k] # c
          BY <1>2, <4>2
        <5>2. e \in jobs \ pruner[p].queued
          BY <2>2, <3>2, <5>1
        <5>3. i <= burst
          BY <2>1, <2>2, <3>2, <5>1, <5>2 DEF Reads, Recent
        <5> QED BY <1>n, <3>1, <5>1, <5>3
      <4> QED BY <4>1, <4>2
    <3> QED BY <3>2 DEF Recent
  <2>3. ASSUME pruner[p].pc = "remove", NEW e \in Elements(pruner[p].entries) PROVE Removes(p, e)'
    <3>1. Removes(p, e)
      BY <2>1, <2>3 DEF Reads
    <3>2. ASSUME lapsed = {}, NEW k \in DOMAIN dirs', dirs'[k] = e PROVE k > Keep
      <4>1. PICK i \in DOMAIN dirs : dirs'[k] = dirs[i] /\ k \in {i, i + 1}
        BY <1>2, <3>1, <3>2 DEF Removes, Ended
      <4>2. i > Keep
        BY <3>1, <3>2, <4>1 DEF Past, Removes
      <4> QED BY <1>n, <4>1, <4>2
    <3> QED BY <2>1, <3>1, <3>2 DEF Past, Removes, Ended
  <2> QED BY <2>1, <2>2, <2>3 DEF Reads
<1>5. Prunes!KeptForJob
  BY DEF Prunes!KeptForJob
<1>6. Prunes!LatestStay
  BY PrunesLibrary, <1>1, ToSetElements DEF Prunes!LatestStay, Elements
<1> QED BY <1>3, <1>4, <1>5, <1>6 DEF PrunesKept, PruneInv

\* Changes of the queue and of what it records.
LEMMA PrunesQueueMoves ==
  ASSUME PruneInv, UNCHANGED <<dirs, kept, burst>>, jobs' \subseteq Measurable, measured' \subseteq All,
         jobs' \cap measured' = {}, measured \subseteq measured', lapsed \subseteq lapsed', lapsed' \subseteq Measurable,
         jobs \cap Elements(dirs) \subseteq jobs' \cup measured' \cup lapsed',
         \A e \in jobs' \ jobs : e \in Elements(dirs) => e \in lapsed,
         pruner' \in [Pruners -> PrunerType],
         \A p \in Pruners : pruner'[p] = pruner[p] \/ pruner'[p].pc = "queue"
  PROVE  PrunesKept
<1>1. PrunesTypeInv' /\ ListInv'
  BY DEF PruneInv, PrunesTypeInv, ListInv
<1>2. ASSUME NEW p \in Pruners PROVE Reads(p)'
  <2>1. Reads(p)
    BY DEF PruneInv
  <2>2. CASE pruner'[p].pc = "queue"
    BY <2>2 DEF Reads
  <2>3. CASE pruner'[p] = pruner[p]
    <3>1. ASSUME pruner[p].pc \in {"names", "ages"}, NEW e \in jobs' \ pruner[p].queued PROVE e \in lapsed' \/ Recent(e)'
      <4>1. CASE e \in jobs
        BY <2>1, <3>1, <4>1 DEF Reads, Recent
      <4>2. CASE e \notin jobs
        BY <3>1, <4>2 DEF Recent, Elements
      <4> QED BY <4>1, <4>2
    <3>2. ASSUME NEW e, Removes(p, e) PROVE Removes(p, e)'
      BY <2>3, <3>2 DEF Past, Removes, Ended
    <3> QED BY <2>1, <2>3, <3>1, <3>2 DEF Reads
  <2> QED BY <2>2, <2>3
<1>3. Prunes!KeptForJob /\ Prunes!LatestStay
  BY PrunesLibrary, ToSetElements DEF Prunes!KeptForJob, Prunes!LatestStay, Elements
<1> QED BY <1>1, <1>2, <1>3 DEF PrunesKept, PruneInv

\* A pruner reads.
LEMMA PrunerMoves ==
  ASSUME PruneInv, UNCHANGED <<jobs, measured, dirs, kept, lapsed>>, NEW p \in Pruners, NEW r \in PrunerType,
         pruner' = [pruner EXCEPT ![p] = r], Reads(p)', burst' \in 0 .. Keep,
         (\E q \in Pruners \ {p} : pruner[q].pc # "idle") => burst' = burst
  PROVE  PrunesKept
<1>1. PrunesTypeInv' /\ ListInv'
  BY DEF PruneInv, PrunesTypeInv, ListInv
<1>2. ASSUME NEW q \in Pruners, q # p PROVE Reads(q)'
  <2>1. pruner'[q] = pruner[q] /\ Reads(q) /\ (pruner[q].pc # "idle" => burst' = burst)
    BY <1>2 DEF PruneInv, PrunesTypeInv
  <2>2. ASSUME NEW e, pruner[q].pc # "idle", Recent(e) PROVE Recent(e)'
    BY <2>1, <2>2 DEF Recent
  <2>3. ASSUME NEW e, Removes(q, e) PROVE Removes(q, e)'
    BY <2>1, <2>3 DEF Past, Removes, Ended
  <2> QED BY <2>1, <2>2, <2>3 DEF Reads
<1>3. Prunes!KeptForJob /\ Prunes!LatestStay
  BY PrunesLibrary, ToSetElements DEF Prunes!KeptForJob, Prunes!LatestStay, Elements
<1> QED BY <1>1, <1>2, <1>3 DEF PrunesKept, PruneInv

\* A prune that ends.
LEMMA Ends ==
  ASSUME PruneInv, Keep \in Nat, UNCHANGED <<jobs, measured, dirs, kept, lapsed>>, NEW p \in Pruners, Prunes!End(p)
  PROVE  PrunesKept
<1>1. Prunes!Idle \in PrunerType /\ Prunes!Idle.pc = "idle"
  BY DEF Prunes!Idle, PrunerType
<1>2. pruner' = [pruner EXCEPT ![p] = Prunes!Idle] /\ pruner'[p] = Prunes!Idle /\ \A q \in Pruners \ {p} : pruner'[q] = pruner[q]
  BY DEF Prunes!End, PruneInv, PrunesTypeInv
<1>3. burst' \in 0 .. Keep
  BY DEF Prunes!End, PruneInv, PrunesTypeInv
<1>4. (\E q \in Pruners \ {p} : pruner[q].pc # "idle") => burst' = burst
  BY <1>2 DEF Prunes!End, Prunes!Quiet
<1>5. Reads(p)'
  BY <1>1, <1>2 DEF Reads
<1> QED BY <1>1, <1>2, <1>3, <1>4, <1>5, PrunerMoves

LEMMA StatStep ==
  ASSUME PruneInv, Keep \in Nat, NEW p \in Pruners, Prunes!Stat(p) PROVE PrunesKept
<1>t. PrunesTypeInv /\ ListInv /\ Reads(p) /\ pruner[p] \in PrunerType
  BY DEF PruneInv, PrunesTypeInv
<1>1. CASE ~(pruner[p].names \subseteq ToSet(dirs))
  BY PrunesLibrary, <1>1, Ends DEF Prunes!Stat
<1>2. CASE pruner[p].names \subseteq ToSet(dirs)
  <2> DEFINE names == pruner[p].names
             I == {i \in DOMAIN dirs : dirs[i] \in names}
             found == Sub(dirs, I)
             entries == SubSeq(found, Keep + 1, Len(found))
             r == [pruner[p] EXCEPT !.pc = "remove", !.entries = entries]
  <2>1. found \in Seq(All) /\ Len(found) \in Nat
    BY <1>t, SubElements DEF PrunesTypeInv
  <2>2. entries \in Seq(All) /\ \A m \in DOMAIN entries : Keep + m \in DOMAIN found /\ entries[m] = found[Keep + m] /\ m > 0
    <3> HIDE DEF found
    <3> QED BY <2>1
  <2>3. ASSUME NEW e \in Elements(entries) PROVE Removes(p, e)
    <3>1. PICK m \in DOMAIN entries : e = entries[m]
      BY <2>3 DEF Elements
    <3>2. Keep + m \in DOMAIN found /\ e = found[Keep + m] /\ m \in Nat /\ m > 0
      <4> HIDE DEF found
      <4> QED BY <2>2, <3>1
    <3>3. PICK i \in I : e = dirs[i] /\ Keep + m <= i
      BY <1>t, <3>2, SubRanks DEF PrunesTypeInv
    <3>4. i > Keep /\ i \in Nat
      BY <1>t, <3>2, <3>3 DEF PrunesTypeInv
    <3>5. Past(e)
      BY <1>t, <3>3, <3>4 DEF Past, PrunesTypeInv, Distinct
    <3>6. e \in names /\ burst <= Keep
      BY <1>t, <3>3 DEF PrunesTypeInv
    <3>7. e \notin pruner[p].queued /\ e \in jobs \cup measured \cup lapsed /\ pruner[p].pc = "ages"
      BY <1>t, <3>3, <3>6 DEF Prunes!Stat, Reads, ListInv, Elements
    <3>8. ~Recent(e)
      BY <1>t, <3>3, <3>4, <3>6 DEF Recent, PrunesTypeInv
    <3> QED BY <1>t, <3>5, <3>7, <3>8 DEF Reads, Removes, Ended
  <2>4. r \in PrunerType /\ r.pc = "remove" /\ r.entries = entries /\ r.queued = pruner[p].queued
    <3> HIDE DEF entries
    <3> QED BY <1>t, <2>2 DEF PrunerType
  <2>5. pruner' = [pruner EXCEPT ![p] = r] /\ UNCHANGED <<jobs, measured, dirs, kept, burst, lapsed>>
    BY PrunesLibrary, <1>2 DEF Prunes!Stat, Prunes!Beyond, Prunes!Among
  <2> HIDE DEF r, entries
  <2>6. pruner'[p] = r
    BY <1>t, <2>5 DEF PrunesTypeInv
  <2>7. Reads(p)'
    <3>1. ASSUME NEW e \in Elements(entries) PROVE Removes(p, e)'
      BY <2>3, <2>4, <2>5, <2>6 DEF Past, Removes, Ended
    <3> QED BY <2>4, <2>6, <3>1 DEF Reads
  <2>8. burst' \in 0 .. Keep
    BY <1>t, <2>5 DEF PrunesTypeInv
  <2> QED BY <2>4, <2>5, <2>7, <2>8, PrunerMoves
<1> QED BY <1>1, <1>2

LEMMA RemoveStep ==
  ASSUME PruneInv, Keep \in Nat, NEW p \in Pruners, Prunes!RemoveNext(p) PROVE PrunesKept
<1>t. PrunesTypeInv /\ ListInv /\ Reads(p) /\ pruner[p] \in PrunerType /\ pruner[p].entries \in Seq(All)
  BY DEF PruneInv, PrunesTypeInv, PrunerType
<1>1. CASE pruner[p].entries = << >>
  BY <1>1, Ends DEF Prunes!RemoveNext
<1>2. CASE pruner[p].entries # << >>
  <2> DEFINE entries == pruner[p].entries
             d == Head(entries)
  <2>1. d = entries[1] /\ 1 \in DOMAIN entries /\ Tail(entries) \in Seq(All)
    BY <1>t, <1>2
  <2>2. Elements(Tail(entries)) \subseteq Elements(entries)
    BY <1>t, <1>2 DEF Elements
  <2>3. Removes(p, d) /\ pruner[p].pc = "remove"
    BY <1>t, <2>1 DEF Reads, Prunes!RemoveNext, Elements
  <2>4. dirs' = But(dirs, d) /\ kept' = kept \ {d} /\ UNCHANGED <<jobs, measured, burst, lapsed>>
        /\ pruner' = [pruner EXCEPT ![p].entries = Tail(@)]
    BY PrunesLibrary, <1>2 DEF Prunes!RemoveNext, Prunes!Without, But
  <2> HIDE DEF d
  <2>5. dirs' \in Seq(All) /\ Distinct(dirs') /\ Elements(dirs') = Elements(dirs) \ {d}
    BY <1>t, <2>4, WithoutKeeps DEF PrunesTypeInv
  <2>6. ASSUME NEW k \in DOMAIN dirs'
        PROVE  \E i \in DOMAIN dirs : dirs'[k] = dirs[i] /\ k <= i /\ (lapsed = {} /\ i > Keep => k > Keep)
    <3>1. PICK i \in DOMAIN dirs : /\ dirs'[k] = dirs[i] /\ dirs[i] # d /\ k \in {i, i - 1}
                                   /\ (\A j \in DOMAIN dirs : dirs[j] = d => i < j) => k = i
      BY <1>t, <2>4, OneLeaves DEF PrunesTypeInv
    <3>2. \A j \in DOMAIN dirs : j \in Nat
      BY <1>t DEF PrunesTypeInv
    <3>3. ASSUME lapsed = {}, i > Keep PROVE k > Keep
      <4>1. CASE k = i
        BY <3>3, <4>1
      <4>2. CASE k # i
        <5>1. PICK j \in DOMAIN dirs : dirs[j] = d /\ ~(i < j)
          BY <3>1, <4>2
        <5>2. j > Keep /\ j # i
          BY <2>3, <3>1, <3>3, <5>1 DEF Past, Removes
        <5> QED BY <3>1, <3>2, <4>2, <5>1, <5>2
      <4> QED BY <4>1, <4>2
    <3> QED BY <3>1, <3>2, <3>3
  <2>7. pruner' \in [Pruners -> PrunerType] /\ \A q \in Pruners :
          /\ pruner'[q].pc = pruner[q].pc /\ pruner'[q].queued = pruner[q].queued /\ pruner'[q].names = pruner[q].names
          /\ Elements(pruner'[q].entries) \subseteq Elements(pruner[q].entries)
    <3> DEFINE r == [pruner[p] EXCEPT !.entries = Tail(@)]
    <3>1. r \in PrunerType /\ r.pc = pruner[p].pc /\ r.queued = pruner[p].queued /\ r.names = pruner[p].names
          /\ r.entries = Tail(entries)
      BY <1>t, <2>1 DEF PrunerType
    <3>2. pruner' = [pruner EXCEPT ![p] = r]
      BY <2>4
    <3> HIDE DEF r
    <3> QED BY <1>t, <2>2, <3>1, <3>2 DEF PrunesTypeInv
  <2>8. PrunesTypeInv' /\ ListInv'
    BY <1>t, <2>3, <2>4, <2>5, <2>7 DEF PrunesTypeInv, ListInv
  <2>9. ASSUME NEW q \in Pruners PROVE Reads(q)'
    <3>1. Reads(q) /\ \A i \in DOMAIN dirs : i \in Nat
      BY <1>t DEF PruneInv, PrunesTypeInv
    <3>2. ASSUME NEW e, Recent(e) PROVE Recent(e)'
      <4>1. ASSUME NEW k \in DOMAIN dirs', dirs'[k] = e PROVE k <= burst
        <5>1. PICK i \in DOMAIN dirs : dirs'[k] = dirs[i] /\ k <= i
          BY <2>6, <4>1
        <5>2. i <= burst
          BY <3>2, <4>1, <5>1 DEF Recent
        <5>3. k \in Nat /\ burst \in Nat
          BY <1>t, <2>5 DEF PrunesTypeInv
        <5> QED BY <3>1, <5>1, <5>2, <5>3
      <4> QED BY <2>4, <4>1 DEF Recent
    <3>3. ASSUME NEW e, Removes(q, e) PROVE Removes(q, e)'
      <4>1. ASSUME lapsed = {}, NEW k \in DOMAIN dirs', dirs'[k] = e PROVE k > Keep
        <5>1. PICK i \in DOMAIN dirs : dirs'[k] = dirs[i] /\ (i > Keep => k > Keep)
          BY <2>6, <4>1
        <5> QED BY <3>3, <4>1, <5>1 DEF Past, Removes
      <4> QED BY <2>4, <2>7, <3>3, <4>1 DEF Past, Removes, Ended
    <3> QED BY <2>4, <2>7, <3>1, <3>2, <3>3 DEF Reads
  <2>10. Prunes!KeptForJob
    BY <1>t, <2>3, <2>4 DEF Prunes!KeptForJob, ListInv, Removes, Ended
  <2>11. Prunes!LatestStay
    <3>1. ASSUME lapsed = {}, NEW i \in DOMAIN dirs, dirs[i] \notin Elements(dirs') PROVE i > Keep
      BY <2>3, <2>5, <3>1 DEF Elements, Past, Removes
    <3> QED BY PrunesLibrary, <3>1, ToSetElements DEF Prunes!LatestStay
  <2> QED BY <2>8, <2>9, <2>10, <2>11 DEF PrunesKept, PruneInv
<1> QED BY <1>1, <1>2

LEMMA PruneStep ==
  ASSUME Prunes!WorkPruneAssumption, PruneInv, [Prunes!Next]_Prunes!vars PROVE PrunesKept
<1>t. PrunesTypeInv /\ ListInv /\ Keep \in Nat
  BY DEF PruneInv, Prunes!WorkPruneAssumption
<1>1. CASE UNCHANGED Prunes!vars
  BY <1>1, <1>t, PrunesQueueMoves DEF Prunes!vars, PrunesTypeInv, ListInv
<1>2. ASSUME NEW c \in Measurable, Prunes!Admit(c) PROVE PrunesKept
  BY <1>2, <1>t, PrunesQueueMoves DEF Prunes!Admit, PrunesTypeInv, ListInv
<1>3. ASSUME NEW c \in Measurable, Prunes!KeepNative(c) PROVE PrunesKept
  BY <1>3, <1>t, Touched DEF Prunes!KeepNative
<1>4. ASSUME NEW c \in Measurable, Prunes!Prepare(c) PROVE PrunesKept
  <2>1. c \notin measured /\ jobs' = jobs \cup {c}
    BY <1>4, <1>t DEF Prunes!Prepare, ListInv
  <2> QED BY <1>4, <1>t, <2>1, Touched DEF Prunes!Prepare
<1>5. ASSUME NEW c \in Measurable, Prunes!Measure(c) PROVE PrunesKept
  <2>1. c \notin measured /\ jobs' = jobs \cup {c}
    BY <1>5, <1>t DEF Prunes!Measure, ListInv
  <2> QED BY <1>5, <1>t, <2>1, Touched DEF Prunes!Measure
<1>6. ASSUME NEW c \in Measurable, Prunes!Drop(c) PROVE PrunesKept
  BY <1>6, <1>t, PrunesLibrary, ToSetElements, PrunesQueueMoves DEF Prunes!Drop, PrunesTypeInv, ListInv
<1>7. ASSUME NEW c \in Measurable, Prunes!Done(c) PROVE PrunesKept
  BY <1>7, <1>t, PrunesQueueMoves DEF Prunes!Done, PrunesTypeInv, ListInv, All
<1>8. ASSUME NEW p \in Pruners, Prunes!WorkerPrunes(p) \/ \E c \in Measurable : Prunes!Settle(p, c) PROVE PrunesKept
  <2> DEFINE r == [pruner[p] EXCEPT !.pc = "queue"]
  <2>1. pruner[p] \in PrunerType /\ r \in PrunerType /\ r.pc = "queue"
    BY <1>t DEF PrunesTypeInv, PrunerType
  <2>2. pruner' = [pruner EXCEPT ![p] = r]
    BY <1>8 DEF Prunes!WorkerPrunes, Prunes!Settle
  <2> HIDE DEF r
  <2>3. pruner' \in [Pruners -> PrunerType] /\ \A q \in Pruners : pruner'[q] = pruner[q] \/ pruner'[q].pc = "queue"
    BY <1>t, <2>1, <2>2 DEF PrunesTypeInv
  <2>4. CASE Prunes!WorkerPrunes(p)
    BY <1>t, <2>3, <2>4, PrunesQueueMoves DEF Prunes!WorkerPrunes, PrunesTypeInv, ListInv
  <2>5. ASSUME NEW c \in Measurable, Prunes!Settle(p, c) PROVE PrunesKept
    BY <1>t, <2>3, <2>5, PrunesQueueMoves DEF Prunes!Settle, PrunesTypeInv, ListInv, All
  <2> QED BY <1>8, <2>4, <2>5
<1>9. ASSUME NEW p \in Pruners, Prunes!ReadQueue(p) PROVE PrunesKept
  <2> DEFINE r == [pruner[p] EXCEPT !.pc = "names", !.queued = Prunes!Listed]
  <2>1. pruner[p] \in PrunerType /\ r \in PrunerType /\ r.pc = "names" /\ r.queued = jobs
    BY <1>t DEF PrunesTypeInv, PrunerType, Prunes!Listed
  <2>2. pruner' = [pruner EXCEPT ![p] = r] /\ UNCHANGED <<jobs, measured, dirs, kept, burst, lapsed>>
    BY <1>9 DEF Prunes!ReadQueue
  <2> HIDE DEF r
  <2>3. Reads(p)'
    BY <1>t, <2>1, <2>2 DEF Reads, PrunesTypeInv
  <2> QED BY <1>t, <2>1, <2>2, <2>3, PrunerMoves DEF PrunesTypeInv
<1>10. ASSUME NEW p \in Pruners, Prunes!ReadDir(p) PROVE PrunesKept
  <2> DEFINE r == [pruner[p] EXCEPT !.pc = "ages", !.names = ToSet(dirs) \ pruner[p].queued]
  <2>1. ToSet(dirs) \subseteq All
    BY <1>t, ElementsTyped, ToSetElements DEF PrunesTypeInv
  <2>2. pruner[p] \in PrunerType /\ r \in PrunerType /\ r.pc = "ages" /\ r.queued = pruner[p].queued
        /\ r.names = ToSet(dirs) \ pruner[p].queued
    BY <1>t, <2>1 DEF PrunesTypeInv, PrunerType
  <2>3. pruner' = [pruner EXCEPT ![p] = r] /\ UNCHANGED <<jobs, measured, dirs, kept, burst, lapsed>>
    BY PrunesLibrary, <1>10 DEF Prunes!ReadDir
  <2> HIDE DEF r
  <2>4. pruner'[p] = r /\ Reads(p) /\ pruner[p].pc = "names"
    BY <1>10, <1>t, <2>3 DEF PrunesTypeInv, PruneInv, Prunes!ReadDir
  <2>5. ASSUME NEW e \in jobs \ pruner[p].queued PROVE e \in lapsed \/ Recent(e)'
    BY <2>3, <2>4, <2>5 DEF Reads, Recent
  <2>6. Reads(p)'
    BY <2>2, <2>3, <2>4, <2>5 DEF Reads
  <2> QED BY <1>t, <2>2, <2>3, <2>6, PrunerMoves DEF PrunesTypeInv
<1>11. ASSUME NEW p \in Pruners, Prunes!Stat(p) PROVE PrunesKept
  BY <1>11, <1>t, StatStep
<1>12. ASSUME NEW p \in Pruners, Prunes!RemoveNext(p) PROVE PrunesKept
  BY <1>12, <1>t, RemoveStep
<1> QED
  BY <1>1, <1>2, <1>3, <1>4, <1>5, <1>6, <1>7, <1>8, <1>9, <1>10, <1>11, <1>12 DEF Prunes!Next

-----------------------------------------------------------------------------
(* The theorems *)

\* A directory is listed once, and what is kept is in one.
THEOREM PrunesTypeCorrect == ASSUME Prunes!WorkPruneAssumption PROVE Prunes!Spec => []Prunes!TypeOK
<1>1. Prunes!Init => PruneInv
  BY Initially
<1>2. PruneInv /\ [Prunes!Next]_Prunes!vars => PruneInv'
  BY PruneStep DEF PrunesKept
<1>3. PruneInv => Prunes!TypeOK
  BY PrunesLibrary, DistinctCounts, ToSetElements DEF PruneInv, PrunesTypeInv, Prunes!TypeOK, All
<1> QED BY <1>1, <1>2, <1>3, PTL DEF Prunes!Spec

\* Whatever hooks, the worker and other prunes do between the steps of a prune, and
\* also where failed jobs leave the list: it removes the measurement kept for a job
\* only of a change dropped before with its directory left, which was not listed when
\* the prune read the queue; and while no change was dropped so, it removes none of
\* the Keep latest directories (pruneWork, updateJob).
THEOREM PrunesSpareJobs ==
  ASSUME Prunes!WorkPruneAssumption PROVE Prunes!Spec => [][Prunes!KeptForJob /\ Prunes!LatestStay]_Prunes!vars
<1>1. Prunes!Init => PruneInv
  BY Initially
<1>2. PruneInv /\ [Prunes!Next]_Prunes!vars => PruneInv' /\ Prunes!KeptForJob /\ Prunes!LatestStay
  BY PruneStep DEF PrunesKept
<1> QED BY <1>1, <1>2, PTL DEF Prunes!Spec

-----------------------------------------------------------------------------
(* The Codex bridge, for any edits: however late it reads what Codex wrote,   *)
(* and wherever native hooks come in, no work of the agent is in the tree its *)
(* change starts from, and all of it is in a completed change, where native   *)
(* hooks do not fail.                                                         *)

-----------------------------------------------------------------------------
(* Types *)

Steps == {"baseline", "spawn", "failed", "read", "start", "begin", "replace", "prompt", "submit",
          "event", "record", "exit", "final", "stop", "done"}
BridgeType == [at : Steps, then : {"read", "event", "final"}, id : Bridge!Ids \cup {"none"}, started : BOOLEAN]
ForASession == {"start", "begin", "replace", "prompt", "submit", "event", "record", "final", "stop"}
BridgeTypeInv ==
  /\ edited \in SUBSET Bridge!Edits /\ before \in SUBSET Bridge!Edits /\ hooked \in BOOLEAN /\ exit \in BOOLEAN
  /\ codex \in Bridge!CodexStates /\ pipe \in Seq(Bridge!Lines) /\ records \in [Bridge!Ids -> Bridge!Session \cup {Missing}]
  /\ bridge \in BridgeType
  /\ bridge.at \in ForASession => bridge.id \in Bridge!Ids
  /\ bridge.at = "replace" => records[bridge.id] # Missing

-----------------------------------------------------------------------------
(* Steps *)

\* What one lifecycle event makes of a session.
Made(r, o, source, event) ==
  /\ r \in Bridge!Session /\ r.source = source
  /\ o # Missing /\ o.baseline # Missing => r.baseline = o.baseline
  /\ event \in {"SessionStart", "UserPromptSubmit"} /\ (o = Missing \/ o.baseline = Missing) => r.baseline = edited
  /\ event # "Stop" => r.change = IF o = Missing THEN Missing ELSE o.change
  /\ event = "Stop" /\ o # Missing /\ o.baseline # Missing =>
       r.change # Missing /\ r.change.base = o.baseline /\ r.change.candidate = edited
Sets(id, r) == records' = [records EXCEPT ![id] = r]

\* Missing is no record.
LEMMA MissingIsOther ==
  Bridge!CodexBridgeAssumption => Missing \notin SUBSET Bridge!Edits /\ Missing \notin Bridge!Change /\ Missing \notin Bridge!Session
  BY Zenon DEF Bridge!CodexBridgeAssumption

LEMMA Lives ==
  ASSUME Bridge!CodexBridgeAssumption, BridgeTypeInv, NEW id \in Bridge!Ids, NEW source \in {"codex", "bridge"}, NEW event \in Bridge!NativeEvents,
         Bridge!Lifecycle(id, source, event)
  PROVE  \E r : Made(r, records[id], source, event) /\ Sets(id, r)
<1> DEFINE o == records[id]
           n == [Bridge!Ensured(id, source) EXCEPT !.source = source]
           b == Bridge!Baselined(n)
           c == Bridge!Completed(n)
           r == CASE event \in {"SessionStart", "UserPromptSubmit"} -> b [] event = "Stop" -> c [] OTHER -> n
<1>1. records' = [records EXCEPT ![id] = r]
  BY DEF Bridge!Lifecycle
<1>2. o \in Bridge!Session \cup {Missing} /\ edited \in SUBSET Bridge!Edits
  BY DEF BridgeTypeInv
<1>3. /\ n \in Bridge!Session /\ n.source = source
      /\ n.baseline = (IF o = Missing THEN Missing ELSE o.baseline)
      /\ n.change = (IF o = Missing THEN Missing ELSE o.change)
  <2> DEFINE e == Bridge!Ensured(id, source)
  <2>1. /\ e \in Bridge!Session /\ e.baseline = (IF o = Missing THEN Missing ELSE o.baseline)
        /\ e.change = (IF o = Missing THEN Missing ELSE o.change)
    BY <1>2 DEF Bridge!Ensured, Bridge!Session
  <2> HIDE DEF e
  <2>2. n = [e EXCEPT !.source = source]
    BY DEF e
  <2> QED BY <2>1, <2>2 DEF Bridge!Session
<1> HIDE DEF n
<1>4. /\ b \in Bridge!Session /\ b.source = source /\ b.change = n.change
      /\ b.baseline = (IF n.baseline = Missing THEN edited ELSE n.baseline)
  BY <1>2, <1>3 DEF Bridge!Baselined, Bridge!Session
<1>5. /\ c \in Bridge!Session /\ c.source = source /\ c.baseline = n.baseline
      /\ n.baseline # Missing => c.change # Missing /\ c.change.base = n.baseline /\ c.change.candidate = edited
  <2> DEFINE ch == IF n.baseline = Missing THEN Missing ELSE [base |-> n.baseline, candidate |-> edited]
  <2>1. ASSUME n.baseline # Missing
        PROVE  ch \in Bridge!Change /\ ch.base = n.baseline /\ ch.candidate = edited
    <3>1. n.baseline \in SUBSET Bridge!Edits
      BY <1>3, <2>1 DEF Bridge!Session
    <3> QED BY <1>2, <2>1, <3>1 DEF Bridge!Change
  <2>2. ch \in Bridge!Change \cup {Missing} /\ (n.baseline # Missing => ch # Missing)
    BY MissingIsOther, <2>1
  <2>3. c = [n EXCEPT !.change = ch]
    BY DEF Bridge!Completed
  <2> HIDE DEF ch, c
  <2>4. c \in Bridge!Session /\ c.source = source /\ c.baseline = n.baseline /\ c.change = ch
    BY <1>3, <2>2, <2>3 DEF Bridge!Session
  <2> QED BY <2>1, <2>2, <2>4
<1> HIDE DEF b, c
<1>6. Made(r, o, source, event)
  BY <1>2, <1>3, <1>4, <1>5 DEF Made, Bridge!NativeEvents
<1> QED BY <1>1, <1>6 DEF Sets

\* What the bridge makes of itself.
To(b, place) == bridge' = b /\ b \in BridgeType /\ b.at = place
BridgeSame(b) == b.then = bridge.then /\ b.id = bridge.id

LEMMA Goes ==
  ASSUME BridgeTypeInv, NEW step \in Steps, Bridge!Go(step)
  PROVE  To(bridge', step) /\ BridgeSame(bridge') /\ bridge'.started = bridge.started
<1> DEFINE b == [bridge EXCEPT !.at = step]
<1>1. b \in BridgeType /\ b.at = step /\ b.then = bridge.then /\ b.id = bridge.id /\ b.started = bridge.started
  BY DEF BridgeTypeInv, BridgeType
<1>2. bridge' = b
  BY DEF Bridge!Go
<1> QED BY <1>1, <1>2 DEF To, BridgeSame

LEMMA Ensures ==
  ASSUME BridgeTypeInv, NEW id \in Bridge!Ids, NEW after \in {"read", "event", "final"}, Bridge!Ensure(id, after)
  PROVE  /\ To(bridge', IF bridge.started THEN after ELSE "start")
         /\ bridge'.then = after /\ bridge'.id = id /\ bridge'.started = bridge.started
<1> DEFINE place == IF bridge.started THEN after ELSE "start"
           b == [bridge EXCEPT !.at = place, !.then = after, !.id = id]
<1>0. place \in Steps
  BY DEF Steps
<1>1. bridge' = b
  BY DEF Bridge!Ensure
<1> HIDE DEF place
<1>2. b \in BridgeType /\ b.at = place /\ b.then = after /\ b.id = id /\ b.started = bridge.started
  BY <1>0 DEF BridgeTypeInv, BridgeType
<1> QED BY <1>1, <1>2 DEF To, place

LEMMA Starts ==
  ASSUME BridgeTypeInv, Bridge!Started
  PROVE  To(bridge', bridge.then) /\ BridgeSame(bridge') /\ bridge'.started
<1> DEFINE b == [bridge EXCEPT !.at = bridge.then, !.started = TRUE]
<1>1. bridge' = b
  BY DEF Bridge!Started
<1>2. bridge.then \in Steps
  BY DEF BridgeTypeInv, BridgeType, Steps
<1>3. b \in BridgeType /\ b.at = bridge.then /\ b.then = bridge.then /\ b.id = bridge.id /\ b.started = TRUE
  BY <1>2 DEF BridgeTypeInv, BridgeType
<1> QED BY <1>1, <1>3 DEF To, BridgeSame

LEMMA BridgeStepCases ==
  ASSUME [Bridge!Next]_Bridge!vars
  PROVE  \/ UNCHANGED Bridge!vars \/ Bridge!Capture \/ Bridge!Spawn \/ Bridge!SpawnFails \/ Bridge!Read \/ Bridge!EndOfLines \/ Bridge!Known \/ Bridge!Unknown
         \/ Bridge!Begin \/ Bridge!Replace \/ Bridge!Prompt \/ Bridge!Submit \/ Bridge!Event \/ Bridge!Record \/ Bridge!Exit \/ Bridge!Final \/ Bridge!Stop
         \/ Bridge!Announce \/ Bridge!Native \/ Bridge!NativeFails \/ Bridge!Finish \/ Bridge!Die
         \/ (\E e \in Own : Bridge!Work(e)) \/ \E e \in Others : Bridge!Edit(e)
BY DEF Bridge!Next, Bridge!Bridge, Bridge!Codex

\* Lines come at the end.
LEMMA LineAdded ==
  ASSUME BridgeTypeInv, NEW line \in Bridge!Lines, NEW q, q = Append(pipe, line)
  PROVE  /\ q \in Seq(Bridge!Lines) /\ q # <<>> /\ Len(pipe) \in Nat /\ Len(q) = Len(pipe) + 1
         /\ \A i \in DOMAIN q : \/ i = Len(pipe) + 1 /\ q[i] = line
                                \/ i \in DOMAIN pipe /\ q[i] = pipe[i]
<1>1. pipe \in Seq(Bridge!Lines)
  BY DEF BridgeTypeInv
<1>2. /\ q \in Seq(Bridge!Lines) /\ Len(pipe) \in Nat /\ Len(q) = Len(pipe) + 1 /\ q[Len(pipe) + 1] = line
      /\ \A i \in 1 .. Len(pipe) : q[i] = pipe[i]
  BY <1>1
<1>3. DOMAIN q = 1 .. Len(pipe) + 1 /\ DOMAIN pipe = 1 .. Len(pipe)
  BY <1>1, <1>2
<1> QED BY <1>2, <1>3

\* The session a bridge step sets, the others stay.
LEMMA Set ==
  ASSUME BridgeTypeInv, NEW id \in Bridge!Ids, NEW r, Sets(id, r)
  PROVE  records'[id] = r /\ \A i \in Bridge!Ids : i # id => records'[i] = records[i]
  BY DEF BridgeTypeInv, Sets

LEMMA BridgeTypeStep == ASSUME Bridge!CodexBridgeAssumption, BridgeTypeInv, [Bridge!Next]_Bridge!vars PROVE BridgeTypeInv'
<1>t. /\ edited \in SUBSET Bridge!Edits /\ before \in SUBSET Bridge!Edits /\ codex \in Bridge!CodexStates /\ pipe \in Seq(Bridge!Lines)
      /\ records \in [Bridge!Ids -> Bridge!Session \cup {Missing}] /\ bridge \in BridgeType
  BY DEF BridgeTypeInv
<1>1. ASSUME Bridge!BridgeOnly, NEW place \in Steps, To(bridge', place), place # "replace",
             place \in ForASession => bridge'.id \in Bridge!Ids
      PROVE  BridgeTypeInv'
  BY <1>1 DEF Bridge!BridgeOnly, To, BridgeTypeInv
<1>go. ASSUME Bridge!BridgeOnly, NEW place \in Steps \ {"replace"}, Bridge!Go(place), place \in ForASession => bridge.at \in ForASession
       PROVE  BridgeTypeInv'
  <2>1. To(bridge', place) /\ bridge'.id = bridge.id
    BY <1>go, Goes DEF BridgeSame
  <2> QED BY <1>1, <1>go, <2>1 DEF BridgeTypeInv
<1>2. ASSUME NEW id \in Bridge!Ids, NEW source \in {"codex", "bridge"}, NEW event \in Bridge!NativeEvents,
             Bridge!Lifecycle(id, source, event)
      PROVE  records' \in [Bridge!Ids -> Bridge!Session \cup {Missing}] /\ records'[id] # Missing
             /\ \A i \in Bridge!Ids : records[i] # Missing => records'[i] # Missing
  <2>1. PICK r : Made(r, records[id], source, event) /\ Sets(id, r)
    BY <1>2, Lives
  <2>2. r \in Bridge!Session /\ r # Missing
    BY MissingIsOther, <2>1 DEF Made
  <2> QED BY <1>t, <2>1, <2>2 DEF Sets
<1>3. CASE UNCHANGED Bridge!vars
  BY <1>3 DEF Bridge!vars, BridgeTypeInv
<1>4. CASE Bridge!Capture
  <2>1. To(bridge', "spawn")
    BY <1>4, Goes DEF Bridge!Capture, Steps
  <2> QED BY <1>4, <2>1 DEF Bridge!Capture, BridgeTypeInv, To, ForASession
<1>5. CASE Bridge!Spawn
  <2>1. To(bridge', "read")
    BY <1>5, Goes DEF Bridge!Spawn, Steps
  <2> QED BY <1>5, <2>1 DEF Bridge!Spawn, BridgeTypeInv, To, ForASession, Bridge!CodexStates
<1>6. CASE Bridge!SpawnFails
  BY <1>6, <1>go DEF Bridge!SpawnFails, Steps, ForASession
<1>7. CASE Bridge!Read
  <2>1. pipe' \in Seq(Bridge!Lines) /\ UNCHANGED <<edited, records, hooked, codex, exit, before>> /\ bridge.at = "read"
    BY <1>t, <1>7 DEF Bridge!Read, Bridge!At
  <2>2. ASSUME NEW id \in Bridge!Ids, NEW after \in {"read", "event", "final"}, Bridge!Ensure(id, after)
        PROVE  BridgeTypeInv'
    <3>1. To(bridge', IF bridge.started THEN after ELSE "start") /\ bridge'.id = id
      BY <2>2, Ensures
    <3> QED BY <2>1, <3>1 DEF BridgeTypeInv, To
  <2>3. CASE UNCHANGED bridge
    BY <2>1, <2>3 DEF BridgeTypeInv
  <2>4. Bridge!ActiveId(bridge.id) \in Bridge!Ids /\ {"thread", "fallback"} \subseteq Bridge!Ids
    BY <1>t DEF Bridge!ActiveId, Bridge!Ids, BridgeType
  <2>5. Head(pipe) \in Bridge!Lines
    BY <1>t, <1>7 DEF Bridge!Read
  <2> QED BY <1>7, <2>2, <2>3, <2>4, <2>5 DEF Bridge!Read, Bridge!Lines
<1>8. CASE Bridge!EndOfLines
  BY <1>8, <1>go DEF Bridge!EndOfLines, Steps, ForASession
<1>9. CASE Bridge!Known
  BY <1>9, <1>go DEF Bridge!Known, Steps, ForASession, Bridge!At
<1>10. CASE Bridge!Unknown
  BY <1>10, <1>go DEF Bridge!Unknown, Steps, ForASession, Bridge!At
<1>11. CASE Bridge!Begin
  <2>1. bridge.id \in Bridge!Ids
    BY <1>11 DEF Bridge!Begin, Bridge!At, BridgeTypeInv, ForASession
  <2>2. records' \in [Bridge!Ids -> Bridge!Session \cup {Missing}] /\ records'[bridge.id] # Missing
    BY <1>2, <1>11, <2>1 DEF Bridge!Begin, Bridge!NativeEvents
  <2>3. To(bridge', "replace") /\ bridge'.id = bridge.id
    BY <1>11, Goes DEF Bridge!Begin, Steps, BridgeSame
  <2> QED BY <1>11, <2>1, <2>2, <2>3 DEF Bridge!Begin, Bridge!SessionOnly, BridgeTypeInv, To
<1>12. CASE Bridge!Replace
  <2>1. bridge.id \in Bridge!Ids /\ records[bridge.id] # Missing
    BY <1>12 DEF Bridge!Replace, Bridge!At, BridgeTypeInv, ForASession
  <2>2. records[bridge.id] \in Bridge!Session
    BY <1>t, <2>1
  <2>3. Bridge!Replaced(records[bridge.id]) \in Bridge!Session
    BY <1>t, <2>2 DEF Bridge!Replaced, Bridge!Session
  <2>4. records' \in [Bridge!Ids -> Bridge!Session \cup {Missing}]
    BY <1>t, <1>12, <2>3 DEF Bridge!Replace
  <2>5. To(bridge', "prompt") /\ bridge'.id = bridge.id
    BY <1>12, Goes DEF Bridge!Replace, Steps, BridgeSame
  <2> QED BY <1>12, <2>1, <2>4, <2>5 DEF Bridge!Replace, Bridge!SessionOnly, BridgeTypeInv, To
<1>13. CASE Bridge!Prompt
  <2>1. bridge.id \in Bridge!Ids /\ Bridge!BridgeOnly
    BY <1>13 DEF Bridge!Prompt, Bridge!At, BridgeTypeInv, ForASession
  <2>2. CASE Bridge!Started
    <3>1. To(bridge', bridge.then) /\ bridge'.id = bridge.id
      BY <2>2, Starts DEF BridgeSame
    <3> QED BY <1>1, <1>t, <2>1, <3>1 DEF BridgeType, Steps
  <2>3. CASE Bridge!Go("submit")
    BY <1>13, <1>go, <2>1, <2>3 DEF Bridge!Prompt, Bridge!At, Steps, ForASession
  <2> QED BY <1>13, <2>2, <2>3 DEF Bridge!Prompt
<1>14. CASE Bridge!Submit
  <2>1. bridge.id \in Bridge!Ids
    BY <1>14 DEF Bridge!Submit, Bridge!At, BridgeTypeInv, ForASession
  <2>2. records' \in [Bridge!Ids -> Bridge!Session \cup {Missing}]
    BY <1>2, <1>14, <2>1 DEF Bridge!Submit, Bridge!NativeEvents
  <2>3. To(bridge', bridge.then) /\ bridge'.id = bridge.id
    BY <1>14, Starts DEF Bridge!Submit, BridgeSame
  <2>4. bridge.then # "replace"
    BY <1>t DEF BridgeType
  <2> QED BY <1>14, <2>1, <2>2, <2>3, <2>4 DEF Bridge!Submit, Bridge!SessionOnly, BridgeTypeInv, To
<1>15. CASE Bridge!Event
  BY <1>15, <1>go DEF Bridge!Event, Steps, ForASession, Bridge!At
<1>16. CASE Bridge!Record
  <2>1. bridge.id \in Bridge!Ids
    BY <1>16 DEF Bridge!Record, Bridge!At, BridgeTypeInv, ForASession
  <2>2. records' \in [Bridge!Ids -> Bridge!Session \cup {Missing}]
    BY <1>2, <1>16, <2>1 DEF Bridge!Record, Bridge!NativeEvents
  <2>3. To(bridge', "read")
    BY <1>16, Goes DEF Bridge!Record, Steps
  <2> QED BY <1>16, <2>2, <2>3 DEF Bridge!Record, Bridge!SessionOnly, BridgeTypeInv, To, ForASession
<1>17. CASE Bridge!Exit
  <2>1. Bridge!ActiveId(bridge.id) \in Bridge!Ids /\ Bridge!BridgeOnly
    BY <1>t, <1>17 DEF Bridge!ActiveId, Bridge!Ids, BridgeType, Bridge!Exit
  <2>2. To(bridge', IF bridge.started THEN "final" ELSE "start") /\ bridge'.id \in Bridge!Ids
    BY <1>17, <2>1, Ensures DEF Bridge!Exit
  <2> QED BY <1>1, <2>1, <2>2 DEF Steps
<1>18. CASE Bridge!Final
  BY <1>18, <1>go DEF Bridge!Final, Steps, ForASession, Bridge!At
<1>19. CASE Bridge!Stop
  <2>1. bridge.id \in Bridge!Ids
    BY <1>19 DEF Bridge!Stop, Bridge!At, BridgeTypeInv, ForASession
  <2>2. records' \in [Bridge!Ids -> Bridge!Session \cup {Missing}]
    BY <1>2, <1>19, <2>1 DEF Bridge!Stop, Bridge!NativeEvents
  <2>3. To(bridge', "done")
    BY <1>19, Goes DEF Bridge!Stop, Steps
  <2> QED BY <1>19, <2>2, <2>3 DEF Bridge!Stop, Bridge!SessionOnly, BridgeTypeInv, To, ForASession
<1>ends. ASSUME NEW event, Bridge!Ends(event) PROVE exit' \in BOOLEAN
  BY <1>ends DEF Bridge!Ends, BridgeTypeInv
<1>20. CASE Bridge!Announce
  <2>1. PICK line \in {"thread", "noid", "noise"} : pipe' = Append(pipe, line)
    BY <1>20 DEF Bridge!Announce
  <2>2. pipe' \in Seq(Bridge!Lines)
    BY <1>t, <2>1 DEF Bridge!Lines
  <2> QED BY <1>20, <2>2 DEF Bridge!Announce, Bridge!CodexIs, BridgeTypeInv, Bridge!CodexStates, Bridge!NativeEvents
<1>21. ASSUME Bridge!CodexIs(Bridge!AfterNative(codex)), Bridge!Ends(codex), codex \in Bridge!NativeEvents, UNCHANGED pipe,
              records' \in [Bridge!Ids -> Bridge!Session \cup {Missing}],
              \A i \in Bridge!Ids : records[i] # Missing => records'[i] # Missing
       PROVE  BridgeTypeInv'
  <2>1. Bridge!AfterNative(codex) \in Bridge!CodexStates
    BY DEF Bridge!AfterNative, Bridge!CodexStates, Bridge!NativeEvents
  <2>2. bridge.at = "replace" => bridge.id \in Bridge!Ids
    BY DEF BridgeTypeInv, ForASession
  <2> QED BY <1>21, <1>ends, <2>1, <2>2 DEF Bridge!CodexIs, BridgeTypeInv
<1>22. CASE Bridge!Native
  <2>1. CASE hooked
    <3>1. Bridge!Lifecycle("thread", "codex", codex) /\ codex \in Bridge!NativeEvents
      BY <1>22, <2>1 DEF Bridge!Native
    <3>2. /\ records' \in [Bridge!Ids -> Bridge!Session \cup {Missing}]
          /\ \A i \in Bridge!Ids : records[i] # Missing => records'[i] # Missing
      BY <1>2, <3>1 DEF Bridge!Ids
    <3> QED BY <1>21, <1>22, <3>2 DEF Bridge!Native
  <2>2. CASE ~hooked
    BY <1>t, <1>21, <1>22, <2>2 DEF Bridge!Native
  <2> QED BY <2>1, <2>2
<1>23. CASE Bridge!NativeFails
  BY <1>t, <1>21, <1>23 DEF Bridge!NativeFails
<1>24. CASE Bridge!Finish
  <2>1. PICK more \in {<<>>, <<"failed">>} : pipe' = pipe \o more
    BY <1>24 DEF Bridge!Finish
  <2>2. more \in Seq(Bridge!Lines)
    <3>1. CASE more = <<>>
      BY <3>1
    <3>2. CASE more = <<"failed">>
      BY <3>2 DEF Bridge!Lines
    <3> QED BY <2>1, <3>1, <3>2
  <2>3. pipe' \in Seq(Bridge!Lines)
    BY <1>t, <2>1, <2>2
  <2> QED BY <1>24, <2>3 DEF Bridge!Finish, Bridge!CodexIs, BridgeTypeInv, Bridge!CodexStates, Bridge!NativeEvents
<1>25. CASE Bridge!Die
  BY <1>25, <1>ends DEF Bridge!Die, Bridge!CodexIs, BridgeTypeInv, Bridge!CodexStates
<1>26. ASSUME NEW e \in Own, Bridge!Work(e) PROVE BridgeTypeInv'
  <2>1. pipe' \in Seq(Bridge!Lines) /\ edited' \in SUBSET Bridge!Edits
    BY <1>t, <1>26 DEF Bridge!Work, Bridge!Lines, Bridge!Edits
  <2> QED BY <1>26, <2>1 DEF Bridge!Work, BridgeTypeInv, Bridge!CodexStates, Bridge!NativeEvents
<1>27. ASSUME NEW e \in Others, Bridge!Edit(e) PROVE BridgeTypeInv'
  <2>1. edited' \in SUBSET Bridge!Edits
    BY <1>t, <1>27 DEF Bridge!Edit, Bridge!Edits
  <2> QED BY <1>27, <2>1 DEF Bridge!Edit, BridgeTypeInv
<1> QED BY <1>3, <1>4, <1>5, <1>6, <1>7, <1>8, <1>9, <1>10, <1>11, <1>12, <1>13, <1>14, <1>15,
           <1>16, <1>17, <1>18, <1>19, <1>20, <1>22, <1>23, <1>24, <1>25, <1>26, <1>27, BridgeStepCases

LEMMA TypeInit == ASSUME Bridge!CodexBridgeAssumption, Bridge!Init PROVE BridgeTypeInv
<1>1. bridge \in BridgeType /\ bridge.at = "baseline"
  BY DEF Bridge!Init, BridgeType, Steps
<1>2. records \in [Bridge!Ids -> Bridge!Session \cup {Missing}] /\ pipe \in Seq(Bridge!Lines)
  BY DEF Bridge!Init
<1> QED BY <1>1, <1>2 DEF Bridge!Init, BridgeTypeInv, ForASession, Bridge!CodexStates
-----------------------------------------------------------------------------
(* The flow: the announcement is the first line, and the bridge knows of a    *)
(* session from then on                                                       *)

Later == {"item", "failed"}
LinesFor(id, q) == \A i \in DOMAIN q : i > 1 \/ id # "none" => q[i] \in Later
Flow ==
  /\ codex \in {"unborn", "announce"} => pipe = <<>> /\ bridge.id = "none"
  /\ codex = "unborn" <=> bridge.at \in {"baseline", "spawn", "failed"}
  /\ LinesFor(bridge.id, pipe)
  /\ bridge.started => bridge.id # "none"
  /\ bridge.at \in {"event", "record", "final", "stop"} => bridge.started
  /\ bridge.at \in {"exit", "final", "stop", "done"} \/ bridge.then = "final" => codex = "gone" /\ pipe = <<>>

LEMMA LineRead ==
  ASSUME NEW q \in Seq(Bridge!Lines), q # <<>>, NEW id, NEW new, LinesFor(id, q)
  PROVE  LinesFor(new, Tail(q)) /\ (id # "none" => Head(q) \in Later)
<1>1. /\ DOMAIN q = 1 .. Len(q) /\ Len(q) \in Nat \ {0}
      /\ Tail(q) \in Seq(Bridge!Lines) /\ Len(Tail(q)) = Len(q) - 1
      /\ \A i \in 1 .. Len(q) - 1 : Tail(q)[i] = q[i + 1]
      /\ Head(q) = q[1]
  OBVIOUS
<1>2. \A i \in 1 .. Len(q) - 1 : i + 1 \in 1 .. Len(q) /\ i + 1 > 1
  BY <1>1
<1>3. DOMAIN Tail(q) = 1 .. Len(q) - 1
  BY <1>1
<1>4. LinesFor(new, Tail(q))
  BY <1>1, <1>2, <1>3 DEF LinesFor
<1>5. 1 \in DOMAIN q
  BY <1>1
<1> QED BY <1>1, <1>4, <1>5 DEF LinesFor

LEMMA LineWritten ==
  ASSUME BridgeTypeInv, NEW id, LinesFor(id, pipe), NEW line \in Bridge!Lines, line \in Later \/ (pipe = <<>> /\ id = "none")
  PROVE  LinesFor(id, Append(pipe, line))
<1> DEFINE q == Append(pipe, line)
<1>1. /\ Len(pipe) \in Nat
      /\ \A i \in DOMAIN q : \/ i = Len(pipe) + 1 /\ q[i] = line
                             \/ i \in DOMAIN pipe /\ q[i] = pipe[i]
  BY LineAdded
<1>2. pipe = <<>> => Len(pipe) = 0
  OBVIOUS
<1> QED BY <1>1, <1>2 DEF LinesFor

LEMMA FlowStep == ASSUME BridgeTypeInv, BridgeTypeInv', Flow, [Bridge!Next]_Bridge!vars PROVE Flow'
<1>t. pipe \in Seq(Bridge!Lines) /\ bridge \in BridgeType /\ codex \in Bridge!CodexStates
  BY DEF BridgeTypeInv
<1>1. ASSUME UNCHANGED <<codex, pipe>>, NEW place \in Steps, To(bridge', place), BridgeSame(bridge'), bridge'.started = bridge.started,
             place \in {"spawn", "failed"} <=> bridge.at \in {"baseline", "spawn", "failed"},
             place # "baseline",
             place \in {"event", "record", "final", "stop"} => bridge.started,
             place \in {"exit", "final", "stop", "done"} => codex = "gone" /\ pipe = <<>>
      PROVE  Flow'
  BY <1>1 DEF Flow, To, BridgeSame
<1>2. ASSUME UNCHANGED <<codex, pipe>>, To(bridge', bridge.then), BridgeSame(bridge'), bridge'.started,
             bridge.id # "none", bridge.at \notin {"baseline", "spawn", "failed"}
      PROVE  Flow'
  <2>1. bridge.then \notin {"baseline", "spawn", "failed", "exit", "stop", "done"}
    BY <1>t DEF BridgeType
  <2> QED BY <1>2, <2>1 DEF Flow, To, BridgeSame
<1>3. CASE UNCHANGED Bridge!vars
  BY <1>3 DEF Bridge!vars, Flow
<1>4. CASE Bridge!Capture
  <2>1. To(bridge', "spawn") /\ BridgeSame(bridge') /\ bridge'.started = bridge.started
    BY <1>4, Goes DEF Bridge!Capture, Steps
  <2> QED BY <1>1, <1>4, <2>1 DEF Bridge!Capture, Bridge!At, Steps
<1>5. CASE Bridge!Spawn
  <2>1. To(bridge', "read") /\ BridgeSame(bridge') /\ bridge'.started = bridge.started
    BY <1>5, Goes DEF Bridge!Spawn, Steps
  <2> QED BY <1>5, <2>1 DEF Bridge!Spawn, Bridge!At, Flow, To, BridgeSame
<1>6. CASE Bridge!SpawnFails
  <2>1. To(bridge', "failed") /\ BridgeSame(bridge') /\ bridge'.started = bridge.started
    BY <1>6, Goes DEF Bridge!SpawnFails, Steps
  <2> QED BY <1>1, <1>6, <2>1 DEF Bridge!SpawnFails, Bridge!At, Steps, Bridge!BridgeOnly
<1>7. CASE Bridge!Read
  <2>1. pipe # <<>> /\ pipe' = Tail(pipe) /\ codex' = codex /\ bridge.at = "read"
    BY <1>7 DEF Bridge!Read, Bridge!At
  <2>2. codex \notin {"unborn", "announce"} /\ LinesFor(bridge.id, pipe)
    BY <2>1 DEF Flow
  <2>3. \A id : LinesFor(id, Tail(pipe))
    BY <1>t, <2>1, <2>2, LineRead
  <2>4. ASSUME NEW id \in Bridge!Ids, NEW after \in {"read", "event"}, Bridge!Ensure(id, after)
        PROVE  Flow'
    <3>1. /\ To(bridge', IF bridge.started THEN after ELSE "start")
          /\ bridge'.then = after /\ bridge'.id = id /\ bridge'.started = bridge.started
      BY <2>4, Ensures
    <3>2. id # "none" /\ LinesFor(id, pipe')
      BY <2>1, <2>3 DEF Bridge!Ids
    <3> QED BY <2>1, <2>2, <3>1, <3>2 DEF Flow, To
  <2>5. CASE UNCHANGED bridge
    BY <2>1, <2>2, <2>3, <2>5 DEF Flow
  <2>6. Bridge!ActiveId(bridge.id) \in Bridge!Ids /\ {"thread", "fallback"} \subseteq Bridge!Ids
    BY <1>t DEF Bridge!ActiveId, Bridge!Ids, BridgeType
  <2>7. Head(pipe) \in Bridge!Lines
    BY <1>t, <2>1
  <2> QED BY <1>7, <2>4, <2>5, <2>6, <2>7 DEF Bridge!Read, Bridge!Lines
<1>go. ASSUME Bridge!BridgeOnly, NEW place \in Steps \ {"baseline", "spawn", "failed"}, Bridge!Go(place), bridge.at \notin {"baseline", "spawn", "failed"},
              place \in {"event", "record", "final", "stop"} => bridge.started,
              place \in {"exit", "final", "stop", "done"} => codex = "gone" /\ pipe = <<>>
       PROVE  Flow'
  <2>1. To(bridge', place) /\ BridgeSame(bridge') /\ bridge'.started = bridge.started
    BY <1>go, Goes
  <2> QED BY <1>1, <1>go, <2>1 DEF Bridge!BridgeOnly
<1>8. CASE Bridge!EndOfLines
  BY <1>8, <1>go DEF Bridge!EndOfLines, Bridge!At, Steps
<1>9. CASE Bridge!Known
  BY <1>9, <1>go DEF Bridge!Known, Bridge!At, Steps
<1>10. CASE Bridge!Unknown
  BY <1>10, <1>go DEF Bridge!Unknown, Bridge!At, Steps
<1>11. CASE Bridge!Begin
  <2>1. To(bridge', "replace") /\ BridgeSame(bridge') /\ bridge'.started = bridge.started
    BY <1>11, Goes DEF Bridge!Begin, Steps
  <2> QED BY <1>1, <1>11, <2>1 DEF Bridge!Begin, Bridge!At, Steps, Bridge!SessionOnly
<1>12. CASE Bridge!Replace
  <2>1. To(bridge', "prompt") /\ BridgeSame(bridge') /\ bridge'.started = bridge.started
    BY <1>12, Goes DEF Bridge!Replace, Steps
  <2> QED BY <1>1, <1>12, <2>1 DEF Bridge!Replace, Bridge!At, Steps, Bridge!SessionOnly
<1>id. bridge.at \in ForASession => bridge.id # "none"
  BY DEF BridgeTypeInv, Bridge!Ids
<1>13. CASE Bridge!Prompt
  <2>1. CASE Bridge!Started
    BY <1>2, <1>13, <1>id, <2>1, Starts DEF Bridge!Prompt, Bridge!At, Bridge!BridgeOnly, ForASession
  <2>2. CASE Bridge!Go("submit")
    BY <1>13, <1>go, <2>2 DEF Bridge!Prompt, Bridge!At, Steps
  <2> QED BY <1>13, <2>1, <2>2 DEF Bridge!Prompt
<1>14. CASE Bridge!Submit
  BY <1>2, <1>14, <1>id, Starts DEF Bridge!Submit, Bridge!At, Bridge!SessionOnly, ForASession
<1>15. CASE Bridge!Event
  <2>1. bridge.started /\ bridge.at = "event"
    BY <1>15 DEF Bridge!Event, Bridge!At, Flow
  <2> QED BY <1>15, <1>go, <2>1 DEF Bridge!Event, Steps
<1>16. CASE Bridge!Record
  <2>1. To(bridge', "read") /\ BridgeSame(bridge') /\ bridge'.started = bridge.started
    BY <1>16, Goes DEF Bridge!Record, Steps
  <2> QED BY <1>1, <1>16, <2>1 DEF Bridge!Record, Bridge!At, Steps, Bridge!SessionOnly
<1>17. CASE Bridge!Exit
  <2>1. Bridge!ActiveId(bridge.id) \in Bridge!Ids /\ Bridge!BridgeOnly /\ bridge.at = "exit" /\ codex = "gone" /\ pipe = <<>>
    BY <1>t, <1>17 DEF Bridge!ActiveId, Bridge!Ids, BridgeType, Bridge!Exit, Bridge!At, Flow
  <2>2. /\ To(bridge', IF bridge.started THEN "final" ELSE "start") /\ bridge'.then = "final"
        /\ bridge'.id = Bridge!ActiveId(bridge.id) /\ bridge'.started = bridge.started
    BY <1>17, <2>1, Ensures DEF Bridge!Exit
  <2>3. LinesFor(bridge'.id, pipe')
    BY <2>1, <2>2 DEF Bridge!BridgeOnly, Flow, LinesFor, Bridge!ActiveId
  <2> QED BY <2>1, <2>2, <2>3 DEF Flow, To, Bridge!BridgeOnly, Bridge!Ids
<1>18. CASE Bridge!Final
  <2>1. bridge.started /\ bridge.at = "final" /\ codex = "gone" /\ pipe = <<>>
    BY <1>18 DEF Bridge!Final, Bridge!At, Flow
  <2> QED BY <1>18, <1>go, <2>1 DEF Bridge!Final, Steps
<1>19. CASE Bridge!Stop
  <2>1. codex = "gone" /\ pipe = <<>> /\ bridge.at = "stop"
    BY <1>19 DEF Bridge!Stop, Bridge!At, Flow
  <2>2. To(bridge', "done") /\ BridgeSame(bridge') /\ bridge'.started = bridge.started
    BY <1>19, Goes DEF Bridge!Stop, Steps
  <2> QED BY <1>1, <1>19, <2>1, <2>2 DEF Bridge!Stop, Steps, Bridge!SessionOnly
<1>20. ASSUME UNCHANGED bridge, codex \notin {"unborn", "gone"}, codex' \notin {"unborn", "announce"},
              LinesFor(bridge.id, pipe')
       PROVE  Flow'
  BY <1>20 DEF Flow
<1>21. CASE Bridge!Announce
  <2>1. PICK line \in {"thread", "noid", "noise"} : pipe' = Append(pipe, line)
    BY <1>21 DEF Bridge!Announce
  <2>2. LinesFor(bridge.id, pipe')
    BY <1>21, <2>1, LineWritten DEF Bridge!Announce, Flow, Bridge!Lines
  <2> QED BY <1>20, <1>21, <2>2 DEF Bridge!Announce, Bridge!CodexIs
<1>22. CASE Bridge!Native
  BY <1>20, <1>22 DEF Bridge!Native, Bridge!CodexIs, Bridge!AfterNative, Bridge!NativeEvents, Flow
<1>23. CASE Bridge!NativeFails
  BY <1>20, <1>23 DEF Bridge!NativeFails, Bridge!CodexIs, Bridge!AfterNative, Bridge!NativeEvents, Flow
<1>more. \A line \in Later : LinesFor(bridge.id, Append(pipe, line))
  <2>1. LinesFor(bridge.id, pipe) /\ Later \subseteq Bridge!Lines
    BY DEF Flow, Later, Bridge!Lines
  <2>2. ASSUME NEW line \in Later PROVE LinesFor(bridge.id, Append(pipe, line))
    <3>1. line \in Bridge!Lines
      BY <2>1
    <3> QED BY <2>1, <3>1, LineWritten
  <2> QED BY <2>2
<1>24. CASE Bridge!Finish
  <2>1. PICK more \in {<<>>, <<"failed">>} : pipe' = pipe \o more
    BY <1>24 DEF Bridge!Finish
  <2>2. CASE more = <<>>
    <3>1. pipe' = pipe
      BY <1>t, <2>1, <2>2
    <3> QED BY <1>20, <1>24, <3>1 DEF Bridge!Finish, Bridge!CodexIs, Flow
  <2>3. CASE more = <<"failed">>
    <3>1. pipe' = Append(pipe, "failed")
      BY <1>t, <2>1, <2>3
    <3>2. LinesFor(bridge.id, pipe')
      BY <1>more, <3>1 DEF Later
    <3> QED BY <1>20, <1>24, <3>2 DEF Bridge!Finish, Bridge!CodexIs
  <2> QED BY <2>1, <2>2, <2>3
<1>25. CASE Bridge!Die
  BY <1>25 DEF Bridge!Die, Bridge!CodexIs, Flow
<1>26. ASSUME NEW e \in Own, Bridge!Work(e) PROVE Flow'
  <2>1. LinesFor(bridge.id, pipe')
    BY <1>26, <1>more DEF Bridge!Work, Later
  <2> QED BY <1>20, <1>26, <2>1 DEF Bridge!Work
<1>27. ASSUME NEW e \in Others, Bridge!Edit(e) PROVE Flow'
  BY <1>27 DEF Bridge!Edit, Flow
<1> QED BY <1>3, <1>4, <1>5, <1>6, <1>7, <1>8, <1>9, <1>10, <1>11, <1>12, <1>13, <1>14, <1>15,
           <1>16, <1>17, <1>18, <1>19, <1>21, <1>22, <1>23, <1>24, <1>25, <1>26, <1>27, BridgeStepCases

LEMMA FlowInit == ASSUME Bridge!Init PROVE Flow
BY DEF Bridge!Init, Flow, LinesFor

-----------------------------------------------------------------------------
(* The work: where native hooks do not fail, no tree a session starts from    *)
(* holds work of Codex, but for the moment between the bridge's own start of  *)
(* a session and its correction of it                                         *)

BridgeFree(T) == T \cap Own = {}
Corrects(id) == bridge.at = "replace" /\ bridge.id = id /\ ~(hooked /\ id = "thread")
BridgeKept(id, r) ==
  /\ r.baseline # Missing
  /\ r.source = "codex" => hooked /\ id = "thread"
  /\ Corrects(id) \/ BridgeFree(r.baseline)
  /\ r.change # Missing => BridgeFree(r.change.base)
BridgeHolds(id) == records[id] # Missing /\ records[id].change # Missing /\ edited \cap Own \subseteq records[id].change.candidate
WorkInv ==
  /\ BridgeFree(before)
  /\ codex \in {"unborn", "announce", "SessionStart", "UserPromptSubmit"} => BridgeFree(edited)
  /\ hooked /\ codex \notin {"unborn", "announce", "SessionStart"} => records["thread"] # Missing
  /\ bridge.started \/ bridge.at \in {"replace", "prompt", "submit"} => records[bridge.id] # Missing
  /\ \A id \in Bridge!Ids : records[id] # Missing => BridgeKept(id, records[id])
  /\ hooked /\ codex = "gone" => BridgeHolds("thread")
  /\ bridge.at = "done" => \E id \in Bridge!Ids : BridgeHolds(id)

LEMMA Bridged ==
  ASSUME BridgeTypeInv, WorkInv, Bridge!SessionOnly, bridge.id \in Bridge!Ids, bridge'.id = bridge.id,
         NEW r, Sets(bridge.id, r), r # Missing, BridgeKept(bridge.id, r)',
         bridge'.at = "done" \/ (hooked /\ bridge.id = "thread" /\ codex = "gone") =>
           r.change # Missing /\ edited \cap Own \subseteq r.change.candidate
  PROVE  WorkInv'
<1> DEFINE id == bridge.id
<1>1. records'[id] = r /\ \A i \in Bridge!Ids : i # id => records'[i] = records[i]
  BY Set
<1>2. ASSUME NEW i \in Bridge!Ids, records'[i] # Missing
      PROVE  BridgeKept(i, records[i])'
  <2>1. CASE i = id
    BY <1>1, <2>1
  <2>2. CASE i # id
    <3>1. BridgeKept(i, records[i]) /\ records'[i] = records[i]
      BY <1>1, <1>2, <2>2 DEF WorkInv
    <3>2. ~Corrects(i)
      BY <2>2 DEF Corrects
    <3> QED BY <3>1, <3>2 DEF BridgeKept, Bridge!SessionOnly, BridgeFree
  <2> QED BY <2>1, <2>2
<1>3. \A i \in Bridge!Ids : records[i] # Missing => records'[i] # Missing
  BY <1>1
<1>4. "thread" \in Bridge!Ids
  BY DEF Bridge!Ids
<1>5. hooked /\ codex = "gone" => BridgeHolds("thread")'
  <2>1. ASSUME hooked, codex = "gone" PROVE BridgeHolds("thread")'
    <3>1. CASE id = "thread"
      BY <1>1, <2>1, <3>1 DEF BridgeHolds, Bridge!SessionOnly
    <3>2. CASE id # "thread"
      BY <1>1, <1>4, <2>1, <3>2 DEF BridgeHolds, Bridge!SessionOnly, WorkInv
    <3> QED BY <3>1, <3>2
  <2> QED BY <2>1
<1>6. bridge'.at = "done" => BridgeHolds(id)'
  BY <1>1 DEF BridgeHolds, Bridge!SessionOnly
<1>7. (BridgeFree(before))' /\ (BridgeFree(edited))' = BridgeFree(edited)
  BY DEF WorkInv, Bridge!SessionOnly, BridgeFree
<1> QED BY <1>1, <1>2, <1>3, <1>4, <1>5, <1>6, <1>7 DEF WorkInv, Bridge!SessionOnly

\* An event of the bridge that finds its session.
LEMMA BridgeEvent ==
  ASSUME Bridge!CodexBridgeAssumption, BridgeTypeInv, WorkInv, Bridge!SessionOnly, bridge.id \in Bridge!Ids, bridge'.id = bridge.id,
         NEW event \in Bridge!NativeEvents, Bridge!Lifecycle(bridge.id, "bridge", event),
         records[bridge.id] # Missing, bridge.at # "replace",
         bridge'.at = "done" => event = "Stop"
  PROVE  WorkInv'
<1> DEFINE id == bridge.id
           o == records[id]
<1>1. PICK r : Made(r, o, "bridge", event) /\ Sets(id, r)
  BY Lives
<1>2. o \in Bridge!Session /\ o.baseline # Missing /\ BridgeFree(o.baseline) /\ (o.change # Missing => BridgeFree(o.change.base))
  BY DEF BridgeTypeInv, WorkInv, BridgeKept, Corrects
<1>3. /\ r \in Bridge!Session /\ r # Missing /\ r.source # "codex" /\ r.baseline = o.baseline
      /\ event # "Stop" => r.change = o.change
      /\ event = "Stop" => r.change # Missing /\ r.change.base = o.baseline /\ r.change.candidate = edited
  BY MissingIsOther, <1>1, <1>2 DEF Made
<1>4. BridgeKept(id, r)'
  BY <1>2, <1>3 DEF BridgeKept, BridgeFree
<1>5. bridge'.at = "done" \/ (hooked /\ id = "thread" /\ codex = "gone") =>
        r.change # Missing /\ edited \cap Own \subseteq r.change.candidate
  BY <1>3 DEF WorkInv, BridgeHolds
<1> QED BY <1>1, <1>3, <1>4, <1>5, Bridged

LEMMA WorkStep ==
  ASSUME Bridge!CodexBridgeAssumption, ~Flaky, BridgeTypeInv, BridgeTypeInv', Flow, WorkInv, [Bridge!Next]_Bridge!vars
  PROVE  WorkInv'
<1>t. /\ records \in [Bridge!Ids -> Bridge!Session \cup {Missing}] /\ bridge \in BridgeType /\ codex \in Bridge!CodexStates
      /\ edited \in SUBSET Bridge!Edits /\ "thread" \in Bridge!Ids
  BY DEF BridgeTypeInv, Bridge!Ids
<1>kept. ASSUME UNCHANGED <<records, hooked>>, bridge.at # "replace" \/ UNCHANGED bridge
         PROVE  \A id \in Bridge!Ids : records'[id] # Missing => BridgeKept(id, records[id])'
  BY <1>kept DEF WorkInv, BridgeKept, Corrects
<1>1. ASSUME Bridge!BridgeOnly, bridge.at # "replace",
             bridge'.started \/ bridge'.at \in {"replace", "prompt", "submit"} => records[bridge'.id] # Missing,
             bridge'.at = "done" => \E id \in Bridge!Ids : BridgeHolds(id)
      PROVE  WorkInv'
  <2>1. \A id \in Bridge!Ids : BridgeHolds(id)' = BridgeHolds(id)
    BY <1>1 DEF BridgeHolds, Bridge!BridgeOnly
  <2> QED BY <1>1, <1>t, <1>kept, <2>1 DEF WorkInv, Bridge!BridgeOnly, BridgeFree
<1>go. ASSUME Bridge!BridgeOnly, NEW place \in Steps \ {"done"}, Bridge!Go(place), bridge.at # "replace",
              place \in {"replace", "prompt", "submit"} => records[bridge.id] # Missing
       PROVE  WorkInv'
  <2>1. To(bridge', place) /\ BridgeSame(bridge') /\ bridge'.started = bridge.started
    BY <1>go, Goes
  <2> QED BY <1>1, <1>go, <2>1 DEF To, BridgeSame, WorkInv
<1>id. bridge.at \in ForASession => bridge.id \in Bridge!Ids
  BY DEF BridgeTypeInv
<1>3. CASE UNCHANGED Bridge!vars
  <2>1. \A id \in Bridge!Ids : BridgeHolds(id)' = BridgeHolds(id)
    BY <1>3 DEF BridgeHolds, Bridge!vars
  <2> QED BY <1>3, <1>t, <1>kept, <2>1 DEF Bridge!vars, WorkInv, BridgeFree
<1>4. CASE Bridge!Capture
  <2>1. To(bridge', "spawn") /\ BridgeSame(bridge') /\ bridge'.started = bridge.started /\ bridge.at = "baseline"
    BY <1>4, Goes DEF Bridge!Capture, Steps, Bridge!At
  <2>2. codex = "unborn" /\ BridgeFree(edited) /\ UNCHANGED <<edited, records, hooked, codex>>
    BY <1>4, <2>1 DEF Flow, WorkInv, Bridge!Capture
  <2>3. BridgeFree(before)' /\ BridgeFree(edited)'
    BY <1>4, <2>2 DEF Bridge!Capture, BridgeFree
  <2> QED BY <1>kept, <2>1, <2>2, <2>3 DEF WorkInv, To, BridgeSame
<1>5. CASE Bridge!Spawn
  <2>1. To(bridge', "read") /\ BridgeSame(bridge') /\ bridge'.started = bridge.started /\ bridge.at = "spawn"
    BY <1>5, Goes DEF Bridge!Spawn, Steps, Bridge!At
  <2>2. codex = "unborn" /\ codex' = "announce" /\ UNCHANGED <<edited, records, hooked, before>>
    BY <1>5, <2>1 DEF Flow, Bridge!Spawn
  <2>3. BridgeFree(before)' /\ BridgeFree(edited)'
    BY <2>2 DEF BridgeFree, WorkInv
  <2> QED BY <1>kept, <2>1, <2>2, <2>3 DEF WorkInv, To, BridgeSame
<1>6. CASE Bridge!SpawnFails
  BY <1>6, <1>go DEF Bridge!SpawnFails, Steps, Bridge!At
<1>7. CASE Bridge!Read
  <2>1. UNCHANGED <<edited, records, hooked, codex, before>> /\ bridge.at = "read"
    BY <1>7 DEF Bridge!Read, Bridge!At
  <2>2. BridgeFree(before)' /\ BridgeFree(edited)' = BridgeFree(edited) /\ \A id \in Bridge!Ids : BridgeHolds(id)' = BridgeHolds(id)
    BY <2>1 DEF BridgeFree, WorkInv, BridgeHolds
  <2>3. ASSUME NEW id \in Bridge!Ids, NEW after \in {"read", "event"}, Bridge!Ensure(id, after),
               bridge.started => id = bridge.id
        PROVE  WorkInv'
    <3>1. /\ To(bridge', IF bridge.started THEN after ELSE "start")
          /\ bridge'.id = id /\ bridge'.started = bridge.started
      BY <2>3, Ensures
    <3> QED BY <1>kept, <1>t, <2>1, <2>2, <2>3, <3>1 DEF WorkInv, To
  <2>4. CASE UNCHANGED bridge
    BY <1>kept, <1>t, <2>1, <2>2, <2>4 DEF WorkInv
  <2>5. Bridge!ActiveId(bridge.id) \in Bridge!Ids /\ {"thread", "fallback"} \subseteq Bridge!Ids
    BY <1>t DEF Bridge!ActiveId, Bridge!Ids, BridgeType
  <2>6. pipe # <<>> /\ Head(pipe) \in Bridge!Lines /\ (bridge.id # "none" => Head(pipe) \in Later)
    <3>1. pipe # <<>> /\ pipe \in Seq(Bridge!Lines) /\ LinesFor(bridge.id, pipe)
      BY <1>7 DEF Bridge!Read, BridgeTypeInv, Flow
    <3>2. bridge.id # "none" => Head(pipe) \in Later
      BY <3>1, LineRead
    <3> QED BY <3>1, <3>2
  <2>7. bridge.started => bridge.id # "none"
    BY DEF Flow
  <2>8. CASE Head(pipe) = "noise"
    BY <1>7, <2>4, <2>8 DEF Bridge!Read
  <2>9. CASE Head(pipe) = "thread"
    BY <1>7, <2>3, <2>5, <2>6, <2>7, <2>9 DEF Bridge!Read, Later
  <2>10. CASE Head(pipe) = "noid"
    BY <1>7, <2>3, <2>5, <2>6, <2>7, <2>10 DEF Bridge!Read, Later
  <2>11. CASE Head(pipe) \in {"item", "failed"}
    <3>1. Bridge!Ensure(Bridge!ActiveId(bridge.id), "event")
      BY <1>7, <2>11 DEF Bridge!Read
    <3> QED BY <2>3, <2>5, <2>7, <3>1 DEF Bridge!ActiveId
  <2> QED BY <2>6, <2>8, <2>9, <2>10, <2>11 DEF Bridge!Lines
<1>8. CASE Bridge!EndOfLines
  BY <1>8, <1>go DEF Bridge!EndOfLines, Steps, Bridge!At
<1>9. CASE Bridge!Known
  BY <1>9, <1>go DEF Bridge!Known, Steps, Bridge!At
<1>10. CASE Bridge!Unknown
  BY <1>10, <1>go DEF Bridge!Unknown, Steps, Bridge!At
<1>11. CASE Bridge!Begin
  <2> DEFINE id == bridge.id
             o == records[id]
  <2>1. id \in Bridge!Ids /\ bridge.at = "begin" /\ Bridge!SessionOnly /\ Bridge!Lifecycle(id, "bridge", "SessionStart")
    BY <1>11, <1>id DEF Bridge!Begin, Bridge!At, ForASession
  <2>2. To(bridge', "replace") /\ bridge'.id = id
    BY <1>11, Goes DEF Bridge!Begin, Steps, BridgeSame
  <2>3. PICK r : Made(r, o, "bridge", "SessionStart") /\ Sets(id, r)
    BY <2>1, Lives DEF Bridge!NativeEvents
  <2>4. o # Missing => o \in Bridge!Session /\ o.baseline # Missing /\ BridgeFree(o.baseline) /\ (o.change # Missing => BridgeFree(o.change.base))
    BY <1>t, <2>1 DEF WorkInv, BridgeKept, Corrects
  <2>5. edited # Missing
    BY <1>t DEF Bridge!CodexBridgeAssumption
  <2>6. /\ r # Missing /\ r.source # "codex"
        /\ r.baseline = (IF o = Missing THEN edited ELSE o.baseline)
        /\ r.change = (IF o = Missing THEN Missing ELSE o.change)
    BY MissingIsOther, <2>3, <2>4 DEF Made
  <2>7. hooked /\ id = "thread" /\ o = Missing => BridgeFree(edited)
    BY DEF WorkInv
  <2>8. Corrects(id)' \/ (hooked /\ id = "thread")
    BY <2>1, <2>2 DEF Corrects, Bridge!SessionOnly, To
  <2>9. BridgeKept(id, r)'
    BY <2>4, <2>5, <2>6, <2>7, <2>8 DEF BridgeKept, BridgeFree
  <2>10. hooked /\ id = "thread" /\ codex = "gone" => r.change # Missing /\ edited \cap Own \subseteq r.change.candidate
    BY <2>6 DEF WorkInv, BridgeHolds
  <2>11. bridge'.at # "done"
    BY <2>2 DEF To
  <2> QED BY <2>1, <2>2, <2>3, <2>6, <2>9, <2>10, <2>11, Bridged
<1>12. CASE Bridge!Replace
  <2> DEFINE id == bridge.id
             o == records[id]
  <2>0. PICK r : r = Bridge!Replaced(o)
    OBVIOUS
  <2>1. id \in Bridge!Ids /\ o # Missing /\ bridge.at = "replace" /\ Bridge!SessionOnly /\ Sets(id, r)
    BY <1>12, <1>id, <2>0 DEF Bridge!Replace, Bridge!At, ForASession, BridgeTypeInv, Sets
  <2>2. To(bridge', "prompt") /\ bridge'.id = id
    BY <1>12, Goes DEF Bridge!Replace, Steps, BridgeSame
  <2>3. o \in Bridge!Session
    BY <1>t, <2>1
  <2>4. before \in SUBSET Bridge!Edits /\ before # Missing /\ BridgeFree(before)
    BY DEF BridgeTypeInv, Bridge!CodexBridgeAssumption, WorkInv
  <2>5. r \in Bridge!Session /\ r.source = o.source /\ r.change = o.change /\ r.baseline = before
    BY <2>0, <2>3, <2>4 DEF Bridge!Replaced, Bridge!Session
  <2>6. BridgeKept(id, o) /\ r # Missing
    <3>1. BridgeKept(id, o)
      BY <2>1 DEF WorkInv
    <3>2. r # Missing
      BY MissingIsOther, <2>5
    <3> QED BY <3>1, <3>2
  <2>7. BridgeKept(id, r)'
    <3>1. r.baseline # Missing /\ (r.change # Missing => BridgeFree(r.change.base)) /\ BridgeFree(r.baseline)
      BY <2>4, <2>5, <2>6 DEF BridgeKept
    <3>2. r.source = "codex" => hooked /\ id = "thread"
      BY <2>5, <2>6 DEF BridgeKept
    <3> QED BY <2>1, <2>2, <3>1, <3>2 DEF BridgeKept, BridgeFree, Bridge!SessionOnly
  <2>8. hooked /\ id = "thread" /\ codex = "gone" => r.change # Missing /\ edited \cap Own \subseteq r.change.candidate
    BY <2>5 DEF WorkInv, BridgeHolds
  <2>9. bridge'.at # "done"
    BY <2>2 DEF To
  <2> QED BY <2>1, <2>2, <2>6, <2>7, <2>8, <2>9, Bridged
<1>13. CASE Bridge!Prompt
  <2>1. bridge.at = "prompt" /\ Bridge!BridgeOnly /\ records[bridge.id] # Missing
    BY <1>13 DEF Bridge!Prompt, Bridge!At, WorkInv
  <2>2. CASE Bridge!Started
    <3>1. To(bridge', bridge.then) /\ bridge'.id = bridge.id /\ bridge.then # "done"
      BY <1>t, <2>2, Starts DEF BridgeSame, BridgeType
    <3> QED BY <1>1, <2>1, <3>1 DEF To
  <2>3. CASE Bridge!Go("submit")
    BY <1>go, <2>1, <2>3 DEF Steps
  <2> QED BY <1>13, <2>2, <2>3 DEF Bridge!Prompt
<1>14. CASE Bridge!Submit
  <2>1. bridge.id \in Bridge!Ids /\ bridge.at = "submit" /\ Bridge!SessionOnly /\ records[bridge.id] # Missing
    BY <1>14, <1>id DEF Bridge!Submit, Bridge!At, ForASession, WorkInv
  <2>2. To(bridge', bridge.then) /\ bridge'.id = bridge.id /\ bridge.then # "done"
    BY <1>14, <1>t, Starts DEF Bridge!Submit, BridgeSame, BridgeType
  <2>3. bridge'.at # "done"
    BY <2>2 DEF To
  <2>4. Bridge!Lifecycle(bridge.id, "bridge", "UserPromptSubmit") /\ "UserPromptSubmit" \in Bridge!NativeEvents
    BY <1>14 DEF Bridge!Submit, Bridge!NativeEvents
  <2> QED BY <2>1, <2>2, <2>3, <2>4, BridgeEvent
<1>15. CASE Bridge!Event
  BY <1>15, <1>go DEF Bridge!Event, Steps, Bridge!At
<1>16. CASE Bridge!Record
  <2>1. bridge.id \in Bridge!Ids /\ bridge.at = "record" /\ Bridge!SessionOnly /\ records[bridge.id] # Missing
    BY <1>16, <1>id DEF Bridge!Record, Bridge!At, ForASession, WorkInv, Flow
  <2>2. To(bridge', "read") /\ bridge'.id = bridge.id
    BY <1>16, Goes DEF Bridge!Record, BridgeSame, Steps
  <2>3. bridge'.at # "done"
    BY <2>2 DEF To
  <2>4. Bridge!Lifecycle(bridge.id, "bridge", "PostToolUse") /\ "PostToolUse" \in Bridge!NativeEvents
    BY <1>16 DEF Bridge!Record, Bridge!NativeEvents
  <2> QED BY <2>1, <2>2, <2>3, <2>4, BridgeEvent
<1>17. CASE Bridge!Exit
  <2>1. bridge.at = "exit" /\ Bridge!BridgeOnly /\ Bridge!ActiveId(bridge.id) \in Bridge!Ids
    BY <1>17, <1>t DEF Bridge!Exit, Bridge!At, Bridge!ActiveId, Bridge!Ids, BridgeType
  <2>2. /\ To(bridge', IF bridge.started THEN "final" ELSE "start")
        /\ bridge'.id = Bridge!ActiveId(bridge.id) /\ bridge'.started = bridge.started
    BY <1>17, <2>1, Ensures DEF Bridge!Exit
  <2>3. bridge.started => Bridge!ActiveId(bridge.id) = bridge.id /\ records[bridge.id] # Missing
    BY DEF Flow, Bridge!ActiveId, WorkInv
  <2> QED BY <1>1, <2>1, <2>2, <2>3 DEF To
<1>18. CASE Bridge!Final
  <2>1. bridge.at = "final" /\ Bridge!BridgeOnly /\ bridge.id \in Bridge!Ids /\ bridge.started /\ codex = "gone"
    BY <1>18, <1>id DEF Bridge!Final, Bridge!At, ForASession, Flow
  <2>2. CASE Bridge!NativeActive(bridge.id)
    <3>1. hooked /\ bridge.id = "thread"
      BY <2>1, <2>2 DEF Bridge!NativeActive, WorkInv, BridgeKept
    <3>2. BridgeHolds("thread")
      BY <2>1, <3>1 DEF WorkInv
    <3>3. To(bridge', "done") /\ bridge'.id = bridge.id /\ bridge'.started = bridge.started
      BY <1>18, <2>2, Goes DEF Bridge!Final, Steps, BridgeSame
    <3>4. records[bridge.id] # Missing
      BY <2>1 DEF WorkInv
    <3> QED BY <1>1, <1>t, <2>1, <3>2, <3>3, <3>4
  <2>3. CASE ~Bridge!NativeActive(bridge.id)
    BY <1>18, <1>go, <2>1, <2>3 DEF Bridge!Final, Steps
  <2> QED BY <2>2, <2>3
<1>19. CASE Bridge!Stop
  <2>1. bridge.id \in Bridge!Ids /\ bridge.at = "stop" /\ Bridge!SessionOnly /\ records[bridge.id] # Missing
    BY <1>19, <1>id DEF Bridge!Stop, Bridge!At, ForASession, WorkInv, Flow
  <2>2. bridge'.id = bridge.id
    BY <1>19, Goes DEF Bridge!Stop, BridgeSame, Steps
  <2>3. Bridge!Lifecycle(bridge.id, "bridge", "Stop") /\ "Stop" \in Bridge!NativeEvents
    BY <1>19 DEF Bridge!Stop, Bridge!NativeEvents
  <2> QED BY <2>1, <2>2, <2>3, BridgeEvent
<1>gone. bridge.at = "done" => codex = "gone"
  BY DEF Flow
<1>20. ASSUME UNCHANGED <<records, hooked, before, bridge>>, codex # "gone", codex' # "unborn",
              hooked => codex' # "gone", 
              hooked /\ codex' \notin {"announce", "SessionStart"} => records["thread"] # Missing,
              codex' \in {"announce", "SessionStart", "UserPromptSubmit"} => BridgeFree(edited')
       PROVE  WorkInv'
  <2>1. BridgeFree(before)' = BridgeFree(before)
    BY <1>20 DEF BridgeFree
  <2> QED BY <1>20, <1>kept, <1>gone, <2>1 DEF WorkInv
<1>21. CASE Bridge!Announce
  <2>1. codex = "announce" /\ codex' = "SessionStart" /\ UNCHANGED <<edited, records, hooked, before, bridge>>
    BY <1>21 DEF Bridge!Announce, Bridge!CodexIs
  <2>2. BridgeFree(edited')
    BY <2>1 DEF WorkInv, BridgeFree
  <2> QED BY <1>20, <2>1, <2>2
<1>22. CASE Bridge!Native
  <2>1. /\ codex \in Bridge!NativeEvents /\ codex' = Bridge!AfterNative(codex) /\ UNCHANGED <<edited, hooked, before, bridge>>
        /\ IF hooked THEN Bridge!Lifecycle("thread", "codex", codex) ELSE UNCHANGED records
    BY <1>22 DEF Bridge!Native, Bridge!CodexIs
  <2>2. /\ codex' \notin {"unborn", "announce", "SessionStart"} /\ codex # "gone"
        /\ codex' = "UserPromptSubmit" => codex = "SessionStart"
        /\ codex' = "gone" <=> codex = "Stop"
    BY <2>1 DEF Bridge!AfterNative, Bridge!NativeEvents
  <2>3. codex' = "UserPromptSubmit" => BridgeFree(edited')
    BY <2>1, <2>2 DEF WorkInv, BridgeFree
  <2>4. CASE ~hooked
    <3>1. BridgeFree(before)'
      BY <2>1 DEF BridgeFree, WorkInv
    <3> QED BY <1>kept, <1>gone, <2>1, <2>2, <2>3, <2>4, <3>1 DEF WorkInv
  <2>5. CASE hooked
    <3> DEFINE o == records["thread"]
    <3>1. PICK r : Made(r, o, "codex", codex) /\ Sets("thread", r)
      BY <1>t, <2>1, <2>5, Lives
    <3>2. records'["thread"] = r /\ \A i \in Bridge!Ids : i # "thread" => records'[i] = records[i]
      BY <1>t, <3>1, Set
    <3>3. o # Missing => o.baseline # Missing /\ BridgeFree(o.baseline) /\ (o.change # Missing => BridgeFree(o.change.base))
      BY <1>t, <2>5 DEF WorkInv, BridgeKept, Corrects
    <3>4. o = Missing => codex = "SessionStart" /\ BridgeFree(edited)
      BY <2>1, <2>2, <2>5 DEF WorkInv, Bridge!NativeEvents
    <3>5. edited # Missing /\ r # Missing
      BY MissingIsOther, <1>t, <3>1 DEF Made
    <3>6. r.baseline = (IF o = Missing THEN edited ELSE o.baseline)
      BY <3>1, <3>3, <3>4 DEF Made
    <3>7. r.change # Missing => BridgeFree(r.change.base)
      BY <3>1, <3>3, <3>4 DEF Made
    <3>8. codex = "Stop" => r.change # Missing /\ r.change.candidate = edited
      BY <3>1, <3>3, <3>4 DEF Made
    <3>9. BridgeKept("thread", r)'
      BY <2>1, <2>5, <3>3, <3>4, <3>5, <3>6, <3>7 DEF BridgeKept, BridgeFree
    <3>10. \A i \in Bridge!Ids : records'[i] # Missing => BridgeKept(i, records[i])'
      <4>1. ASSUME NEW i \in Bridge!Ids, records'[i] # Missing PROVE BridgeKept(i, records[i])'
        <5>1. CASE i = "thread"
          BY <3>2, <3>9, <5>1
        <5>2. CASE i # "thread"
          <6>1. records'[i] = records[i] /\ BridgeKept(i, records[i])
            BY <3>2, <4>1, <5>2 DEF WorkInv
          <6> QED BY <2>1, <6>1 DEF BridgeKept, Corrects, BridgeFree
        <5> QED BY <5>1, <5>2
      <4> QED BY <4>1
    <3>11. codex' = "gone" => BridgeHolds("thread")'
      BY <2>1, <2>2, <3>2, <3>5, <3>8 DEF BridgeHolds
    <3>12. BridgeFree(before)' /\ \A i \in Bridge!Ids : records[i] # Missing => records'[i] # Missing
      BY <2>1, <3>2, <3>5 DEF BridgeFree, WorkInv
    <3>13. bridge.started \/ bridge.at \in {"replace", "prompt", "submit"} => bridge.id \in Bridge!Ids
      <4>1. bridge.id \in Bridge!Ids \cup {"none"} /\ (bridge.started => bridge.id # "none")
        BY <1>t DEF BridgeType, Flow
      <4> QED BY <1>id, <4>1 DEF ForASession
    <3> QED BY <1>t, <1>gone, <2>1, <2>2, <2>3, <3>2, <3>5, <3>10, <3>11, <3>12, <3>13 DEF WorkInv
  <2> QED BY <2>4, <2>5
<1>23. CASE Bridge!NativeFails
  BY <1>23 DEF Bridge!NativeFails
<1>24. CASE Bridge!Finish
  <2>1. codex = "working" /\ codex' = "Stop" /\ UNCHANGED <<edited, records, hooked, before, bridge>>
    BY <1>24 DEF Bridge!Finish, Bridge!CodexIs
  <2> QED BY <1>20, <2>1 DEF WorkInv
<1>25. CASE Bridge!Die
  <2>1. ~hooked /\ codex # "gone" /\ codex' = "gone" /\ UNCHANGED <<edited, records, hooked, before, bridge>>
    BY <1>25 DEF Bridge!Die, Bridge!CodexIs
  <2> QED BY <1>20, <2>1
<1>26. ASSUME NEW e \in Own, Bridge!Work(e) PROVE WorkInv'
  <2>1. codex = "working" /\ codex' = "PostToolUse" /\ UNCHANGED <<records, hooked, before, bridge>>
    BY <1>26 DEF Bridge!Work
  <2> QED BY <1>20, <2>1 DEF WorkInv
<1>27. ASSUME NEW e \in Others, Bridge!Edit(e) PROVE WorkInv'
  <2>1. edited' = edited \cup {e} /\ UNCHANGED <<records, hooked, codex, before, bridge>>
    BY <1>27 DEF Bridge!Edit
  <2>2. edited' \cap Own = edited \cap Own
    BY <2>1 DEF Bridge!CodexBridgeAssumption
  <2>3. BridgeFree(edited)' = BridgeFree(edited) /\ BridgeFree(before)' = BridgeFree(before) /\ \A id \in Bridge!Ids : BridgeHolds(id)' = BridgeHolds(id)
    BY <2>1, <2>2 DEF BridgeFree, BridgeHolds
  <2> QED BY <1>t, <1>kept, <2>1, <2>3 DEF WorkInv
<1> QED BY <1>3, <1>4, <1>5, <1>6, <1>7, <1>8, <1>9, <1>10, <1>11, <1>12, <1>13, <1>14, <1>15,
           <1>16, <1>17, <1>18, <1>19, <1>21, <1>22, <1>23, <1>24, <1>25, <1>26, <1>27, BridgeStepCases

LEMMA WorkInit == ASSUME Bridge!CodexBridgeAssumption, Bridge!Init PROVE WorkInv
<1>1. \A id \in Bridge!Ids : records[id] = Missing
  BY DEF Bridge!Init
<1> QED BY <1>1 DEF Bridge!Init, WorkInv, BridgeFree, Bridge!Ids

-----------------------------------------------------------------------------
(* Theorems                                                                *)

\* The type of every variable, for any edits and also when native hooks fail.
THEOREM BridgeTypeCorrect == ASSUME Bridge!CodexBridgeAssumption PROVE Bridge!Spec => []Bridge!TypeOK
<1>1. Bridge!Init => BridgeTypeInv
  BY TypeInit
<1>2. BridgeTypeInv /\ [Bridge!Next]_Bridge!vars => BridgeTypeInv'
  BY BridgeTypeStep
<1>3. BridgeTypeInv => Bridge!TypeOK
  BY DEF BridgeTypeInv, Bridge!TypeOK, ForASession
<1> QED BY <1>1, <1>2, <1>3, PTL DEF Bridge!Spec

\* Where native hooks do not fail, no edit of Codex is in the tree its completed
\* change starts from, and once the bridge is done its edits are in one.
THEOREM WorkAttributed ==
  ASSUME Bridge!CodexBridgeAssumption, ~Flaky
  PROVE  Bridge!Spec => []Bridge!NoOwnWorkBefore /\ []Bridge!WorkCompleted
<1> DEFINE Inv == BridgeTypeInv /\ Flow /\ WorkInv
<1>1. Bridge!Init => Inv
  BY TypeInit, FlowInit, WorkInit
<1>2. Inv /\ [Bridge!Next]_Bridge!vars => Inv'
  BY BridgeTypeStep, FlowStep, WorkStep
<1>3. Inv => Bridge!NoOwnWorkBefore /\ Bridge!WorkCompleted
  BY DEF WorkInv, Bridge!NoOwnWorkBefore, Bridge!WorkCompleted, BridgeKept, BridgeFree, BridgeHolds
<1> QED BY <1>1, <1>2, <1>3, PTL DEF Bridge!Spec
=============================================================================
