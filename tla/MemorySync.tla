----------------------------- MODULE MemorySync ------------------------------
(***************************************************************************)
(* The export of the project memory journal to the Portal,                 *)
(* src/src/portal-memory-sync.mjs.  Several `syncPortalMemory` calls share *)
(* one cursor file.  Each change of the file is one step under the memory  *)
(* lock (module OwnedLock); reading the journal, sending and answering are *)
(* steps of their own, and the enrollment, the journal and the cursor may  *)
(* change between any two of them.                                         *)
(*                                                                         *)
(* The journal is a hash chain, so a head hash stands for the whole prefix *)
(* it ends: a position of the cursor is that prefix, and the identity of a *)
(* journal is its first event.  `by` is the part of a page outside its id  *)
(* (generatedAt).  `portal` and `net` are external: what the server stored *)
(* and the requests that still may reach it, timed out ones included.      *)
(***************************************************************************)
EXTENDS Naturals, Sequences, SequencesExt

CONSTANTS Procs, Enrollments, None,
          Journals,   \* the longest journals there may be, sequences of events
          MaxPage,    \* events of one page
          MaxEpoch, MaxChanges,  \* bounds: epochs; resyncs, journal and enrollment changes
          Happens     \* which of "stop", "lose", "refuse", "identity", "resync"

VARIABLES config, journal, cursor, portal, net, proc, changes
vars == <<config, journal, cursor, portal, net, proc, changes>>
world == <<config, journal, changes>>

Events == UNION {Range(j) : j \in Journals}
Histories == UNION {Prefixes(j) : j \in Journals}
Identity(j) == IF j = <<>> THEN None ELSE Head(j)
Identities == {Head(j) : j \in Journals}
PageId == {g \in [epoch : 1..MaxEpoch, from : Histories, to : Histories] :
             g.from # g.to /\ IsPrefix(g.from, g.to)}
Page == [id : PageId, by : Procs]
Terminal == {"reset-required", "identity-conflict"}
Cursor == [enr : Enrollments, journal : Identities \cup {None}, epoch : 1..MaxEpoch,
           head : Histories, status : Terminal \cup {"active", "server-incompatible"},
           pending : Page \cup {None}]
Answer == [is : {"ack", "mismatch", "diverged", "conflict", "incompatible", "error"}, at : Histories]
Streams == [enr : Enrollments, journal : Identities \cup {None}, epoch : 1..MaxEpoch]
Idle == [pc |-> "idle", cfg |-> None, st |-> None, page |-> None, seen |-> <<>>,
         ans |-> None]

SyncAssumption ==
  /\ MaxPage \in Nat \ {0} /\ MaxEpoch \in Nat \ {0} /\ MaxChanges \in Nat
  /\ Journals \subseteq Seq(Events)
  /\ \A S \in {Enrollments, Events, Page, PageId, Cursor, Answer, Streams} : None \notin S

-----------------------------------------------------------------------------
(* What an update requires of the cursor file, under the lock               *)

\* freshState
Fresh(enr, j, epoch) == [enr |-> enr, journal |-> j, epoch |-> epoch, head |-> <<>>,
                         status |-> "active", pending |-> None]
IdOf(page) == IF page = None THEN None ELSE page.id
View(c) == [c EXCEPT !.pending = IdOf(@)]

Bound(p) == cursor # None /\ cursor.enr = proc[p].cfg /\ config = proc[p].cfg

OnStream(c, page) == c.journal = Head(page.id.to) /\ c.epoch = page.id.epoch
\* ownsStream: on the file as it is, whatever the configuration.
HasStream(p) == cursor # None /\ cursor.enr = proc[p].cfg /\ OnStream(cursor, proc[p].page)
StreamBound(p) == Bound(p) /\ OnStream(cursor, proc[p].page)
PageBound(p) == StreamBound(p) /\ IdOf(cursor.pending) = proc[p].page.id
BoundOnly(p) == Bound(p)  \* mutant: the cursor itself is not compared
CursorBound(p) == Bound(p) /\ View(cursor) = View(proc[p].st)

-----------------------------------------------------------------------------
(* One call of syncPortalMemory                                            *)

At(p, pc) == proc[p].pc = pc
Free(p) == At(p, "idle") \/ At(p, "up-to-date")
\* The call ends: superseded, blocked, deferred, or out of its page budget.
End(p) == proc' = [proc EXCEPT ![p] = Idle]
Claim(p) == proc' = [proc EXCEPT ![p].pc = "up-to-date", ![p].st = None]
\* The next round works from the cursor file as it is now; a round that lost the
\* race for the pending page is not counted, so the page budget ends no call at it.
Again(p, pc) == proc' = [proc EXCEPT ![p] = [@ EXCEPT !.pc = pc, !.st = cursor', !.page = None,
                                                  !.seen = <<>>, !.ans = None]]
\* A guarded update: made, with what the call does next, or found superseded.
Update(p, owned, new, next) ==
  IF owned THEN cursor' = new /\ next ELSE UNCHANGED cursor /\ End(p)
SetStatus(s) == [cursor EXCEPT !.status = s]

Begin(p) ==
  /\ Free(p) /\ config # None
  /\ proc' = [proc EXCEPT ![p] = [Idle EXCEPT !.pc = "binding", !.cfg = config]]
  /\ UNCHANGED <<world, cursor, portal, net>>

\* Another enrollment is another stream: its cursor starts from nothing.
BoundCursor(p) == IF config = proc[p].cfg /\ (cursor = None \/ cursor.enr # config)
                  THEN Fresh(config, None, 1) ELSE cursor
Bind(p) ==
  /\ At(p, "binding")
  /\ cursor' = BoundCursor(p)
  /\ IF cursor' = None \/ cursor'.enr # proc[p].cfg THEN End(p)
     ELSE IF cursor'.status \in Terminal THEN End(p)
     ELSE proc' = [proc EXCEPT ![p] = [@ EXCEPT !.pc = "probing", !.st = cursor']]
  /\ UNCHANGED <<world, portal, net>>

Probe(p) ==
  /\ At(p, "probing")
  /\ \/ /\ cursor' = IF proc[p].st.status = "server-incompatible" /\ Bound(p)
                        /\ cursor.status = "server-incompatible"
                     THEN SetStatus("active") ELSE cursor
        /\ proc' = [proc EXCEPT ![p].pc = "round",
             ![p].st = IF proc[p].st.status = "server-incompatible" THEN cursor' ELSE @]
     \/ /\ "refuse" \in Happens
        /\ \/ UNCHANGED cursor
           \/ cursor' = IF Bound(p) /\ cursor.status \notin Terminal
                        THEN SetStatus("server-incompatible") ELSE cursor
        /\ End(p)
  /\ UNCHANGED <<world, portal, net>>

\* A round starts, or the page budget of the call is used up.
Round(p) ==
  /\ At(p, "round") \/ At(p, "next")
  /\ LET st == proc[p].st
     IN IF st = None \/ config # proc[p].cfg THEN End(p)
        ELSE IF st.enr # config THEN End(p)
        ELSE IF st.status \in Terminal THEN End(p)
        ELSE \/ proc' = [proc EXCEPT ![p].pc = IF st.pending = None THEN "reading" ELSE "sending",
                                     ![p].page = st.pending,
                                     ![p].st = IF st.pending = None THEN st ELSE None]
             \/ At(p, "next") /\ End(p)
  /\ UNCHANGED <<world, cursor, portal, net>>

\* readJournalPage: the events after the cursor, if its prefix is still there.
Read(p) ==
  /\ At(p, "reading")
  /\ proc' = [proc EXCEPT ![p].pc = IF IsPrefix(proc[p].st.head, journal) THEN "read" ELSE "diverged",
                          ![p].seen = journal]
  /\ UNCHANGED <<world, cursor, portal, net>>

SourceUnavailable(p) ==
  /\ At(p, "reading") /\ "lose" \in Happens
  /\ End(p)
  /\ UNCHANGED <<world, cursor, portal, net>>

\* The prefix is gone, or the page names another journal, even an empty one.
JournalChanged(p) ==
  LET st == proc[p].st
  IN /\ \/ At(p, "diverged")
        \/ At(p, "read") /\ st.journal # None /\ st.journal # Identity(proc[p].seen)
     /\ Update(p, CursorBound(p), SetStatus("reset-required"), End(p))
     /\ UNCHANGED <<world, portal, net>>

SameJournal(p) == At(p, "read") /\ proc[p].st.journal \in {None, Identity(proc[p].seen)}

ClaimsNothing(p) == TRUE  \* mutant: the cursor is not read again
StillCurrent(p) == CursorBound(p)
UpToDate(p) ==
  /\ SameJournal(p) /\ proc[p].seen = proc[p].st.head
  /\ (IF StillCurrent(p) THEN Claim(p) ELSE End(p))
  /\ UNCHANGED <<world, cursor, portal, net>>

\* buildMemoryPage: the events that fit, from the cursor on (module MemoryPage).
BuildPage(p) ==
  LET st == proc[p].st
      to == SubSeq(proc[p].seen, 1, IF Len(proc[p].seen) < Len(st.head) + MaxPage
                                    THEN Len(proc[p].seen) ELSE Len(st.head) + MaxPage)
  IN [id |-> [epoch |-> st.epoch, from |-> st.head, to |-> to], by |-> p]

SendsOwn(p) ==  \* mutant: a page that lost the race is sent as built
  /\ UNCHANGED cursor
  /\ proc' = [proc EXCEPT ![p] = [@ EXCEPT !.pc = "sending", !.page = BuildPage(p), !.seen = <<>>, !.st = None]]
LostRace(p) == UNCHANGED cursor /\ Again(p, "round")

\* The exact page is persisted before it is sent.
StorePage(p) ==
  /\ SameJournal(p) /\ proc[p].seen # proc[p].st.head
  /\ IF CursorBound(p)
     THEN /\ cursor' = [cursor EXCEPT !.journal = Identity(proc[p].seen), !.pending = BuildPage(p)]
          /\ proc' = [proc EXCEPT ![p] = [@ EXCEPT !.pc = "sending", !.page = BuildPage(p), !.seen = <<>>, !.st = None]]
     ELSE LostRace(p)
  /\ UNCHANGED <<world, portal, net>>

Send(p) ==
  /\ At(p, "sending")
  /\ IF StreamBound(p)
     THEN /\ net' = net \cup {[to |-> config, page |-> proc[p].page, from |-> p]}
          /\ proc' = [proc EXCEPT ![p].pc = "posted"]
     ELSE UNCHANGED net /\ End(p)
  /\ UNCHANGED <<world, cursor, portal>>

-----------------------------------------------------------------------------
(* The Portal's side, from the answers the client handles                  *)

Pages(e, id) == {g \in portal[e] : g.epoch = id.epoch /\ Head(g.to) = Head(id.to)}
HeadAt(e, id) ==
  LET heads == {<<>>} \cup {g.to : g \in Pages(e, id)}
  IN CHOOSE h \in heads : \A g \in heads : Len(g) <= Len(h)

Verdict(e, id) ==
  LET head == HeadAt(e, id)
      prior == {g \in Pages(e, id) : Len(g.from) = Len(id.from)}
  IN IF prior # {} THEN (IF id \in prior THEN "duplicate" ELSE "mismatch")
     ELSE IF Len(id.from) # Len(head) THEN "mismatch"
     ELSE IF id.from # head THEN "diverged" ELSE "accepted"

Takes(m, got) ==
  LET id == m.page.id
      v == Verdict(m.to, id)
      is == IF v \in {"accepted", "duplicate"} THEN "ack" ELSE v
      waits == At(m.from, "posted") /\ proc[m.from].page = m.page /\ proc[m.from].cfg = m.to
  IN /\ m \in net /\ net' = net \ {m}
     /\ portal' = IF v = "accepted" THEN [portal EXCEPT ![m.to] = @ \cup {id}] ELSE portal
     /\ proc' = IF got /\ waits
                THEN [proc EXCEPT ![m.from].pc = "answered",
                                  ![m.from].ans = [is |-> is, at |-> HeadAt(m.to, id)']]
                ELSE proc
     /\ UNCHANGED <<world, cursor>>

\* The Portal refuses the request: it is busy, does not know the schema, or
\* another project already owns an identity of the page.
Refuses(m) ==
  /\ m \in net /\ net' = net \ {m} /\ At(m.from, "posted") /\ proc[m.from].page = m.page
  /\ \E is \in {"error", "incompatible", "conflict"} :
       /\ (IF is = "conflict" THEN "identity" ELSE "refuse") \in Happens
       /\ proc' = [proc EXCEPT ![m.from].pc = "answered", ![m.from].ans = [is |-> is, at |-> <<>>]]
  /\ UNCHANGED <<world, cursor, portal>>

\* The request times out; it may still reach the Portal later.
Timeout(p) ==
  /\ At(p, "posted") /\ "lose" \in Happens
  /\ proc' = [proc EXCEPT ![p].pc = "answered", ![p].ans = [is |-> "error", at |-> <<>>]]
  /\ UNCHANGED <<world, cursor, portal, net>>

-----------------------------------------------------------------------------
(* The answer                                                              *)

\* verifiedCursor: the local journal proves the same prefix.
Verified(at) == IsPrefix(at, journal)

StatusAfter(is) ==
  CASE is = "diverged" -> "reset-required" [] is = "conflict" -> "identity-conflict"
    [] is = "incompatible" -> "server-incompatible" [] OTHER -> cursor.status
\* An answer without a cursor: the failure counts only for the pending page.
HandleFailure(p) ==
  /\ At(p, "answered") /\ proc[p].ans.is \notin {"ack", "mismatch"}
  /\ Update(p, PageBound(p), SetStatus(StatusAfter(proc[p].ans.is)), End(p))
  /\ UNCHANGED <<world, portal, net>>

\* An acknowledgement or a mismatch: the position to adopt is found in the
\* journal before the lock is taken; "reset" when there is none.
Locate(p) ==
  LET ans == proc[p].ans
      to == proc[p].page.id.to
  IN /\ At(p, "answered") /\ ans.is \in {"ack", "mismatch"}
     /\ IF ~HasStream(p)
        THEN End(p)
        ELSE proc' = [proc EXCEPT
          ![p].pc = IF ans.is = "mismatch" /\ ~Verified(ans.at) THEN "reset" ELSE "adopting",
          ![p].seen = IF ans.is = "mismatch" \/ (Len(ans.at) > Len(to) /\ Verified(ans.at))
                      THEN ans.at ELSE to]
     /\ UNCHANGED <<world, cursor, portal, net>>

Unverifiable(p) ==
  /\ At(p, "reset")
  /\ Update(p, PageBound(p), SetStatus("reset-required"), End(p))
  /\ UNCHANGED <<world, portal, net>>

\* The cursor advances, or is realigned; an answer that lost its page is inert.
Adopt(p) ==
  /\ At(p, "adopting")
  /\ cursor' = IF PageBound(p)
               THEN [cursor EXCEPT !.head = proc[p].seen, !.pending = None,
                                   !.status = IF proc[p].ans.is = "ack" THEN "active" ELSE @]
               ELSE cursor
  /\ IF proc[p].ans.is = "ack" /\ ~HasStream(p)
     THEN End(p) ELSE Again(p, "next")
  /\ UNCHANGED <<world, portal, net>>

-----------------------------------------------------------------------------
(* What happens around a call                                              *)

\* resyncPortalMemory: the enrollment and the journal are read, then the new
\* epoch is written if the enrollment is still the same.
BeginResync(p) ==
  /\ Free(p) /\ config # None /\ "resync" \in Happens
  /\ changes < MaxChanges /\ changes' = changes + 1
  /\ proc' = [proc EXCEPT ![p] = [Idle EXCEPT !.pc = "resync", !.cfg = config, !.seen = journal]]
  /\ UNCHANGED <<config, journal, cursor, portal, net>>

EpochAlwaysFirst(p, j) == 1  \* mutant: the epoch is not advanced
EpochAfter(p, j) == IF cursor # None /\ cursor.journal = j /\ cursor.enr = proc[p].cfg
                    THEN cursor.epoch + 1 ELSE 1
Resync(p) ==
  LET j == Identity(proc[p].seen)
  IN /\ At(p, "resync") /\ EpochAfter(p, j) <= MaxEpoch
     /\ Update(p, config = proc[p].cfg, Fresh(proc[p].cfg, j, EpochAfter(p, j)), End(p))
     /\ UNCHANGED <<world, portal, net>>

Stop(p) ==
  /\ ~Free(p) /\ "stop" \in Happens
  /\ proc' = [proc EXCEPT ![p] = Idle]
  /\ UNCHANGED <<world, cursor, portal, net>>

\* `portal configure` and `portal disconnect`, under the memory lock.
Enroll(e) ==
  /\ changes < MaxChanges /\ changes' = changes + 1
  /\ e # config /\ config' = e
  /\ UNCHANGED <<journal, cursor, portal, net, proc>>

\* DiffWitness Core appends an event, or the journal is another one.
Append1 ==
  /\ \E j \in Histories : Len(j) = Len(journal) + 1 /\ IsPrefix(journal, j) /\ journal' = j
  /\ UNCHANGED <<config, changes, cursor, portal, net, proc>>

Replace ==
  /\ changes < MaxChanges /\ changes' = changes + 1
  /\ \E j \in Histories : ~IsPrefix(journal, j) /\ journal' = j
  /\ UNCHANGED <<config, cursor, portal, net, proc>>

Init ==
  /\ config \in Enrollments /\ journal \in {j \in Histories : Len(j) <= 1}
  /\ cursor = None /\ portal = [e \in Enrollments |-> {}] /\ net = {}
  /\ proc = [p \in Procs |-> Idle] /\ changes = 0

\* The steps a running call takes by itself.
Step(p) ==
  \/ Bind(p) \/ Probe(p) \/ Round(p) \/ Read(p) \/ JournalChanged(p) \/ UpToDate(p)
  \/ StorePage(p) \/ Send(p) \/ HandleFailure(p) \/ Locate(p) \/ Unverifiable(p)
  \/ Adopt(p) \/ Resync(p)
Next ==
  \/ \E p \in Procs : Begin(p) \/ BeginResync(p) \/ Step(p) \/ SourceUnavailable(p) \/ Timeout(p) \/ Stop(p)
  \/ \E m \in net : Takes(m, TRUE) \/ Refuses(m) \/ ("lose" \in Happens /\ Takes(m, FALSE))
  \/ \E e \in Enrollments \cup {None} : Enroll(e)
  \/ Append1 \/ Replace

Spec == Init /\ [][Next]_vars

\* A call that runs goes on and syncs keep being started (each flush that succeeds
\* starts one); what may fail again and again, reading the journal or the answer
\* to a page that waits for it, succeeds once.
Answered(p) == \E m \in net : At(p, "posted") /\ m.from = p /\ m.page = proc[p].page /\ Takes(m, TRUE)
Fairness ==
  \A p \in Procs : /\ WF_vars(Step(p)) /\ WF_vars(Timeout(p)) /\ SF_vars(Begin(p))
                   /\ SF_vars(Read(p)) /\ SF_vars(Answered(p))

-----------------------------------------------------------------------------
\* The journal, cursor, server and every sync have their types.
TypeOK ==
  /\ config \in Enrollments \cup {None} /\ journal \in Histories
  /\ cursor \in Cursor \cup {None}
  /\ portal \in [Enrollments -> SUBSET PageId]
  /\ net \subseteq [to : Enrollments, page : Page, from : Procs]
  /\ \A p \in Procs : proc[p].st \in Cursor \cup {None} /\ proc[p].page \in Page \cup {None}
                      /\ proc[p].seen \in Histories /\ proc[p].ans \in Answer \cup {None}

\* The stored page always continues the cursor it is stored with, so the
\* validation of a restored page never refuses one this client wrote.
PendingContinues ==
  cursor # None /\ cursor.pending # None =>
    /\ cursor.pending.id.from = cursor.head
    /\ OnStream(cursor, cursor.pending)

\* "A retransmission is byte-identical": a page of the current stream that is on
\* its way, or about to be sent, with the id of the stored one has its bytes.
OneBody ==
  cursor # None /\ cursor.pending # None =>
    /\ \A m \in net : m.to = cursor.enr /\ m.page.id = cursor.pending.id => m.page = cursor.pending
    /\ \A p \in Procs : At(p, "sending") /\ proc[p].cfg = cursor.enr
                          /\ IdOf(proc[p].page) = cursor.pending.id => proc[p].page = cursor.pending

\* "Up to date" is true when it is returned: the enrollment is still the one
\* asked about, and it holds all that the call saw of the journal.
UpToDateIsTrue ==
  \A p \in Procs : At(p, "read") /\ At(p, "up-to-date")' =>
    /\ config' = proc[p].cfg
    /\ proc[p].seen = <<>> \/
         IsPrefix(proc[p].seen, HeadAt(config, [epoch |-> cursor.epoch, to |-> proc[p].seen]))

\* A terminal status stays until the operator asks for a resync or enrolls
\* again, whatever a call that started before still receives.  Only where the
\* Portal refuses one request may the answer to another one, for the same stored
\* page, replace it (README).
TerminalStays ==
  cursor # None /\ cursor.status \in Terminal =>
    \/ cursor'.status = cursor.status \/ cursor'.enr # cursor.enr
    \/ \E p \in Procs : At(p, "resync") /\ Free(p)'
    \/ /\ {"refuse", "identity"} \cap Happens # {}
       /\ \E p \in Procs : proc[p].ans # None /\ PageBound(p) /\ proc'[p] # proc[p]
SyncIsTrue == [][UpToDateIsTrue /\ TerminalStays]_vars

\* The cursor implements an acknowledged history (module AckedHistory).
AH == INSTANCE AckedHistory WITH
        NoStream <- None,
        stream <- IF cursor = None THEN None
                  ELSE [enr |-> cursor.enr, journal |-> cursor.journal, epoch |-> cursor.epoch],
        acked <- IF cursor = None THEN <<>> ELSE cursor.head,
        stored <- [s \in Streams |-> IF s.journal = None THEN <<>>
                     ELSE HeadAt(s.enr, [epoch |-> s.epoch, to |-> <<s.journal>>])]
ImplementsAckedHistory == AH!AHSpec

\* While the Portal and the syncs go on, the whole journal is acknowledged.
Exported == <>[](cursor # None /\ cursor.head = journal)
=============================================================================
