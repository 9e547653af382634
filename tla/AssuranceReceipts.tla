-------------------------- MODULE AssuranceReceipts ---------------------------
(***************************************************************************)
(* Assurance receipts, src/src/portal-assurance.mjs: IDE hooks, the debt   *)
(* worker and `portal assurance` send the measurement of a change, each    *)
(* having rebuilt it under a new snapshot id.  One file remembers which    *)
(* receipt a measurement became; it is looked up and changed under an      *)
(* owner-verified lock (module OwnedLock), while flushes empty the         *)
(* delivery queue (module PortalQueue) without that lock.                  *)
(***************************************************************************)
EXTENDS Naturals, Sequences, FiniteSets, Subsequences

CONSTANTS Procs, Measurements, Dests, None,
          MaxBodies,  \* MAX_ASSURANCE_BODIES, 64 in the code
          MaxQueue,   \* MAX_QUEUE of the delivery queue, 200 in the code
          MaxBuilt,   \* bound of the snapshots built
          MaxDeaths   \* bound of the processes that die

AssuranceAssumption == /\ None \notin Procs \cup Dests \cup Measurements \cup {"pending", "confirmed"}
                       /\ MaxBodies \in Nat /\ MaxQueue \in Nat
                       /\ MaxBuilt \in Nat /\ MaxDeaths \in Nat

VARIABLES sent,    \* portal-assurance-sent.json
          queue,   \* receipts in the delivery queue
          got,     \* receipts each destination holds
          config,  \* the enrolled destination, or None
          holder,  \* the owner of the assurance lock, or None
          proc, built, deaths,
          ever     \* history: receipts the delivery queue has accepted
vars == <<sent, queue, got, config, holder, proc, built, deaths, ever>>

Receipt == [m : Measurements, id : 1..MaxBuilt]
Entry == [m : Measurements, id : 1..MaxBuilt, body : BOOLEAN, pending : BOOLEAN]
Idle == [pc |-> "idle", receipt |-> None, prev |-> None, accepted |-> FALSE]
At(p, pc) == proc[p].pc = pc
Becomes(p, r) == proc' = [proc EXCEPT ![p] = r]

-----------------------------------------------------------------------------
(* The record of what was sent                                             *)

\* writeAssuranceSent: bodies of the last confirmed receipts and of all pending.
Bounded(s) ==
  [i \in DOMAIN s |-> [s[i] EXCEPT !.body = @ /\
     (s[i].pending \/ Cardinality({j \in DOMAIN s : j > i /\ ~s[j].pending}) < MaxBodies)]]

Without(m) == Sub(sent, {i \in DOMAIN sent : sent[i].m # m})
Record(r, pending) ==
  sent' = Bounded(Append(Without(r.m), [m |-> r.m, id |-> r.id, body |-> TRUE, pending |-> pending]))

Known(m) == \E i \in DOMAIN sent : sent[i].m = m
Previous(m) == sent[CHOOSE i \in DOMAIN sent : sent[i].m = m]
ReceiptOf(e) == [m |-> e.m, id |-> e.id]

-----------------------------------------------------------------------------
(* queueAssuranceReceipt                                                   *)

\* The snapshot is built before the lock is taken: its id is always a new one.
Build(p, m) ==
  /\ At(p, "idle") /\ built < MaxBuilt /\ built' = built + 1
  /\ Becomes(p, [Idle EXCEPT !.pc = "want", !.receipt = [m |-> m, id |-> built + 1]])
  /\ UNCHANGED <<sent, queue, got, config, holder, deaths, ever>>

Enters(p) == holder = None
Enter(p) ==
  /\ At(p, "want") /\ Enters(p)
  /\ holder' = p /\ Becomes(p, [proc[p] EXCEPT !.pc = "lookup"])
  /\ UNCHANGED <<sent, queue, got, config, built, deaths, ever>>

FirstTime(p) ==
  /\ At(p, "lookup") /\ ~Known(proc[p].receipt.m)
  /\ Becomes(p, [proc[p] EXCEPT !.pc = "record"])
  /\ UNCHANGED <<sent, queue, got, config, holder, built, deaths, ever>>

\* The body of the first receipt is still kept: it is sent as it is.
Resend(p) ==
  /\ At(p, "lookup") /\ Known(proc[p].receipt.m)
  /\ LET e == Previous(proc[p].receipt.m)
     IN /\ e.body
        /\ Becomes(p, [proc[p] EXCEPT !.pc = "queue", !.receipt = ReceiptOf(e),
                                      !.prev = IF e.pending THEN "pending" ELSE "confirmed"])
  /\ UNCHANGED <<sent, queue, got, config, holder, built, deaths, ever>>

\* It is not kept, but the delivery queue still holds it.
Recover(p) ==
  /\ At(p, "lookup") /\ Known(proc[p].receipt.m)
  /\ LET e == Previous(proc[p].receipt.m)
     IN /\ ~e.body /\ ReceiptOf(e) \in queue
        /\ Becomes(p, [proc[p] EXCEPT !.pc = "retain", !.receipt = ReceiptOf(e), !.prev = "confirmed"])
  /\ UNCHANGED <<sent, queue, got, config, holder, built, deaths, ever>>

\* Neither: the caller is told, and nothing is sent.
NotRetained(p) ==
  /\ At(p, "lookup") /\ Known(proc[p].receipt.m)
  /\ LET e == Previous(proc[p].receipt.m)
     IN ~e.body /\ ReceiptOf(e) \notin queue /\ Becomes(p, [proc[p] EXCEPT !.pc = "returned", !.receipt = ReceiptOf(e)])
  /\ holder' = None
  /\ UNCHANGED <<sent, queue, got, config, built, deaths, ever>>

SkipPending(p) == UNCHANGED sent  \* mutant: recorded only once it is queued
RecordPending(p) == Record(proc[p].receipt, TRUE)
RecordFirst(p) ==
  /\ At(p, "record")
  /\ RecordPending(p) /\ Becomes(p, [proc[p] EXCEPT !.pc = "queue"])
  /\ UNCHANGED <<queue, got, config, holder, built, deaths, ever>>

Retain(p) ==
  /\ At(p, "retain")
  /\ Record(proc[p].receipt, FALSE) /\ Becomes(p, [proc[p] EXCEPT !.pc = "queue"])
  /\ UNCHANGED <<queue, got, config, holder, built, deaths, ever>>

Answered(p, accepted) == Becomes(p, [proc[p] EXCEPT !.pc = "confirm", !.accepted = accepted])

\* queuePortalSnapshot (module PortalQueue): queued, a duplicate, or marked as held.
Accept(p) ==
  /\ At(p, "queue") /\ config # None
  /\ \/ queue' = queue \cup {proc[p].receipt}
        /\ (proc[p].receipt \in queue \/ Cardinality(queue) < MaxQueue)
     \/ proc[p].receipt \in got[config] /\ UNCHANGED queue
  /\ ever' = ever \cup {proc[p].receipt}
  /\ Answered(p, TRUE)
  /\ UNCHANGED <<sent, got, config, holder, built, deaths>>

Refuse(p) ==
  /\ At(p, "queue")
  /\ (config = None \/ (proc[p].receipt \notin queue /\ Cardinality(queue) = MaxQueue))
  /\ Answered(p, FALSE)
  /\ UNCHANGED <<sent, queue, got, config, holder, built, deaths, ever>>

Forgets(p) == ~proc[p].accepted /\ proc[p].prev = None
Confirm(p) ==
  /\ At(p, "confirm")
  /\ CASE Forgets(p) -> sent' = Bounded(Without(proc[p].receipt.m))
       [] proc[p].accepted /\ proc[p].prev # "confirmed" -> Record(proc[p].receipt, FALSE)
       [] OTHER -> UNCHANGED sent
  /\ holder' = None /\ Becomes(p, [proc[p] EXCEPT !.pc = "returned"])
  /\ UNCHANGED <<queue, got, config, built, deaths, ever>>

\* What syncPortalAssurance or the hook does with the answer is over.
Return(p) ==
  /\ At(p, "returned") /\ Becomes(p, Idle)
  /\ UNCHANGED <<sent, queue, got, config, holder, built, deaths, ever>>

\* A process dies; the lock of a dead owner is recovered (module OwnedLock).
Dies(p) ==
  /\ ~At(p, "idle") /\ deaths < MaxDeaths /\ deaths' = deaths + 1
  /\ Becomes(p, Idle) /\ holder' = IF holder = p THEN None ELSE holder
  /\ UNCHANGED <<sent, queue, got, config, built, ever>>

-----------------------------------------------------------------------------
(* The delivery queue and the enrollment, by their own modules             *)

Deliver(r) ==
  /\ config # None /\ r \in queue
  /\ got' = [got EXCEPT ![config] = @ \cup {r}]
  /\ queue' \in {queue, queue \ {r}}
  /\ UNCHANGED <<sent, config, holder, proc, built, deaths, ever>>

Enroll(d) ==
  /\ config' = d
  /\ UNCHANGED <<sent, queue, got, holder, proc, built, deaths, ever>>

Init == /\ sent = <<>> /\ queue = {} /\ got = [d \in Dests |-> {}] /\ config \in Dests \cup {None}
        /\ holder = None /\ proc = [p \in Procs |-> Idle] /\ built = 0 /\ deaths = 0 /\ ever = {}

Next == \/ \E p \in Procs : \/ \E m \in Measurements : Build(p, m)
                            \/ Enter(p) \/ FirstTime(p) \/ Resend(p) \/ Recover(p) \/ NotRetained(p)
                            \/ RecordFirst(p) \/ Retain(p) \/ Accept(p) \/ Refuse(p) \/ Confirm(p)
                            \/ Return(p) \/ Dies(p)
        \/ \E r \in queue : Deliver(r)
        \/ \E d \in Dests \cup {None} : Enroll(d)
Spec == Init /\ [][Next]_vars

-----------------------------------------------------------------------------
\* What is remembered as sent is a sequence of entries; receipts are queued or held.
TypeOK == /\ sent \in Seq(Entry) /\ queue \subseteq Receipt /\ got \in [Dests -> SUBSET Receipt]
          /\ config \in Dests \cup {None} /\ holder \in Procs \cup {None}
          /\ built \in 0..MaxBuilt /\ deaths \in 0..MaxDeaths /\ ever \subseteq Receipt
          /\ proc \in [Procs -> [pc : {"idle", "want", "lookup", "record", "retain", "queue", "confirm", "returned"},
                                 receipt : Receipt \cup {None}, prev : {None, "pending", "confirmed"},
                                 accepted : BOOLEAN]]

\* One measurement is one receipt, whichever route sent it, through deaths at
\* any step, refusals, and new enrollments.
OneReceipt == \A r, s \in ever : r.m = s.m => r.id = s.id

\* Every receipt that ever entered the queue is remembered under its own id,
\* also between the queue and the confirmation.
SentIsRemembered == \A r \in ever : \E i \in DOMAIN sent : ReceiptOf(sent[i]) = r

\* The body of a receipt that may never have entered the queue is kept, however
\* many later receipts were confirmed; confirmed bodies stay bounded.
OnlyCopyKept ==
  /\ \A i \in DOMAIN sent : sent[i].pending => sent[i].body
  /\ Cardinality({i \in DOMAIN sent : sent[i].body /\ ~sent[i].pending}) <= MaxBodies

\* A caller told that its receipt is accepted, and which settles the change's
\* debt job on it, can rely on it: it is queued or at a destination.
AcceptedIsHeld ==
  \A p \in Procs : At(p, "returned") /\ proc[p].accepted
    => proc[p].receipt \in queue \cup UNION {got[d] : d \in Dests}

\* One measurement is one receipt, whatever dies, fills up or is enrolled again
\* in between; the only copy of a body is kept; and an accepted receipt is
\* queued or delivered.
ReceiptsAreOnce == OneReceipt /\ SentIsRemembered /\ OnlyCopyKept /\ AcceptedIsHeld
=============================================================================
