--------------------------- MODULE ProvenanceChain ----------------------------
(***************************************************************************)
(* The flight recorder, src/src/provenance.mjs: under the ledger lock an   *)
(* append reads the checkpoint, writes one line that names the hash of the *)
(* line before, and replaces the checkpoint.  Verification reads both      *)
(* files without the lock, through caches keyed by the files' stamps, and  *)
(* a checkpoint is signed on its verdict.  A hash is a number that no two  *)
(* records share; a stamp is the number of changes of a file.              *)
(***************************************************************************)
EXTENDS AgeLock, Sequences

CONSTANTS MaxEvents,   \* bound of the lines written
          MaxFailures, \* bound of the failed writes
          MaxTampers   \* bound of the edits by hand

ChainAssumption == MaxEvents \in Nat /\ MaxFailures \in Nat /\ MaxTampers \in Nat

VARIABLES log,       \* provenance events: [seq, prev, hash, good]
          chain,     \* the checkpoint: [len, head]
          stamp,     \* stamps of the two files
          work,      \* what each appending process does, and the checkpoint it read
          reader,    \* a verifying process with its caches
          signed,    \* checkpoints signed
          returned,  \* history: [seq, hash] of the appends that returned
          wasValid,  \* history: checkpoints that were true of the log
          failures, tampers, torn
chainVars == <<log, chain, stamp, work, reader, signed, returned, wasValid, failures, tampers, torn>>
vars == <<lockVars, chainVars>>

Zero == 0  \* ZERO_HASH
Checkpoint == [len : 0..MaxEvents, head : 0..MaxEvents]
Empty == [len |-> 0, head |-> Zero]
Record == [seq : 1..MaxEvents, prev : 0..MaxEvents, hash : 1..MaxEvents, good : BOOLEAN]
NoWork == [pc |-> "none", at |-> Empty]  \* at: the checkpoint read, then the one to write
NoVerdict == [stamp |-> <<0, 0>>, ok |-> FALSE, at |-> Empty]

Last(l) == IF l = <<>> THEN Zero ELSE l[Len(l)].hash
Linked(l) == \A i \in DOMAIN l : l[i].seq = i /\ l[i].prev = Last(SubSeq(l, 1, i - 1)) /\ l[i].good
\* verifyProvenanceChain, over what was read.
Valid(l, c) == Linked(l) /\ c.len = Len(l) /\ c.head = Last(l)
TouchesLog == stamp' = <<stamp[1] + 1, stamp[2]>>
TouchesChain == stamp' = <<stamp[1], stamp[2] + 1>>

-----------------------------------------------------------------------------
(* appendProvenanceEvent                                                   *)

Doing(p, pc) == p \notin gone /\ work[p].pc = pc
Read == chain
Begin(p) ==
  /\ Take(p) /\ work' = [work EXCEPT ![p] = [pc |-> "line", at |-> Read]]
  /\ UNCHANGED <<log, chain, stamp, reader, signed, returned, wasValid, failures, tampers, torn>>

NextRecord(p) == [seq |-> work[p].at.len + 1, prev |-> work[p].at.head, hash |-> stamp[1] + 1, good |-> TRUE]
AppendLine(p) ==
  /\ Doing(p, "line") /\ Len(log) < MaxEvents /\ stamp[1] < MaxEvents
  /\ log' = Append(log, NextRecord(p)) /\ TouchesLog
  /\ work' = [work EXCEPT ![p] = [pc |-> "checkpoint", at |-> [len |-> @.at.len + 1, head |-> stamp[1] + 1]]]
  /\ UNCHANGED <<lockVars, chain, reader, signed, returned, wasValid, failures, tampers, torn>>

WriteCheckpoint(p) ==
  /\ Doing(p, "checkpoint")
  /\ chain' = work[p].at /\ TouchesChain
  /\ work' = [work EXCEPT ![p].pc = "done"]
  /\ returned' = returned \cup {[seq |-> work[p].at.len, hash |-> work[p].at.head]}
  /\ wasValid' = IF Valid(log, work[p].at) THEN wasValid \cup {work[p].at} ELSE wasValid
  /\ UNCHANGED <<lockVars, log, reader, signed, failures, tampers, torn>>

\* A write fails, or the process dies: the line stays without its checkpoint.
Tears(p) == torn' = (torn \/ Doing(p, "checkpoint"))
Fails(p) ==
  /\ Doing(p, "line") \/ Doing(p, "checkpoint")
  /\ failures < MaxFailures /\ failures' = failures + 1
  /\ work' = [work EXCEPT ![p].pc = "done"] /\ Tears(p)
  /\ UNCHANGED <<lockVars, log, chain, stamp, reader, signed, returned, wasValid, tampers>>

End(p) ==
  /\ Doing(p, "done") /\ Leave(p) /\ work' = [work EXCEPT ![p] = NoWork]
  /\ UNCHANGED <<log, chain, stamp, reader, signed, returned, wasValid, failures, tampers, torn>>

AppenderDies(p) ==
  /\ Dies(p) /\ Tears(p)
  /\ UNCHANGED <<log, chain, stamp, work, reader, signed, returned, wasValid, failures, tampers>>

LockStep ==
  /\ Ages \/ \E p \in Procs : Want(p) \/ GivesUp(p) \/ FindStale(p) \/ Evict(p)
  /\ UNCHANGED chainVars

\* Someone edits or removes a line of the log.
Tamper(i) ==
  /\ tampers < MaxTampers /\ tampers' = tampers + 1 /\ stamp[1] < MaxEvents /\ TouchesLog
  /\ log' \in {[log EXCEPT ![i].good = FALSE], SubSeq(log, 1, i - 1) \o SubSeq(log, i + 1, Len(log))}
  /\ UNCHANGED <<lockVars, chain, work, reader, signed, returned, wasValid, failures, torn>>

-----------------------------------------------------------------------------
(* verifyProvenanceChain, signedCheckpoint                                 *)

Reads(r) == reader' = r /\ UNCHANGED <<lockVars, log, chain, stamp, work, signed, returned, wasValid, failures, tampers, torn>>

Verify ==
  /\ reader.pc = "idle"
  /\ Reads([reader EXCEPT !.stamp = stamp,
                          !.pc = IF reader.verdict.stamp = stamp THEN "answered" ELSE "events"])

\* cachedEvents: the stamp of the log, then, when it changed, the log.
StampEvents ==
  /\ reader.pc = "events"
  /\ Reads([reader EXCEPT !.eventsStamp = stamp[1], !.pc = IF reader.eventsStamp = stamp[1] THEN "chain" ELSE "read"])
ReadEvents ==
  /\ reader.pc = "read"
  /\ Reads([reader EXCEPT !.events = log, !.pc = "chain"])

\* The verdict is kept under the stamps read first.
KeyNow == stamp  \* mutant: the verdict is kept under the stamps after the reading
Key == reader.stamp
ReadChain ==
  /\ reader.pc = "chain"
  /\ Reads([reader EXCEPT !.pc = "answered",
              !.verdict = [stamp |-> Key, ok |-> Valid(reader.events, chain),
                           at |-> [len |-> Len(reader.events), head |-> Last(reader.events)]]])

Signs == reader.verdict.ok
Sign ==
  /\ reader.pc = "answered" /\ Signs
  /\ signed' = signed \cup {reader.verdict.at}
  /\ reader' = [reader EXCEPT !.pc = "idle"]
  /\ UNCHANGED <<lockVars, log, chain, stamp, work, returned, wasValid, failures, tampers, torn>>
Answer == reader.pc = "answered" /\ Reads([reader EXCEPT !.pc = "idle"])

Init == /\ LockInit /\ log = <<>> /\ chain = Empty /\ stamp = <<0, 0>>
        /\ work = [p \in Procs |-> NoWork] /\ signed = {} /\ returned = {} /\ wasValid = {Empty}
        /\ reader = [pc |-> "idle", stamp |-> <<0, 0>>, eventsStamp |-> 0, events |-> <<>>,
                     verdict |-> [NoVerdict EXCEPT !.ok = TRUE]]
        /\ failures = 0 /\ tampers = 0 /\ torn = FALSE

Next == \/ LockStep
        \/ \E p \in Procs : Begin(p) \/ AppendLine(p) \/ WriteCheckpoint(p) \/ Fails(p) \/ End(p) \/ AppenderDies(p)
        \/ \E i \in DOMAIN log : Tamper(i)
        \/ Verify \/ StampEvents \/ ReadEvents \/ ReadChain \/ Sign \/ Answer
Spec == Init /\ [][Next]_vars

-----------------------------------------------------------------------------
\* The log is a sequence of records and the chain a checkpoint of it.
TypeOK == /\ LockTypeOK /\ log \in Seq(Record) /\ chain \in Checkpoint
          /\ stamp \in (0..MaxEvents) \X (0..MaxEvents)
          /\ work \in [Procs -> [pc : {"none", "line", "checkpoint", "done"}, at : Checkpoint]]
          /\ reader.events \in Seq(Record) /\ reader.verdict.at \in Checkpoint
          /\ signed \subseteq Checkpoint /\ torn \in BOOLEAN

\* As long as nobody edited the log and no append was torn, every append that
\* returned is in the log at its own sequence, and the chain is valid whenever
\* no append is in between its two writes.
Untouched == tampers = 0 /\ ~torn
ChainIntact == Untouched =>
  /\ \A e \in returned : e.seq \in DOMAIN log /\ log[e.seq].hash = e.hash
  /\ (\A p \in Procs : ~Doing(p, "checkpoint")) => Valid(log, chain)

\* A trace whose checkpoint was lost is never valid again: no later append
\* hides the torn one.
TornStaysVisible == torn /\ tampers = 0 => ~Valid(log, chain)

\* A cached verdict whose stamps are still those of the files is the verdict of
\* the files as they are, whatever was written while it was being computed.
FreshVerdictTrue == reader.verdict.stamp = stamp => reader.verdict.ok = Valid(log, chain)

\* As long as nobody edits the log, a checkpoint is signed only if it was once
\* the true state of the log, although the log and the checkpoint are read in
\* separate steps and through two caches.
SignedWasTrue == tampers = 0 => signed \subseteq wasValid
=============================================================================
