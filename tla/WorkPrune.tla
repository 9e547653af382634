---- MODULE WorkPrune ----
(***************************************************************************)
(* The directories of kept measurements beside the automatic debt queue,   *)
(* and their pruning, which holds no lock: it reads the queue, lists the   *)
(* directories, asks the age of each and removes the oldest one by one,    *)
(* while hooks and the worker admit jobs and keep measurements.            *)
(* AutoDebtQueue takes a whole prune as one step; here it is four.         *)
(***************************************************************************)
EXTENDS Naturals, FiniteSets, SequencesExt, Subsequences

CONSTANTS
  Changes,   \* change ids of this session
  Old,       \* directories of changes measured before, oldest last
  Pruners,   \* processes that prune: the worker, hooks and `portal assurance`
  Keep,      \* KEPT_WORK_DIRS: 64 in the code
  Drops      \* a failed job may leave the list (MAX_FAILED newer failures)

WorkPruneAssumption ==
  /\ Old \in Seq(ToSet(Old)) /\ IsInjective(Old) /\ Changes \cap ToSet(Old) = {} /\ Keep \in Nat \ {0} /\ Drops \in BOOLEAN

VARIABLES
  jobs,      \* changes listed in the queue
  measured,  \* changes the queue records as measured
  dirs,      \* the directories, the latest modified first
  kept,      \* changes whose directory holds a measurement
  pruner,    \* what each pruner has read
  burst,     \* directories made or modified since a pruner began
  lapsed     \* history: changes dropped from the list with their directory left behind

vars == <<jobs, measured, dirs, kept, pruner, burst, lapsed>>

Idle == [pc |-> "idle", queued |-> {}, names |-> {}, entries |-> << >>]
Quiet(pr) == \A p \in Pruners : pr[p].pc = "idle"

\* The directories but d, and those whose change is in names.
Without(d) == Sub(dirs, {i \in DOMAIN dirs : dirs[i] # d})
Among(names) == Sub(dirs, {i \in DOMAIN dirs : dirs[i] \in names})

(* A directory modified now is the latest; fewer than Keep of them are     *)
(* modified during one prune (bound of the model, 64 in the code).         *)
Touch(c) == /\ burst < Keep
            /\ dirs' = <<c>> \o Without(c)
            /\ burst' = IF Quiet(pruner) THEN 0 ELSE burst + 1

Admit(c) == /\ c \notin jobs \cup measured
            /\ jobs' = jobs \cup {c}
            /\ UNCHANGED <<measured, dirs, kept, pruner, burst, lapsed>>

(* keepNativeMeasurement: the job is admitted, if it is not there, and its *)
(* measurement kept in one hold of the queue lock.                         *)
KeepNative(c) == /\ c \notin measured \cup kept
                 /\ jobs' = jobs \cup {c}
                 /\ kept' = kept \cup {c}
                 /\ Touch(c)
                 /\ UNCHANGED <<measured, pruner, lapsed>>

(* measureAndQueue makes the directory before it runs Core, and keeps the  *)
(* measurement after.                                                      *)
Prepare(c) == /\ c \in jobs /\ c \notin kept
              /\ Touch(c)
              /\ UNCHANGED <<jobs, measured, kept, pruner, lapsed>>
Measure(c) == /\ c \in (jobs \cap ToSet(dirs)) \ kept
              /\ kept' = kept \cup {c}
              /\ Touch(c)
              /\ UNCHANGED <<jobs, measured, pruner, lapsed>>

(* A job without a measurement fails for good, and later failures push it  *)
(* out of the list; its directory stays.                                   *)
Drop(c) == /\ Drops /\ c \in jobs \ kept
           /\ jobs' = jobs \ {c}
           /\ lapsed' = lapsed \cup ({c} \cap ToSet(dirs))
           /\ UNCHANGED <<measured, dirs, kept, pruner, burst>>

(* The worker's job is delivered: queueKeptMeasurement prunes, then the    *)
(* outcome takes the job off the list.                                     *)
Done(c) == /\ c \in jobs \cap kept
           /\ jobs' = jobs \ {c} /\ measured' = measured \cup {c}
           /\ UNCHANGED <<dirs, kept, pruner, burst, lapsed>>

(* settleJob of a change measured manually or by the IDE; then the prune.  *)
Settle(p, c) == /\ pruner[p].pc = "idle" /\ c \notin measured
                /\ jobs' = jobs \ {c} /\ measured' = measured \cup {c}
                /\ pruner' = [pruner EXCEPT ![p].pc = "queue"]
                /\ UNCHANGED <<dirs, kept, burst, lapsed>>

WorkerPrunes(p) == /\ pruner[p].pc = "idle" /\ jobs \cap kept # {}
                   /\ pruner' = [pruner EXCEPT ![p].pc = "queue"]
                   /\ UNCHANGED <<jobs, measured, dirs, kept, burst, lapsed>>

----
Listed == jobs
ReadQueue(p) == /\ pruner[p].pc = "queue"
                /\ pruner' = [pruner EXCEPT ![p].pc = "names", ![p].queued = Listed]
                /\ UNCHANGED <<jobs, measured, dirs, kept, burst, lapsed>>

ReadDir(p) == /\ pruner[p].pc = "names"
              /\ pruner' = [pruner EXCEPT ![p].pc = "ages", ![p].names = ToSet(dirs) \ pruner[p].queued]
              /\ UNCHANGED <<jobs, measured, dirs, kept, burst, lapsed>>

Beyond(names) == SubSeq(Among(names), Keep + 1, Len(Among(names)))

End(p) == /\ pruner' = [pruner EXCEPT ![p] = Idle]
          /\ burst' = IF Quiet(pruner') THEN 0 ELSE burst

(* statSync of a directory that another prune has removed ends this one.   *)
Stat(p) == /\ pruner[p].pc = "ages"
           /\ IF pruner[p].names \subseteq ToSet(dirs)
              THEN /\ pruner' = [pruner EXCEPT ![p].pc = "remove", ![p].entries = Beyond(pruner[p].names)]
                   /\ UNCHANGED burst
              ELSE End(p)
           /\ UNCHANGED <<jobs, measured, dirs, kept, lapsed>>

RemoveNext(p) == /\ pruner[p].pc = "remove"
                 /\ IF pruner[p].entries = << >>
                    THEN /\ End(p) /\ UNCHANGED <<dirs, kept>>
                    ELSE /\ dirs' = Without(Head(pruner[p].entries))
                         /\ kept' = kept \ {Head(pruner[p].entries)}
                         /\ pruner' = [pruner EXCEPT ![p].entries = Tail(@)]
                         /\ UNCHANGED burst
                 /\ UNCHANGED <<jobs, measured, lapsed>>

----
Init == /\ jobs = {} /\ burst = 0 /\ lapsed = {}
        /\ dirs = Old /\ kept = ToSet(Old) /\ measured = ToSet(Old)
        /\ pruner = [p \in Pruners |-> Idle]

Next == \/ \E c \in Changes : Admit(c) \/ KeepNative(c) \/ Prepare(c) \/ Measure(c) \/ Drop(c) \/ Done(c)
        \/ \E p \in Pruners : \/ WorkerPrunes(p) \/ ReadQueue(p) \/ ReadDir(p) \/ Stat(p) \/ RemoveNext(p)
                              \/ \E c \in Changes : Settle(p, c)
Spec == Init /\ [][Next]_vars

----
(* Types; a measurement is in a directory, and no directory is listed twice. *)
TypeOK == /\ jobs \subseteq Changes /\ measured \subseteq Changes \cup ToSet(Old)
          /\ kept \subseteq ToSet(dirs)
          /\ Cardinality(ToSet(dirs)) = Len(dirs)
          /\ burst \in 0 .. Keep /\ lapsed \subseteq Changes

(* The measurement kept for a job of the queue, which is delivered without  *)
(* running Core again, is removed only by a prune that read the queue while *)
(* the change had left it: after an earlier failure for good, which dropped *)
(* it and left its directory.  A change queued for the first time, between  *)
(* any two steps of any prunes, loses nothing.                              *)
KeptForJob ==
  \A c \in (jobs \cap kept) \ kept' :
    c \in lapsed /\ \E p \in Pruners : pruner[p].pc = "remove" /\ c \notin pruner[p].queued

(* While no change was dropped with its directory left, a prune removes a   *)
(* directory only when Keep later ones stay.                                *)
LatestStay ==
  \A i \in DOMAIN dirs : lapsed = {} /\ dirs[i] \notin ToSet(dirs') => i > Keep
====
