------------------------------ MODULE StopGate --------------------------------
(***************************************************************************)
(* The native hook runners around a completion: src/bin/idleproof-hook.mjs *)
(* for Claude and Codex, src/src/cursor-hook-cli.mjs for Cursor.  A hook   *)
(* records the event in IdleProof, asks DiffWitness, queues the receipt    *)
(* DiffWitness left in the worktree, and queues the completed change for   *)
(* automatic debt.  Sessions share a worktree.  DiffWitness is external:   *)
(* it blocks the trees of Bad, judges the tree it finds, and leaves the    *)
(* envelope of what it judged.                                             *)
(***************************************************************************)
EXTENDS FiniteSets, Naturals

CONSTANTS Sessions, Cursors,  \* the sessions of the worktree, those of Cursor
          Trees, Bad,         \* contents of the worktree, those DiffWitness blocks
          First,              \* the content at the beginning
          Overlap,            \* whether hooks overlap, and edits fall into them
          MaxHooks            \* bound of the hooks of one session

StopGateAssumption ==
  /\ Cursors \subseteq Sessions /\ Bad \subseteq Trees /\ First \in Trees
  /\ Overlap \in BOOLEAN /\ MaxHooks \in Nat

VARIABLES config,    \* the integration configuration of the project
          tree,      \* the worktree
          baseline,  \* what IdleProof froze when the session began
          armed,     \* what DiffWitness froze when the session began
          hook,      \* the running hook of each session
          hooks,     \* how many hooks each session has run
          envelope,  \* the change DiffWitness judged last
          completed, \* changes in IdleProof's sessions
          jobs,      \* changes in the automatic debt queue
          kept,      \* those with the receipt of DiffWitness kept for them
          measured,  \* changes whose debt was measured
          receipts   \* changes an accepted Stop of theirs left a receipt of
project == <<envelope, completed, jobs, kept, measured, receipts>>
vars == <<config, tree, baseline, armed, hook, hooks, envelope, completed, jobs, kept, measured, receipts>>

Change == [base : Trees, candidate : Trees]
NoChange == [base |-> First, candidate |-> First]   \* the empty change is never queued
Exact(c) == c.base # c.candidate
Events == {"start", "stop", "subagent", "end"}
Answers == {"none", "accept", "block", "unarmed", "failed"}
Fresh == [at |-> "idle", event |-> "start", identity |-> NoChange, answer |-> "none", blocked |-> FALSE]

Gated == config # "none"
Required == config \in {"required", "damaged"}
At(s, step) == hook[s].at = step
Calm == \A s \in Sessions : At(s, "idle")

\* ------------------------------------------------------------- the hooks
\* After the sidecar: DiffWitness is asked at a start and at a Stop.
AfterSidecar(h) == IF h.event \in {"start", "stop"} THEN "native" ELSE "receipt"
AfterThrow(s, h) == IF s \in Cursors THEN "idle" ELSE AfterSidecar(h)

Begin(s, event) ==
  /\ At(s, "idle") /\ hooks[s] < MaxHooks
  /\ Overlap \/ Calm
  /\ event = "start" \/ hooks[s] > 0
  /\ hooks' = [hooks EXCEPT ![s] = @ + 1]
  /\ hook' = [hook EXCEPT ![s] = [Fresh EXCEPT !.at = "sidecar", !.event = event]]
  /\ UNCHANGED <<config, tree, baseline, armed, project>>

\* processHookLifecycle; a completion names the content found now.
Sidecar(s) ==
  /\ At(s, "sidecar")
  /\ LET c == [base |-> baseline[s], candidate |-> tree]
         ends == hook[s].event \in {"stop", "end"} /\ baseline[s] # "unset"
         h == [hook[s] EXCEPT !.identity = IF ends THEN c ELSE NoChange]
     IN /\ hook' = [hook EXCEPT ![s] = [h EXCEPT !.at = AfterSidecar(h)]]
        /\ completed' = completed \cup (IF ends THEN {c} ELSE {})
  /\ baseline' = [baseline EXCEPT ![s] = IF @ = "unset" THEN tree ELSE @]
  /\ UNCHANGED <<config, tree, armed, hooks, envelope, jobs, kept, measured, receipts>>
SidecarThrows(s) ==
  /\ At(s, "sidecar")
  /\ LET next == AfterThrow(s, hook[s])
     IN hook' = [hook EXCEPT ![s] = IF next = "idle" THEN Fresh ELSE [@ EXCEPT !.at = next]]
  /\ UNCHANGED <<config, tree, baseline, armed, hooks, project>>

\* combineStopOutput and cursorStopOutput: whether the Stop is blocked.
Blocks(answer) == answer = "block" \/ (Required /\ answer \in {"unarmed", "failed"})
Judged(s) == [base |-> armed[s], candidate |-> tree]
Answer(s, answer) ==
  IF hook[s].event = "start"
  THEN hook' = [hook EXCEPT ![s] = Fresh]
  ELSE hook' = [hook EXCEPT ![s] = [@ EXCEPT !.at = "receipt", !.answer = answer, !.blocked = Blocks(answer)]]

\* Without a configuration DiffWitness does not run; a damaged one, or a DiffWitness that fails, gives no answer.
NotAsked(s) == At(s, "native") /\ ~Gated /\ Answer(s, "none") /\ UNCHANGED <<config, tree, baseline, armed, hooks, project>>
NativeFails(s) == At(s, "native") /\ Gated /\ Answer(s, "failed") /\ UNCHANGED <<config, tree, baseline, armed, hooks, project>>
Arms(s) ==
  /\ At(s, "native") /\ config \in {"optional", "required"} /\ hook[s].event = "start"
  /\ armed' = [armed EXCEPT ![s] = IF @ = "unset" THEN tree ELSE @]
  /\ Answer(s, "accept") /\ UNCHANGED <<config, tree, baseline, hooks, project>>
Judges(s) ==
  /\ At(s, "native") /\ config \in {"optional", "required"} /\ hook[s].event = "stop"
  /\ IF armed[s] = "unset" THEN Answer(s, "unarmed") /\ UNCHANGED envelope
     ELSE /\ Answer(s, IF tree \in Bad THEN "block" ELSE "accept")
          /\ envelope' = Judged(s)
  /\ receipts' = receipts \cup {c \in {Judged(s)} : armed[s] # "unset" /\ tree \notin Bad /\ c = hook[s].identity}
  /\ UNCHANGED <<config, tree, baseline, armed, hooks, completed, jobs, kept, measured>>

\* ------------------------------- queueMatchingDiffWitnessAssurance, scheduleAutoDebt
\* mutant: SessionEnd admits its completion whatever the project has configured
EndAdmits(h) == IF h.event = "stop" THEN ~h.blocked ELSE h.event = "end"
\* The completion that may enter the queue: of an accepted Stop, or of a SessionEnd where nothing judges Stops.
Admits(h) == IF h.event = "stop" THEN ~h.blocked ELSE h.event = "end" /\ ~Gated
Offered(h) == {c \in {h.identity} : Admits(h) /\ Exact(c)}
\* The receipt is kept for a job already queued, or for the completion offered, and settles it once Portal has it.
Keeps(s) == {c \in {envelope} \cap completed : c \notin measured /\ c \in jobs \cup Offered(hook[s])}
Receipt(s, taken) ==
  /\ At(s, "receipt")
  /\ LET settles == {c \in {envelope} \cap completed : Exact(c) /\ taken}
     IN /\ jobs' = (jobs \cup Keeps(s)) \ settles
        /\ kept' = (kept \cup Keeps(s)) \ settles
        /\ measured' = measured \cup settles
  /\ hook' = [hook EXCEPT ![s].at = "job"]
  /\ UNCHANGED <<config, tree, baseline, armed, hooks, envelope, completed, receipts>>
Schedule(s) ==
  /\ At(s, "job")
  /\ jobs' = jobs \cup (Offered(hook[s]) \ measured)
  /\ hook' = [hook EXCEPT ![s] = Fresh]
  /\ UNCHANGED <<config, tree, baseline, armed, hooks, envelope, completed, kept, measured, receipts>>

\* The worker of automatic debt: a kept receipt is delivered, otherwise Core measures.
Work(c) ==
  /\ c \in jobs /\ jobs' = jobs \ {c} /\ kept' = kept \ {c} /\ measured' = measured \cup {c}
  /\ UNCHANGED <<config, tree, baseline, armed, hook, hooks, envelope, completed, receipts>>
Edit(t) ==
  /\ t # tree /\ (Overlap \/ Calm) /\ tree' = t
  /\ UNCHANGED <<config, baseline, armed, hook, hooks, project>>

Init ==
  /\ config \in {"none", "optional", "required", "damaged"} /\ tree = First
  /\ baseline = [s \in Sessions |-> "unset"] /\ armed = [s \in Sessions |-> "unset"]
  /\ hook = [s \in Sessions |-> Fresh] /\ hooks = [s \in Sessions |-> 0]
  /\ envelope = NoChange /\ completed = {} /\ jobs = {} /\ kept = {} /\ measured = {} /\ receipts = {}
Next ==
  \/ \E s \in Sessions : \/ \E event \in Events : Begin(s, event)
                         \/ Sidecar(s) \/ SidecarThrows(s)
                         \/ NotAsked(s) \/ NativeFails(s) \/ Arms(s) \/ Judges(s)
                         \/ \E taken \in BOOLEAN : Receipt(s, taken)
                         \/ Schedule(s)
  \/ \E c \in jobs : Work(c)
  \/ \E t \in Trees : Edit(t)
Spec == Init /\ [][Next]_vars

\* The state is well formed, and what is kept is kept for a queued change.
TypeOK ==
  /\ config \in {"none", "optional", "required", "damaged"} /\ tree \in Trees
  /\ {baseline, armed} \subseteq [Sessions -> Trees \cup {"unset"}]
  /\ hook \in [Sessions -> [at : {"idle", "sidecar", "native", "receipt", "job"}, event : Events,
                           identity : Change, answer : Answers, blocked : BOOLEAN]]
  /\ hooks \in [Sessions -> 0..MaxHooks] /\ envelope \in Change
  /\ UNION {completed, jobs, measured, receipts} \subseteq Change /\ kept \subseteq jobs

\* Where the project requires DiffWitness, or its configuration cannot be read,
\* a Stop of Claude or Codex ends blocked unless DiffWitness accepted it, also
\* when the sidecar throws before (docs/PM_P0_NATIVE_FAILURE.md).
StopsAreJudged ==
  \A s \in Sessions \ Cursors :
       (~At(s, "idle") /\ At(s, "idle")' /\ hook[s].event = "stop" /\ Required)
         => hook[s].blocked \/ hook[s].answer = "accept"

\* Where DiffWitness is required, a change it blocks never waits for a
\* measurement: neither its Stop, nor the SessionEnd that follows, nor a Stop
\* of another session queues it.
QueuedWasAccepted == Required => \A c \in jobs : c.candidate \notin Bad

\* A change that an accepted Stop left a receipt of enters the queue with it, so
\* that Core does not measure it again (docs/AUTO_DEBT.md).
QueuedWithItsReceipt ==
  \A c \in (jobs' \ jobs) \cap receipts : c \in kept'
=============================================================================
