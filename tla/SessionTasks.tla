----------------------------- MODULE SessionTasks -----------------------------
(***************************************************************************)
(* What the hooks keep of each IDE session in the state file: its baseline *)
(* tree, its task and earlier tasks, the last completion, and the records  *)
(* of completed changes with the task they came from (src/src/hook.mjs,    *)
(* task.mjs, change-identity.mjs).  One action is one locked state update  *)
(* of processHookLifecycle; a change id is the pair of its trees.  What    *)
(* the same update does to concepts and features is module FeatureMemory.  *)
(***************************************************************************)
EXTENDS FiniteSets, Sequences, Naturals, Subsequences

CONSTANTS Sessions,
          Trees,        \* contents of the worktree
          Missing,      \* null
          Unavailable,  \* an identity Git could not give
          MaxHistory,   \* MAX_HISTORY: 12
          MaxCompleted, \* 20
          MaxSessions,  \* 30
          MaxPrompts    \* bound of the prompts of a session

\* from: history, the tree when it started
Task == [ordinal : 1..MaxPrompts, focus : 1..MaxPrompts, done : BOOLEAN, from : Trees]

SessionTasksAssumption ==
  /\ Missing # Unavailable /\ {Missing, Unavailable} \cap Trees = {} /\ Missing \notin Task
  /\ {MaxHistory, MaxCompleted, MaxSessions, MaxPrompts} \subseteq Nat \ {0}

VARIABLES tree,     \* the worktree, edited by anybody
          session,  \* each session the state file knows
          recent,   \* the sessions it knows, the one with the latest event last
          owner     \* history: the task whose turn made each session's last completed change
vars == <<tree, session, recent, owner>>

ChangeId == Trees \X Trees
Completed == [change : ChangeId, task : Task \cup {Missing}]
NewSession == [baseline |-> Missing, task |-> Missing, taskHistory |-> <<>>, prompts |-> 0,
               change |-> Missing, completed |-> <<>>]

LastOf(q, n) == SubSeq(q, IF Len(q) > n THEN Len(q) - n + 1 ELSE 1, Len(q))
Records(r) == {r.completed[i] : i \in DOMAIN r.completed}

-----------------------------------------------------------------------------
(* ensureSession, freezeCompletedChange, trimSessions                      *)

Ensured(s) == IF s \in {recent[i] : i \in DOMAIN recent} THEN session[s] ELSE NewSession

Repeats(r) ==  \* mutant: a record is not looked for
  IF r.change = Missing THEN r
  ELSE [r EXCEPT !.completed = LastOf(Append(@, [change |-> r.change, task |-> r.task]), MaxCompleted)]
Freeze(r) ==
  IF r.change = Missing \/ \E c \in Records(r) : c.change = r.change THEN r
  ELSE [r EXCEPT !.completed = LastOf(Append(@, [change |-> r.change, task |-> r.task]), MaxCompleted)]
\* Every event freezes first: an earlier release saved a completion without a record.
FreezeFirst(r) == Freeze(r)
Begun(s) == FreezeFirst(Ensured(s))

Save(s, r) ==
  /\ recent' = LastOf(Append(Sub(recent, {i \in DOMAIN recent : recent[i] # s}), s), MaxSessions)
  /\ session' = [o \in Sessions |-> IF o = s THEN r ELSE IF o \in {recent'[i] : i \in DOMAIN recent'} THEN session[o] ELSE NewSession]
  /\ owner' = [o \in Sessions |-> IF session'[o] = NewSession THEN Missing
                                  ELSE IF o = s /\ r.change # Ensured(s).change THEN r.task ELSE owner[o]]
  /\ UNCHANGED tree

-----------------------------------------------------------------------------
(* captureBaselineIdentity, updateSessionTask, finalizeChangeIdentity      *)

Snapshot == {tree, Unavailable}
WithBaseline(r, b) == IF r.baseline = Missing THEN [r EXCEPT !.baseline = b] ELSE r

Started(r, ordinal, n) == [r EXCEPT !.task = [ordinal |-> ordinal, focus |-> n, done |-> FALSE, from |-> tree]]
Archived(r) == [r EXCEPT !.taskHistory = LastOf(Append(@, [r.task EXCEPT !.done = TRUE]), MaxHistory)]
\* A prompt with text starts, replaces, refocuses or continues the task.
Prompted(r, kind, n) ==
  CASE kind = "empty" -> r
    [] kind # "empty" /\ r.task = Missing -> Started(r, 1, n)
    [] kind = "pivot" /\ r.task # Missing -> Started(Archived(r), r.task.ordinal + 1, n)
    [] kind = "focus" /\ r.task # Missing -> [r EXCEPT !.task.focus = n]
    [] kind = "weak" /\ r.task # Missing -> r

SessionStart(s) == \E b \in Snapshot : Save(s, WithBaseline(Begun(s), b))

UserPromptSubmit(s, kind) ==
  LET r == Begun(s) IN
  /\ r.prompts < MaxPrompts
  /\ \E b \in Snapshot : Save(s, Prompted([WithBaseline(r, b) EXCEPT !.prompts = @ + 1], kind, r.prompts + 1))

ToolEvent(s) == Save(s, Begun(s))

ChangeOf(r, c) == IF {r.baseline, c} \cap {Missing, Unavailable} # {} THEN Missing ELSE <<r.baseline, c>>
Done(t) == IF t = Missing THEN t ELSE [t EXCEPT !.done = TRUE]
Stop(s) == \E c \in Snapshot :
  LET r == Begun(s) IN Save(s, Freeze([r EXCEPT !.change = ChangeOf(r, c), !.task = Done(@)]))

Edit(t) == t # tree /\ tree' = t /\ UNCHANGED <<session, recent, owner>>

\* The state file may come from a release that kept no records.
Legacy(s, t) == [NewSession EXCEPT !.baseline = t, !.prompts = 1, !.change = <<t, t>>,
                                   !.task = [ordinal |-> 1, focus |-> 1, done |-> TRUE, from |-> t]]
Init == \E t \in Trees, known \in SUBSET Sessions :
  /\ tree = t /\ \A a, b \in known : a = b
  /\ session = [s \in Sessions |-> IF s \in known THEN Legacy(s, t) ELSE NewSession]
  /\ recent = IF known = {} THEN <<>> ELSE <<CHOOSE s \in known : TRUE>>
  /\ owner = [s \in Sessions |-> IF s \in known THEN session[s].task ELSE Missing]

Next == \/ \E s \in Sessions : \/ SessionStart(s) \/ ToolEvent(s) \/ Stop(s)
                               \/ \E kind \in {"empty", "weak", "focus", "pivot"} : UserPromptSubmit(s, kind)
        \/ \E t \in Trees : Edit(t)
Spec == Init /\ [][Next]_vars

-----------------------------------------------------------------------------
\* The tree, the sessions kept and their tasks have their types.
TypeOK == /\ tree \in Trees /\ recent \in Seq(Sessions) /\ Len(recent) <= MaxSessions
          /\ \A s \in Sessions : LET r == session[s] IN
               /\ r.baseline \in Trees \cup {Missing, Unavailable} /\ r.task \in Task \cup {Missing}
               /\ r.taskHistory \in Seq(Task) /\ Len(r.taskHistory) <= MaxHistory
               /\ r.change \in ChangeId \cup {Missing}
               /\ r.completed \in Seq(Completed) /\ Len(r.completed) <= MaxCompleted

\* A change has one record in a session, also when it is completed again after
\* others, and the change last completed has one.
OneRecordEach == \A s \in Sessions : LET r == session[s] IN
  /\ \A i, j \in DOMAIN r.completed : r.completed[i].change = r.completed[j].change => i = j
  /\ r.completed # <<>> /\ r.change # Missing => \E c \in Records(r) : c.change = r.change

\* A change is recorded with the task whose turn made it: not with that of a
\* later turn that left the tree as it was, nor, for a change an earlier release
\* saved without a record, with that of the event at which it is recorded.  A
\* record never changes while it is kept.
RecordedForItsMaker ==
  \A s \in Sessions : \A c \in Records(session'[s]) \ Records(session[s]) :
  c.task = owner'[s]

\* The earlier tasks kept are the ones just before the current task, in order.
HistoryIsRecent == \A s \in Sessions : LET h == session[s].taskHistory IN
  /\ h # <<>> => session[s].task # Missing /\ h[Len(h)].ordinal = session[s].task.ordinal - 1
  /\ \A i \in 1..(Len(h) - 1) : h[i + 1].ordinal = h[i].ordinal + 1
  /\ session[s].task # Missing => Len(h) = (IF session[s].task.ordinal > MaxHistory THEN MaxHistory ELSE session[s].task.ordinal - 1)

=============================================================================
