------------------------------ MODULE CodexBridge ------------------------------
(***************************************************************************)
(* idleproof codex (src/src/codex-bridge.mjs): the bridge starts Codex and *)
(* turns the lines Codex writes into lifecycle events, unless Codex's own  *)
(* hooks tell IdleProof of the session.  Codex does not wait for the       *)
(* bridge: lines are read late, native hooks come in between.  A tree is   *)
(* the set of edits made; a lifecycle event is one locked state update.    *)
(* Codex is external.                                                      *)
(***************************************************************************)
EXTENDS Naturals, Sequences, FiniteSets

CONSTANTS Own,      \* the edits of Codex
          Others,   \* the edits of anybody else
          Missing,  \* null
          Flaky     \* whether native hooks may fail, or Codex end without its Stop hook

Edits == Own \cup Others
Change == [base : SUBSET Edits, candidate : SUBSET Edits]
Session == [source : {"codex", "bridge"}, baseline : (SUBSET Edits) \cup {Missing}, change : Change \cup {Missing}]

CodexBridgeAssumption ==
  /\ Own \cap Others = {} /\ Flaky \in BOOLEAN
  /\ \A r \in (SUBSET Edits) \cup Change \cup Session : r # Missing

VARIABLES tree,     \* the worktree
          session,  \* the session of the thread Codex announces, and the fallback session
          hooked,   \* whether the project's Codex hooks are installed
          codex,    \* what Codex does next
          pipe,     \* the lines it wrote that the bridge has not read
          exit,     \* whether the bridge was told that Codex ended
          before,   \* preSpawnBaseline
          bridge    \* what the bridge does next, then, and for which line and session
vars == <<tree, session, hooked, codex, pipe, exit, before, bridge>>

Ids == {"thread", "fallback"}
Lines == {"thread", "noid", "noise", "item", "failed"}
\* A native event runs to its end before Codex goes on.
NativeEvents == {"SessionStart", "UserPromptSubmit", "PostToolUse", "Stop"}
CodexStates == {"unborn", "announce", "working", "gone"} \cup NativeEvents

-----------------------------------------------------------------------------
(* One event of processHookLifecycle on session id                         *)

Ensured(id, source) == IF session[id] = Missing THEN [source |-> source, baseline |-> Missing, change |-> Missing] ELSE session[id]
Baselined(r) == IF r.baseline = Missing THEN [r EXCEPT !.baseline = tree] ELSE r
Completed(r) == [r EXCEPT !.change = IF r.baseline = Missing THEN Missing ELSE [base |-> r.baseline, candidate |-> tree]]
Lifecycle(id, source, event) ==
  LET r == [Ensured(id, source) EXCEPT !.source = source] IN
  session' = [session EXCEPT ![id] = CASE event \in {"SessionStart", "UserPromptSubmit"} -> Baselined(r)
                                       [] event = "Stop" -> Completed(r)
                                       [] OTHER -> r]

-----------------------------------------------------------------------------
(* Codex                                                                   *)

CodexIs(state) == codex' = state /\ UNCHANGED <<tree, hooked, before, bridge>>
Announce == \E line \in {"thread", "noid", "noise"} :
  codex = "announce" /\ pipe' = Append(pipe, line) /\ CodexIs("SessionStart") /\ UNCHANGED <<session, exit>>
AfterNative(event) == CASE event = "SessionStart" -> "UserPromptSubmit" [] event = "Stop" -> "gone" [] OTHER -> "working"
\* The exit listener is registered when Codex is spawned: an exit is never missed.
Listens == bridge.at \notin {"baseline", "spawn"}
Ends(event) == exit' = IF event = "Stop" /\ Listens THEN TRUE ELSE exit
Native ==
  /\ codex \in NativeEvents
  /\ IF hooked THEN Lifecycle("thread", "codex", codex) ELSE UNCHANGED session
  /\ CodexIs(AfterNative(codex)) /\ Ends(codex) /\ UNCHANGED pipe
NativeFails ==
  /\ Flaky /\ hooked /\ codex \in NativeEvents
  /\ CodexIs(AfterNative(codex)) /\ Ends(codex) /\ UNCHANGED <<session, pipe>>
Work(e) ==
  /\ codex = "working" /\ e \notin tree /\ tree' = tree \cup {e} /\ pipe' = Append(pipe, "item")
  /\ codex' = "PostToolUse" /\ UNCHANGED <<session, hooked, exit, before, bridge>>
Finish == \E more \in {<<>>, <<"failed">>} :
  codex = "working" /\ pipe' = pipe \o more /\ CodexIs("Stop") /\ UNCHANGED <<session, exit>>
Die ==
  /\ Flaky \/ ~hooked
  /\ codex \notin {"unborn", "gone"}
  /\ CodexIs("gone") /\ Ends("Stop") /\ UNCHANGED <<session, pipe>>

Codex == Announce \/ Native \/ NativeFails \/ Finish \/ \E e \in Own : Work(e)
Edit(e) == e \notin tree /\ tree' = tree \cup {e} /\ UNCHANGED <<session, hooked, codex, pipe, exit, before, bridge>>

-----------------------------------------------------------------------------
(* The bridge                                                              *)

At(step) == bridge.at = step
Go(step) == bridge' = [bridge EXCEPT !.at = step]
BridgeOnly == UNCHANGED <<tree, session, hooked, codex, pipe, exit, before>>
SessionOnly == UNCHANGED <<tree, hooked, codex, pipe, exit, before>>

NativeActive(id) == session[id] # Missing /\ session[id].source = "codex"

Capture == At("baseline") /\ before' = tree /\ Go("spawn") /\ UNCHANGED <<tree, session, hooked, codex, pipe, exit>>
Spawn == At("spawn") /\ codex' = "announce" /\ Go("read") /\ UNCHANGED <<tree, session, hooked, pipe, exit, before>>
SpawnFails == At("spawn") /\ Go("failed") /\ BridgeOnly

ActiveId(id) == IF id = "none" THEN "fallback" ELSE id
\* ensureBridgeStarted, then what the line asks for
Ensure(id, after) == bridge' = [bridge EXCEPT !.at = IF bridge.started THEN after ELSE "start", !.then = after, !.id = id]
Read ==
  /\ At("read") /\ pipe # <<>> /\ pipe' = Tail(pipe)
  /\ CASE Head(pipe) = "noise" -> UNCHANGED bridge
       [] Head(pipe) = "thread" -> Ensure("thread", "read")
       [] Head(pipe) = "noid" -> Ensure("fallback", "read")
       [] Head(pipe) \in {"item", "failed"} -> Ensure(ActiveId(bridge.id), "event")
  /\ UNCHANGED <<tree, session, hooked, codex, exit, before>>
EndOfLines == At("read") /\ pipe = <<>> /\ codex = "gone" /\ Go("exit") /\ BridgeOnly

Known == At("start") /\ session[bridge.id] # Missing /\ Go("prompt") /\ BridgeOnly
Unknown == At("start") /\ session[bridge.id] = Missing /\ Go("begin") /\ BridgeOnly
Begin == At("begin") /\ Lifecycle(bridge.id, "bridge", "SessionStart") /\ Go("replace") /\ SessionOnly
Replaced(r) == [r EXCEPT !.baseline = before]
Replace == At("replace") /\ session' = [session EXCEPT ![bridge.id] = Replaced(@)] /\ Go("prompt") /\ SessionOnly

Started == bridge' = [bridge EXCEPT !.at = bridge.then, !.started = TRUE]
Prompt ==
  /\ At("prompt") /\ BridgeOnly
  /\ IF NativeActive(bridge.id) THEN Started ELSE Go("submit")
Submit ==
  /\ At("submit") /\ Lifecycle(bridge.id, "bridge", "UserPromptSubmit") /\ SessionOnly /\ Started

\* Whether the session is native is read before the event is recorded.
Event == At("event") /\ Go(IF NativeActive(bridge.id) THEN "read" ELSE "record") /\ BridgeOnly
Record == At("record") /\ Lifecycle(bridge.id, "bridge", "PostToolUse") /\ Go("read") /\ SessionOnly

Exit == At("exit") /\ exit /\ Ensure(ActiveId(bridge.id), "final") /\ BridgeOnly
Final == At("final") /\ Go(IF NativeActive(bridge.id) THEN "done" ELSE "stop") /\ BridgeOnly
Stop == At("stop") /\ Lifecycle(bridge.id, "bridge", "Stop") /\ Go("done") /\ SessionOnly

Bridge == \/ Capture \/ Spawn \/ SpawnFails \/ Read \/ EndOfLines \/ Known \/ Unknown \/ Begin \/ Replace
          \/ Prompt \/ Submit \/ Event \/ Record \/ Exit \/ Final \/ Stop

Init ==
  /\ tree = {} /\ session = [id \in Ids |-> Missing] /\ hooked \in BOOLEAN /\ codex = "unborn"
  /\ pipe = <<>> /\ exit = FALSE /\ before = {}
  /\ bridge = [at |-> "baseline", then |-> "read", id |-> "none", started |-> FALSE]
Next == Bridge \/ Codex \/ Die \/ \E e \in Others : Edit(e)
Spec == Init /\ [][Next]_vars

\* The bridge goes on, and so does Codex until it ends.
Fairness == WF_vars(Bridge) /\ WF_vars(Codex)

-----------------------------------------------------------------------------
\* The type of every variable; a bridge that has begun a session knows which.
TypeOK ==
  /\ tree \subseteq Edits /\ before \subseteq Edits /\ hooked \in BOOLEAN /\ exit \in BOOLEAN
  /\ codex \in CodexStates /\ pipe \in Seq(Lines)
  /\ bridge.at # "start" \/ bridge.id \in Ids
  /\ session \in [Ids -> Session \cup {Missing}]

\* However late the bridge reads what Codex wrote, and wherever native hooks come
\* in, no edit of Codex is in the tree its completed change starts from.
NoOwnWorkBefore == \A id \in Ids :
  session[id] # Missing /\ session[id].change # Missing => session[id].change.base \cap Own = {}

\* When the bridge is done the edits of Codex are in a completed change: that the
\* bridge leaves the completion to native hooks never leaves it to nobody.
WorkCompleted == bridge.at = "done" =>
  \E id \in Ids : /\ session[id] # Missing /\ session[id].change # Missing
                  /\ tree \cap Own \subseteq session[id].change.candidate

\* The bridge ends once Codex has, also when Codex ends before its lines are read.
BridgeEnds == <>(bridge.at \in {"done", "failed"})
=============================================================================
