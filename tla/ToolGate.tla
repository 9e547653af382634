------------------------------ MODULE ToolGate --------------------------------
(***************************************************************************)
(* A tool call at the policy gate: processHookLifecycle of src/src/hook.mjs *)
(* for PreToolUse, with the rules, profiles and approvals of src/src/      *)
(* policy.mjs.  A hook reads the policy and the approvals, writes back the *)
(* approval it used, appends to the recorder, checks the strict profile,   *)
(* and answers unless the state update throws.  The approvals file has no  *)
(* lock.  A call is named by the built-in rules it matches.                *)
(***************************************************************************)
EXTENDS FiniteSets, Naturals

CONSTANTS Hooks,        \* processes: hooks of one project
          Acts,         \* the calls that are made
          Profiles,     \* the profiles `policy init` chooses from
          Parallel,     \* whether two processes touch the approvals at once
          RecorderFails, StateFails,  \* whether the ledger and the state can fail
          MaxUses,      \* bound of the uses of one grant
          MaxGrants,    \* bound of the grants given
          MaxCalls      \* bound of the calls of each hook process

Weight == [allow |-> 0, observe |-> 1, ask |-> 2, deny |-> 3]
Rule(effect, severity) == [effect |-> effect, severity |-> severity]
Builtin == [delete |-> Rule("deny", "critical"), script |-> Rule("deny", "critical"),
            push |-> Rule("ask", "high"), reset |-> Rule("ask", "high"), deploy |-> Rule("ask", "high"),
            database |-> Rule("ask", "critical"), secret |-> Rule("ask", "high"),
            workflow |-> Rule("observe", "high"), migration |-> Rule("observe", "high"),
            mcp |-> Rule("observe", "medium"), install |-> Rule("observe", "medium")]
\* A call, with the rules it matches; only `read` uses a tool that changes nothing.
Matches == [read |-> {}, edit |-> {}, push |-> {"push"}, drop |-> {"database"}, wipe |-> {"delete", "database"},
            release |-> {"push", "deploy"}, workflow |-> {"workflow"}, remote |-> {"mcp", "install"}]
Mutating(a) == a # "read"

ToolGateAssumption ==
  /\ Acts \subseteq DOMAIN Matches /\ Profiles \subseteq {"observe", "balanced", "strict"} /\ "balanced" \in Profiles
  /\ {Parallel, RecorderFails, StateFails} \subseteq BOOLEAN /\ {MaxUses, MaxGrants, MaxCalls} \subseteq Nat

VARIABLES profile,    \* the profile of the policy file
          approvals,  \* remaining uses of each fingerprint; 0: no grant
          live,       \* fingerprints whose grant has not expired
          granter,    \* the approving process and the file it read
          hook,       \* each hook process
          calls, grants,
          given,      \* history: uses granted for each call
          ran,        \* history: calls answered with a pass that the policy asks or denies
          regained    \* history: uses that writing back an older file gave back
vars == <<profile, approvals, live, granter, hook, calls, grants, given, ran, regained>>

\* profileEffect, and the strongest effect of the rules that match.
ProfileEffect(p, r) ==
  CASE p = "observe" -> "observe"
    [] p = "strict" /\ r.effect = "observe" /\ r.severity \in {"high", "critical"} -> "ask"
    [] p = "strict" /\ r.effect = "ask" /\ r.severity = "critical" -> "deny"
    [] OTHER -> r.effect
Strongest(p, a) ==
  LET effects == {ProfileEffect(p, Builtin[r]) : r \in Matches[a]}
  IN IF effects = {} THEN "allow" ELSE CHOOSE e \in effects : \A f \in effects : Weight[f] <= Weight[e]
Blocked(p, a) == Strongest(p, a) \in {"ask", "deny"}

None0 == [a \in Acts |-> 0]
AnyAct == CHOOSE a \in Acts : TRUE
NoHook == [pc |-> "idle", act |-> AnyAct, profile |-> "balanced", checked |-> "balanced", seen |-> None0,
           approved |-> FALSE, decision |-> "allow", recorded |-> FALSE]
At(h, pc) == hook[h].pc = pc
Becomes(h, fields) == hook' = [hook EXCEPT ![h] = fields]
Quiet == granter.pc = "idle" /\ \A h \in Hooks : At(h, "idle")
MayStart == Parallel \/ Quiet

-----------------------------------------------------------------------------
(* evaluatePolicy and activeApproval                                       *)

Usable(a) == a \in live /\ approvals[a] > 0
Call(h, a) ==
  /\ At(h, "idle") /\ MayStart /\ calls[h] < MaxCalls
  /\ calls' = [calls EXCEPT ![h] = @ + 1]
  /\ Becomes(h, [pc |-> IF approvals[a] > 0 THEN "consume" ELSE "record", act |-> a,
                 profile |-> profile, checked |-> "balanced", seen |-> IF approvals[a] > 0 THEN approvals ELSE None0,
                 approved |-> Usable(a), recorded |-> FALSE,
                 decision |-> IF Usable(a) /\ Blocked(profile, a) THEN "allow" ELSE Strongest(profile, a)])
  /\ UNCHANGED <<profile, approvals, live, granter, grants, given, ran, regained>>

\* The uses that writing back the file `read` gives back: used after it was read.
GivenBack(read, a) == IF read[a] > approvals[a] THEN read[a] - approvals[a] ELSE 0

\* The whole file read is written back; an expired grant is removed.
KeepsUse(h) == hook[h].seen  \* mutant: the use is not counted
AfterUse(h) == [hook[h].seen EXCEPT ![hook[h].act] = IF hook[h].approved THEN @ - 1 ELSE 0]
Consume(h) ==
  /\ At(h, "consume")
  /\ approvals' = AfterUse(h)
  /\ regained' = [a \in Acts |-> IF a = hook[h].act /\ ~hook[h].approved THEN regained[a]
                                 ELSE regained[a] + GivenBack(hook[h].seen, a)]
  /\ Becomes(h, [hook[h] EXCEPT !.pc = "record", !.seen = None0])
  /\ UNCHANGED <<profile, live, granter, calls, grants, given, ran>>

-----------------------------------------------------------------------------
(* appendProvenanceEvent, strictRecorderFailClosed, mutateState, the answer *)

Record(h) ==
  /\ At(h, "record")
  /\ \E ok \in (IF RecorderFails THEN BOOLEAN ELSE {TRUE}) : Becomes(h, [hook[h] EXCEPT !.pc = "check", !.recorded = ok])
  /\ UNCHANGED <<profile, approvals, live, granter, calls, grants, given, ran, regained>>

\* The profile is read again; only a failed record denies.
Denies(h) == profile = "strict" /\ ~hook[h].recorded /\ Mutating(hook[h].act)
Check(h) ==
  /\ At(h, "check")
  /\ Becomes(h, [hook[h] EXCEPT !.pc = "state", !.checked = profile,
                                !.decision = IF Denies(h) THEN "deny" ELSE @])
  /\ UNCHANGED <<profile, approvals, live, granter, calls, grants, given, ran, regained>>

\* A deny or an ask stops the call; without an answer the agent runs it.
LetsThrough(h) == hook[h].decision \in {"allow", "observe"} /\ Blocked(hook[h].profile, hook[h].act)
UpdateState(h) ==
  /\ At(h, "state") /\ Becomes(h, [hook[h] EXCEPT !.pc = "answered"])
  /\ ran' = IF LetsThrough(h) THEN [ran EXCEPT ![hook[h].act] = @ + 1] ELSE ran
  /\ UNCHANGED <<profile, approvals, live, granter, calls, grants, given, regained>>
\* mutateState throws: the runner prints a warning and no decision.
StateThrows(h) ==
  /\ At(h, "state") /\ StateFails /\ Becomes(h, [hook[h] EXCEPT !.pc = "threw", !.decision = "allow"])
  /\ UNCHANGED <<profile, approvals, live, granter, calls, grants, given, ran, regained>>
Return(h) ==
  /\ (At(h, "answered") \/ At(h, "threw")) /\ Becomes(h, NoHook)
  /\ UNCHANGED <<profile, approvals, live, granter, calls, grants, given, ran, regained>>

-----------------------------------------------------------------------------
(* grantApproval, expiry, initPolicy                                       *)

GrantReads(a, n) ==
  /\ granter.pc = "idle" /\ MayStart /\ grants < MaxGrants /\ grants' = grants + 1
  /\ granter' = [pc |-> "write", act |-> a, uses |-> n, seen |-> approvals]
  /\ UNCHANGED <<profile, approvals, live, hook, calls, given, ran, regained>>
GrantWrites ==
  /\ granter.pc = "write"
  /\ approvals' = [granter.seen EXCEPT ![granter.act] = granter.uses]
  /\ live' = live \cup {granter.act}
  /\ given' = [given EXCEPT ![granter.act] = @ + granter.uses]
  /\ regained' = [a \in Acts |-> IF a = granter.act THEN regained[a] ELSE regained[a] + GivenBack(granter.seen, a)]
  /\ granter' = [granter EXCEPT !.pc = "idle", !.seen = None0]
  /\ UNCHANGED <<profile, hook, calls, grants, ran>>

Expire(a) == a \in live /\ live' = live \ {a} /\ UNCHANGED <<profile, approvals, granter, hook, calls, grants, given, ran, regained>>
InitPolicy(p) ==
  /\ p # profile /\ profile' = p
  /\ UNCHANGED <<approvals, live, granter, hook, calls, grants, given, ran, regained>>

Init == /\ profile = "balanced" /\ approvals = None0 /\ live = {}
        /\ granter = [pc |-> "idle", act |-> AnyAct, uses |-> 0, seen |-> None0]
        /\ hook = [h \in Hooks |-> NoHook] /\ calls = [h \in Hooks |-> 0] /\ grants = 0
        /\ given = None0 /\ ran = None0 /\ regained = None0

Next == \/ \E h \in Hooks : \/ \E a \in Acts : Call(h, a)
                            \/ Consume(h) \/ Record(h) \/ Check(h) \/ UpdateState(h) \/ StateThrows(h) \/ Return(h)
        \/ \E a \in Acts, n \in 1..MaxUses : GrantReads(a, n)
        \/ GrantWrites \/ (\E a \in Acts : Expire(a)) \/ \E p \in Profiles : InitPolicy(p)
Spec == Init /\ [][Next]_vars

-----------------------------------------------------------------------------
\* Profile, approvals and the running actions have their types.
TypeOK == /\ profile \in Profiles /\ approvals \in [Acts -> 0..MaxUses] /\ live \subseteq Acts
          /\ granter.seen \in [Acts -> 0..MaxUses] /\ granter.pc \in {"idle", "write"}
          /\ \A h \in Hooks : /\ hook[h].pc \in {"idle", "consume", "record", "check", "state", "answered", "threw"}
                              /\ hook[h].seen \in [Acts -> 0..MaxUses] /\ hook[h].decision \in DOMAIN Weight
          /\ given \in [Acts -> Nat] /\ ran \in [Acts -> Nat] /\ regained \in [Acts -> Nat]

\* The approvals file has no lock: processes read it and write it back at once.
\* A call that the policy asks about or denies is answered with a pass at most as
\* often as uses were granted for it and as processes that overlapped gave uses
\* back by writing an older file, whatever profile is chosen meanwhile: no other
\* step, an expiry, a switch of the profile or a failed write, makes a use more.
BlockedRunsArePaidFor == \A a \in Acts : ran[a] <= given[a] + regained[a]

\* Under the strict profile a hook that answers denies a call that changes
\* something when the recorder could not persist it, also when calls in parallel
\* and a switch of the profile come between; a hook that throws has no answer.
StrictFailsClosed == \A h \in Hooks :
  At(h, "answered") /\ hook[h].checked = "strict" /\ Mutating(hook[h].act) /\ ~hook[h].recorded => hook[h].decision = "deny"
=============================================================================
