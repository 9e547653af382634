------------------------------ MODULE Installer -------------------------------
(***************************************************************************)
(* `idleproof integration install` and `uninstall`, and the adapters they  *)
(* write: src/src/diffwitness-integration-install.mjs and -config.mjs,     *)
(* install.mjs, install-codex.mjs, install-cursor.mjs.  A command changes  *)
(* one file at a time, may throw at a file it cannot read or may not       *)
(* replace, restores what it found, and may be killed between two files.   *)
(* A file is the set of what it holds: "file" when it exists, "user" for   *)
(* the user's entries, "ours" for ours, "broken" when it cannot be parsed. *)
(***************************************************************************)
EXTENDS FiniteSets, Naturals, Sequences

CONSTANTS Commands,     \* processes
          Requests,     \* the sets of agents that are asked for
          Standalone,   \* whether `idleproof install <agent>` is used too
          Edits,        \* whether the user edits a file while a command runs
          Kills,        \* whether a command may be killed
          MaxCommands, MaxEdits   \* bounds of the commands and of the edits

Agents == {"claude", "codex", "cursor"}
Files == Agents \cup {"rule", "config", "legacy", "exclude"}
InstallerAssumption ==
  /\ Requests \subseteq SUBSET Agents \ {{}} /\ {Standalone, Edits, Kills} \subseteq BOOLEAN
  /\ {MaxCommands, MaxEdits} \subseteq Nat

VARIABLES files,     \* what each file holds
          command,   \* the running commands
          commands,  \* how many have run
          edits      \* how many edits the user made
vars == <<files, command, commands, edits>>

Idle == [op |-> "idle", agents |-> {}, todo |-> <<>>, before |-> [f \in Files |-> {}]]
Running(p) == command[p].op # "idle"
Calm == \A p \in Commands : ~Running(p)
Absent == {}
Broken(fs, f) == "broken" \in fs[f]
Present(fs) == fs["config"] \cup fs["legacy"] # Absent

\* ------------------------------------------------------------ the adapters
\* A hooks file gets one entry of ours per event beside the entries it has, and
\* the local exclude list names the files of Codex and Cursor.
Excluded(a) == {x \in {a} : x # "claude"}
Written(fs, a) == [fs EXCEPT ![a] = @ \cup {"file", "ours"}]
Listed(fs, a) == [fs EXCEPT !["exclude"] = @ \cup Excluded(a)]
Ruled(fs) == [fs EXCEPT !["rule"] = {"file", "ours"}]
MayRule(fs) == "user" \notin fs["rule"]
Removed(fs, a) == [fs EXCEPT ![a] = @ \ {"ours"}]
Unruled(fs) == IF "ours" \in fs["rule"] THEN [fs EXCEPT !["rule"] = Absent] ELSE fs

\* One step of a command: the files after it; what may stop it.
Configured(fs, agents) == [fs EXCEPT !["config"] = {"file"} \cup agents, !["legacy"] = Absent]
After(fs, step, p) ==
  CASE step = "config" -> Configured(fs, command[p].agents)
    [] step \in Agents -> IF command[p].op = "uninstall" THEN Removed(fs, step)
                          ELSE IF step = "cursor" THEN Written(fs, step) ELSE Listed(Written(fs, step), step)
    [] step = "rule" -> IF command[p].op = "uninstall" THEN Unruled(fs) ELSE Listed(Ruled(fs), "cursor")
    [] step = "unconfig" -> [fs EXCEPT !["config"] = Absent, !["legacy"] = Absent]
Throws(fs, step, p) ==
  \/ step \in Agents /\ Broken(fs, step)
  \/ step = "rule" /\ command[p].op # "uninstall" /\ ~MayRule(fs)

AdapterSteps(a) == IF a = "cursor" THEN <<"cursor", "rule">> ELSE <<a>>
Chosen(a, agents) == IF a \in agents THEN AdapterSteps(a) ELSE <<>>
Adapters(agents) == Chosen("claude", agents) \o Chosen("codex", agents) \o Chosen("cursor", agents)
InstallSteps(agents) == <<"config">> \o Adapters(agents)
UninstallSteps(agents) == Adapters(agents) \o <<"unconfig">>

\* ------------------------------------------------------------ the commands
Starts(p, op, agents, todo) ==
  /\ ~Running(p) /\ commands < MaxCommands /\ commands' = commands + 1
  /\ command' = [command EXCEPT ![p] = [op |-> op, agents |-> agents, todo |-> todo, before |-> files]]
  /\ UNCHANGED edits
Install(p, agents) == Starts(p, "install", agents, InstallSteps(agents)) /\ UNCHANGED files
InstallAgent(p, a) == Standalone /\ Starts(p, "adapter", {a}, Adapters({a})) /\ UNCHANGED files
\* uninstall reads the configuration, which moves a legacy one to its new name; a broken one stops it.
Named(fs) == LET c == IF fs["config"] # Absent THEN fs["config"] ELSE fs["legacy"]
             IN IF c \cap Agents = {} THEN Agents ELSE c \cap Agents
Migrated(fs) == IF fs["config"] = Absent THEN [fs EXCEPT !["config"] = fs["legacy"], !["legacy"] = Absent] ELSE fs
Uninstall(p) ==
  /\ ~Broken(files, "config") /\ files' = Migrated(files)
  /\ Starts(p, "uninstall", Named(files), UninstallSteps(Named(files)))
UninstallAgent(p, a) == Standalone /\ Starts(p, "uninstall", {a}, Adapters({a})) /\ UNCHANGED files

Step(p) ==
  /\ Running(p) /\ command[p].op # "restore" /\ command[p].todo # <<>>
  /\ ~Throws(files, Head(command[p].todo), p)
  /\ files' = After(files, Head(command[p].todo), p)
  /\ command' = [command EXCEPT ![p].todo = Tail(@)]
  /\ UNCHANGED <<commands, edits>>
\* What was found is put back, in the order of the snapshot.
RestoreOrder == <<"claude", "codex", "cursor", "rule", "config", "legacy", "exclude">>
\* mutant: the exclude list is not in the snapshot
WithoutExclude == <<"claude", "codex", "cursor", "rule", "config", "legacy">>
Snapshot == RestoreOrder
Throw(p) ==
  /\ Running(p) /\ command[p].op # "restore" /\ command[p].todo # <<>>
  /\ Throws(files, Head(command[p].todo), p)
  /\ command' = [command EXCEPT ![p] = IF @.op = "install" THEN [@ EXCEPT !.op = "restore", !.todo = Snapshot] ELSE Idle]
  /\ UNCHANGED <<files, commands, edits>>
Restore(p) ==
  /\ command[p].op = "restore" /\ command[p].todo # <<>>
  /\ LET f == Head(command[p].todo) IN files' = [files EXCEPT ![f] = command[p].before[f]]
  /\ command' = [command EXCEPT ![p].todo = Tail(@)]
  /\ UNCHANGED <<commands, edits>>
Ends(p) == Running(p) /\ command[p].todo = <<>> /\ command' = [command EXCEPT ![p] = Idle] /\ UNCHANGED <<files, commands, edits>>
Killed(p) == Kills /\ Running(p) /\ command' = [command EXCEPT ![p] = Idle] /\ UNCHANGED <<files, commands, edits>>
UserEdits(f) ==
  /\ edits < MaxEdits /\ edits' = edits + 1 /\ (Edits \/ Calm) /\ ~Broken(files, f)
  /\ files' = [files EXCEPT ![f] = @ \cup {"file", "user"}]
  /\ UNCHANGED <<command, commands>>

\* A project may have user entries, an unreadable hooks file, a rule of its own, and a legacy configuration.
Found == {Absent, {"file", "user"}, {"file", "broken"}}
Init ==
  /\ \E c, x, k \in Found, r \in {Absent, {"file", "user"}}, g \in {Absent, {"file", "broken"}}, l \in {Absent, {"file"} \cup Agents} :
       files = [claude |-> c, codex |-> x, cursor |-> k, rule |-> r, config |-> g, legacy |-> l, exclude |-> {"file", "user"}]
  /\ command = [p \in Commands |-> Idle] /\ commands = 0 /\ edits = 0
Next ==
  \/ \E p \in Commands : \/ \E r \in Requests : Install(p, r)
                         \/ \E a \in Agents : InstallAgent(p, a) \/ UninstallAgent(p, a)
                         \/ Uninstall(p) \/ Step(p) \/ Throw(p) \/ Restore(p) \/ Ends(p) \/ Killed(p)
  \/ \E f \in Agents \cup {"exclude"} : UserEdits(f)
Spec == Init /\ [][Next]_vars

\* Every file exists when it holds something; a rule is the user's or ours.
TypeOK ==
  /\ files \in [Files -> SUBSET ({"file", "user", "ours", "broken"} \cup Agents)]
  /\ \A f \in Files : files[f] # Absent => "file" \in files[f]
  /\ \A a \in Agents : Broken(files, a) => "ours" \notin files[a]
  /\ ~({"user", "ours"} \subseteq files["rule"])
  /\ \A p \in Commands : command[p].op \in {"idle", "install", "adapter", "uninstall", "restore"}
  /\ commands \in 0..MaxCommands /\ edits \in 0..MaxEdits

\* An integration install that fails leaves every file as it found it, whichever
\* step failed: the file it could not read, or the rule it may not replace.
FailedInstallLeavesNothing ==
  \A p \in Commands : (command[p].op = "restore" /\ command[p].todo = <<>> /\ ~Running(p)') => files = command[p].before

\* Hooks of ours are never without the configuration that makes their Stop ask
\* DiffWitness, at no step of an install, an uninstall or a restore, and not when
\* one is killed between two files.
HooksAreGated == (\E a \in Agents : "ours" \in files[a]) => Present(files)

\* No command takes an entry of the user, a rule of the user, or a file that it
\* could not read.
UserEntriesKept ==
  \A f \in Files : files[f] \cap {"user", "broken"} \subseteq files[f]' \/ f = "config"

=============================================================================
