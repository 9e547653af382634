------------------------------ MODULE LocalServer ------------------------------
(***************************************************************************)
(* The background server of a project and its record, server.json: the     *)
(* commands start and stop (src/src/cli.mjs) and the server they start     *)
(* (src/src/server.mjs createServer).  A record outlives its server; the   *)
(* process id it names may then belong to any process.  A server is named  *)
(* by the command that started it, which also stands for its instanceId.   *)
(***************************************************************************)
EXTENDS Naturals, FiniteSets

CONSTANTS Commands, Pids, Ports,
          Missing,   \* null
          Old,       \* a server of before the last reboot
          Other,     \* a process that is none of ours
          Overlap,   \* whether commands overlap
          Slow       \* whether a live server may miss a probe, or come up after its start gave up

LocalServerAssumption ==
  /\ {Missing, Old, Other} \cap Commands = {} /\ Cardinality({Missing, Old, Other}) = 3
  /\ Overlap \in BOOLEAN /\ Slow \in BOOLEAN

VARIABLES record,  \* server.json
          server,  \* the server each start spawned
          owner,   \* whose each process id is
          taken,   \* ports other programs hold
          cmd,     \* where each command is, and the record it read
          stopped  \* history: a stop ended, and no start since
vars == <<record, server, owner, taken, cmd, stopped>>

Info == [pid : Pids, instance : Commands \cup {Old}, port : Ports]
Ended == {"reported", "failed", "ended"}
Running(c) == server[c].at \in {"starting", "bound", "up"}
Serves(c, port) == server[c].at \in {"bound", "up"} /\ server[c].port = port
Free(port) == port \notin taken /\ \A c \in Commands : ~Serves(c, port)

-----------------------------------------------------------------------------
(* probeServer                                                             *)

Answers(info) ==
  /\ info # Missing /\ owner[info.pid] # Missing
  /\ \E c \in Commands : Serves(c, info.port) /\ c = info.instance /\ server[c].pid = info.pid
\* A server busy for longer than the time limit does not answer.
Probes(info) == {Answers(info)} \cup (IF Slow THEN {FALSE} ELSE {})

-----------------------------------------------------------------------------
(* The commands                                                            *)

At(c, step) == cmd[c].at = step
Go(c, step) == cmd' = [cmd EXCEPT ![c].at = step]
Run(c, kind, port) ==
  /\ At(c, "new") /\ (Overlap \/ \A d \in Commands : cmd[d].at \in Ended \cup {"new"})
  /\ cmd' = [cmd EXCEPT ![c] = [at |-> "probe", kind |-> kind, port |-> port, info |-> record]]
  /\ stopped' = (stopped /\ kind # "start")
  /\ UNCHANGED <<record, server, owner, taken>>
Probe(c) == \E live \in Probes(cmd[c].info) :
  /\ At(c, "probe")
  /\ Go(c, CASE cmd[c].kind = "start" /\ live -> "reported" [] cmd[c].kind = "start" /\ ~live -> "clear"
             [] cmd[c].kind = "stop" /\ live -> "kill" [] cmd[c].kind = "stop" /\ ~live -> "drop")
  /\ UNCHANGED <<record, server, owner, taken, stopped>>

Clear(c) == At(c, "clear") /\ record' = Missing /\ Go(c, "spawn") /\ UNCHANGED <<server, owner, taken, stopped>>
Spawn(c) == \E p \in Pids :
  /\ At(c, "spawn") /\ owner[p] = Missing
  /\ server' = [server EXCEPT ![c] = [at |-> "starting", pid |-> p, port |-> cmd[c].port]]
  /\ owner' = [owner EXCEPT ![p] = c] /\ Go(c, "wait") /\ UNCHANGED <<record, taken, stopped>>
Ready(info) == Answers(info)
Report(c) == At(c, "wait") /\ Ready(record) /\ Go(c, "reported") /\ UNCHANGED <<record, server, owner, taken, stopped>>
GiveUp(c) == At(c, "wait") /\ (server[c].at = "gone" \/ Slow) /\ Go(c, "failed") /\ UNCHANGED <<record, server, owner, taken, stopped>>

\* SIGTERM to the process that has the id now; without one the command fails.
Kill(c) ==
  LET p == cmd[c].info.pid IN
  /\ At(c, "kill")
  /\ server' = [s \in Commands |-> IF owner[p] = s THEN [server[s] EXCEPT !.at = "gone"] ELSE server[s]]
  /\ owner' = [owner EXCEPT ![p] = Missing] /\ Go(c, IF owner[p] = Missing THEN "failed" ELSE "drop")
  /\ UNCHANGED <<record, taken, stopped>>
Drop(c) == At(c, "drop") /\ record' = Missing /\ Go(c, "ended") /\ stopped' = TRUE /\ UNCHANGED <<server, owner, taken>>

-----------------------------------------------------------------------------
(* The server                                                              *)

Bind(c) ==
  /\ server[c].at = "starting" /\ Free(server[c].port)
  /\ server' = [server EXCEPT ![c].at = "bound"] /\ UNCHANGED <<record, owner, taken, cmd, stopped>>
WritesAt == "bound"
WriteInfo(c) ==
  /\ server[c].at = WritesAt /\ server' = [server EXCEPT ![c].at = "up"]
  /\ record' = [pid |-> server[c].pid, instance |-> c, port |-> server[c].port] /\ UNCHANGED <<owner, taken, cmd, stopped>>
Goes(c) == /\ server' = [server EXCEPT ![c].at = "gone"] /\ owner' = [owner EXCEPT ![server[c].pid] = Missing]
           /\ UNCHANGED <<record, taken, cmd, stopped>>
BindFails(c) == server[c].at = "starting" /\ ~Free(server[c].port) /\ Goes(c)
Crash(c) == server[c].at \in {"bound", "up"} /\ Goes(c)
\* The system gives the id to another process, not in the instant between a probe and its signal.
Reuse(p) == /\ owner[p] = Missing /\ \A c \in Commands : At(c, "kill") => cmd[c].info.pid # p
            /\ owner' = [owner EXCEPT ![p] = Other] /\ UNCHANGED <<record, server, taken, cmd, stopped>>

Init ==
  /\ record \in {Missing} \cup [pid : Pids, instance : {Old}, port : Ports] /\ taken \in SUBSET Ports
  /\ owner \in [Pids -> {Missing, Other}] /\ stopped = FALSE
  /\ server = [c \in Commands |-> [at |-> "none", pid |-> Missing, port |-> Missing]]
  /\ cmd = [c \in Commands |-> [at |-> "new", kind |-> "start", port |-> Missing, info |-> Missing]]
Next == \/ \E c \in Commands :
             \/ Run(c, "stop", Missing) \/ \E port \in Ports : Run(c, "start", port)
             \/ Probe(c) \/ Clear(c) \/ Spawn(c) \/ Report(c) \/ GiveUp(c) \/ Kill(c) \/ Drop(c)
             \/ Bind(c) \/ WriteInfo(c) \/ BindFails(c) \/ Crash(c)
        \/ \E p \in Pids : Reuse(p)
Spec == Init /\ [][Next]_vars

-----------------------------------------------------------------------------
\* The type of every variable; a server that serves has its port to itself.
TypeOK ==
  /\ record \in Info \cup {Missing} /\ taken \subseteq Ports /\ stopped \in BOOLEAN
  /\ owner \in [Pids -> Commands \cup {Missing, Other}]
  /\ \A c \in Commands : cmd[c].info \in Info \cup {Missing} /\ cmd[c].at \in Ended \cup {"new", "probe", "clear", "spawn", "wait", "kill", "drop"}
  /\ record # Missing => record.instance = Old \/ server[record.instance].at \in {"bound", "up", "gone"}
  /\ \A c \in Commands : server[c].at \in {"bound", "up"} =>
       /\ server[c].port \notin taken
       /\ \A d \in Commands : Serves(d, server[c].port) => d = c

\* No command signals a process that is not a server of the project, whoever has
\* the process id a stale record names by now.
SparesOthers ==
  \A p \in Pids : owner[p] = Other => owner'[p] = Other

\* A start that reports a cockpit reports one that answers: not the record of a
\* server that died, whose id or port somebody else has.
ReportedServes ==
  \A c \in Commands : cmd'[c].at = "reported" /\ ~At(c, "reported") =>
                       \E d \in Commands : server[d].at = "up"

\* Once a stop has ended, and until the next start, no server of the project runs.
StopStops == stopped => \A c \in Commands : ~Running(c)
=============================================================================
