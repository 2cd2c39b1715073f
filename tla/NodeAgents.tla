------------------------------ MODULE NodeAgents ------------------------------
(***************************************************************************)
(* The agent of a node, which operators start and stop over SSH            *)
(* (cluster_control.py) and the watchdog starts when the manager has not   *)
(* seen it for a while (agent_watchdog.py).                                *)
(***************************************************************************)
EXTENDS PidFiles

NodeKept == UNCHANGED <<machine, orphaned, overlapped, begun, faults>>

ThePid == pidfile[NodeAgent]
SetPid(pid) == pidfile' = [pidfile EXCEPT ![NodeAgent] = pid]

AgentLives == \E p \in DOMAIN procs : procs[p].service = NodeAgent

\* ClusterController.start_node, with the agent's code sent again or not.
ClusterStart(j) ==
    /\ begun < MaxBegun[machine] /\ begun' = begun + 1
    /\ \E first \in {"remove", "env"} : BeginJob(j, "start", first, <<NodeAgent>>)

ClusterStop(j) ==
    /\ begun < MaxBegun[machine] /\ begun' = begun + 1
    /\ BeginJob(j, "stop", "read", <<NodeAgent>>)

\* start_remote runs the script on the node.
StartRemote(j) == BeginJob(j, "watch", "lock", <<NodeAgent>>)

\* check_once: the node was not seen, by now that may be out of date.
WatchMissing(j) ==
    /\ ~AgentLives
    /\ \A i \in Slots : jobs[i] # None => jobs[i].kind # "watch"
    /\ UNCHANGED begun
    /\ StartRemote(j)

WatchStale(j) ==
    /\ begun < MaxBegun[machine] /\ begun' = begun + 1
    /\ StartRemote(j)

\* _sync_agent_runtime: rm -rf and mkdir; nobody notices when they fail, at
\* once or half way.
DeleteUnder == procs' = [p \in DOMAIN procs |-> [procs[p] EXCEPT !.deleted = TRUE]]

RemoveRuntime(j) ==
    /\ At(j, "remove")
    /\ \/ runtime' = [runtime EXCEPT !.code = "none"] /\ DeleteUnder
       \/ /\ runtime' = [runtime EXCEPT !.code = IF @ = "none" THEN "none" ELSE "part"]
          /\ UNCHANGED procs
       \/ UNCHANGED <<runtime, procs>>
    /\ GoTo(j, "unpack")
    /\ UNCHANGED <<pidfile, lock>> /\ NodeKept

\* Then tar, through a pipe. The failure of either end raises and ends the
\* command, whether the other end did nothing, a part or all.
Piped(code) == runtime' = [runtime EXCEPT !.code = code]

UnpackRuntime(j) ==
    /\ At(j, "unpack")
    /\ \/ Piped("whole") /\ GoTo(j, "env")
       \/ (Piped("part") \/ Piped("whole") \/ UNCHANGED runtime) /\ Finish(j)
    /\ UNCHANGED <<procs, pidfile, lock>> /\ NodeKept

\* _write_remote_file, of agent.env and then of start_agent.sh: cat > empties
\* the file. When cat fails, the success of chmod hides it; when SSH fails,
\* the command ends.
Filling == [env |-> "fill env", starter |-> "fill starter"]
Following == [env |-> "starter", starter |-> "check"]

EmptyRemoteFile(j, file) ==
    /\ At(j, file)
    /\ \/ runtime' = [runtime EXCEPT ![file] = "part"] /\ GoTo(j, Filling[file])
       \/ UNCHANGED runtime /\ Finish(j)
    /\ UNCHANGED <<procs, pidfile, lock>> /\ NodeKept

FillRemoteFile(j, file) ==
    /\ At(j, Filling[file])
    /\ \/ runtime' = [runtime EXCEPT ![file] = "whole"] /\ GoTo(j, Following[file])
       \/ UNCHANGED runtime /\ (GoTo(j, Following[file]) \/ Finish(j))
    /\ UNCHANGED <<procs, pidfile, lock>> /\ NodeKept

\* The command, or the watchdog's script with its lock, ends.
EndOf(j) == Finish(j) /\ lock' = IF lock = j THEN None ELSE lock

\* start_agent.sh, of which nothing runs when it is empty. An empty pid file
\* counts as none, and stays.
ScriptChecks(j) ==
    /\ At(j, "check")
    /\ IF runtime.starter # "whole" \/ MaySignal(ThePid) THEN EndOf(j) /\ UNCHANGED pidfile
       ELSE /\ GoTo(j, "spawn") /\ UNCHANGED lock
            /\ IF ThePid = Torn THEN UNCHANGED pidfile ELSE SetPid(None)
    /\ UNCHANGED <<procs, runtime>> /\ NodeKept

\* With a part of its code, or an environment without the manager's address,
\* the agent starts, and ends at once.
AgentRuns == runtime.code = "whole" /\ runtime.env = "whole"

ScriptSpawns(j) ==
    /\ At(j, "spawn")
    /\ "none" \notin {runtime.code, runtime.env}
    /\ SpawnProcess(j, ~AgentRuns)
    /\ UNCHANGED <<machine, pidfile, runtime, lock, overlapped, begun, faults>>

\* No environment to read, or a part of the code without constella/.
ScriptFails(j) ==
    /\ At(j, "spawn")
    /\ runtime.env = "none" \/ runtime.code # "whole"
    /\ EndOf(j)
    /\ UNCHANGED <<procs, pidfile, runtime>> /\ NodeKept

ScriptWrites(j) ==
    /\ At(j, "fill")
    /\ SetPid(jobs[j].pid)
    /\ EndOf(j)
    /\ UNCHANGED <<procs, runtime>> /\ NodeKept

\* render_stop_command
StopKills(j) ==
    /\ At(j, "read")
    /\ IF ThePid \in {None, Torn} THEN Finish(j) ELSE GoTo(j, "unlink")
    /\ IF MaySignal(ThePid) THEN Signal(ThePid) ELSE UNCHANGED procs
    /\ UNCHANGED <<pidfile, runtime, lock>> /\ NodeKept

StopUnlinks(j) ==
    /\ At(j, "unlink")
    /\ SetPid(None)
    /\ Finish(j)
    /\ UNCHANGED <<procs, runtime, lock>> /\ NodeKept

\* REMOTE_START: not_provisioned without a start script or a runtime.
WatchNotProvisioned(j) ==
    /\ At(j, "lock")
    /\ "none" \in {runtime.starter, runtime.code}
    /\ Finish(j)
    /\ UNCHANGED <<procs, pidfile, runtime, lock>> /\ NodeKept

\* Busy when another script holds the lock. The runtime may be there, and
\* empty.
WatchLocks(j) ==
    /\ At(j, "lock")
    /\ runtime.starter # "none"
    /\ IF lock = None THEN lock' = j /\ GoTo(j, "look") ELSE Finish(j) /\ UNCHANGED lock
    /\ UNCHANGED <<procs, pidfile, runtime>> /\ NodeKept

\* Mutation: a file counts, whether or not its process lives.
WatchLooksAtFile(j) ==
    /\ At(j, "look")
    /\ IF ThePid # None THEN EndOf(j) ELSE GoTo(j, "scan") /\ UNCHANGED lock
    /\ UNCHANGED <<procs, pidfile, runtime>> /\ NodeKept

\* already_running, or refused when it is not the agent or no id is in the
\* file; a stale file goes.
WatchLooks(j) ==
    /\ At(j, "look")
    /\ IF ThePid = Torn \/ Running(ThePid) THEN EndOf(j) /\ UNCHANGED pidfile
       ELSE SetPid(None) /\ GoTo(j, "scan") /\ UNCHANGED lock
    /\ UNCHANGED <<procs, runtime>> /\ NodeKept

\* is_agent: its working directory is the runtime; when the runtime was
\* replaced under it, it is a directory that was deleted.
IsAgent(pid) == procs[pid].service = NodeAgent /\ ~procs[pid].deleted

\* Mutation: without a file nothing runs.
WatchTrusts(j) ==
    /\ At(j, "scan")
    /\ GoTo(j, "check") /\ UNCHANGED lock
    /\ UNCHANGED <<procs, pidfile, runtime>> /\ NodeKept

WatchScans(j) ==
    /\ At(j, "scan")
    /\ IF \E pid \in DOMAIN procs : IsAgent(pid) THEN EndOf(j)
       ELSE GoTo(j, "check") /\ UNCHANGED lock
    /\ UNCHANGED <<procs, pidfile, runtime>> /\ NodeKept

NodeStep(j) ==
    \/ RemoveRuntime(j) \/ UnpackRuntime(j)
    \/ \E file \in {"env", "starter"} : EmptyRemoteFile(j, file) \/ FillRemoteFile(j, file)
    \/ ScriptChecks(j) \/ ScriptSpawns(j) \/ ScriptFails(j)
    \/ TruncatePidFile(j) \/ ScriptWrites(j)
    \/ StopKills(j) \/ StopUnlinks(j)
    \/ WatchNotProvisioned(j) \/ WatchLocks(j) \/ WatchLooks(j) \/ WatchScans(j)
=============================================================================
