------------------------------- MODULE PidFiles -------------------------------
(***************************************************************************)
(* The processes of one machine of the installation, the files with their  *)
(* process ids, and the commands that operators and the watchdog run on    *)
(* it: on the manager's host those of service.py (ServiceControl), on a    *)
(* node those of cluster_control.py and agent_watchdog.py (NodeAgents).    *)
(*                                                                         *)
(* A process is [service, told, deleted]: what it runs, whether it is      *)
(* about to end (it was sent SIGTERM, or what it was started with is       *)
(* incomplete), and whether the directory with its code was removed since. *)
(* A command is [kind, pc, todo, pid]: at pc, with the services in todo    *)
(* still to be dealt with; pid is the process that it knows of.            *)
(***************************************************************************)
EXTENDS Naturals, Sequences, FiniteSets

CONSTANTS Pids,         \* process ids are given again
          NodePids,     \* bound: those that are given on a node
          Slots,        \* commands that run at once
          None,
          Torn,         \* what a file holds that was opened for writing: nothing
          LocalServices,  \* the sequence in which start_service starts them
          MaxBegun,     \* bound: commands, by machine
          MaxFaults     \* bound: crashes, reboots, commands cut off

NodeAgent == "node agent"
Other == "other"         \* a process of the same user, not of the installation
Stranger == "stranger"   \* a process of another user

Local == {LocalServices[i] : i \in DOMAIN LocalServices}
ServicesOf(m) == IF m = "host" THEN Local ELSE {NodeAgent}

Places == {"check", "spawn", "write", "fill", "wait", "read", "kill", "gone", "remove",
           "unpack", "env", "fill env", "starter", "fill starter", "unlink", "lock", "look",
           "scan"}
Process == [service : Local \cup {NodeAgent, Other, Stranger}, told : BOOLEAN,
            deleted : BOOLEAN]
Job == [kind : {"start", "stop", "watch"}, pc : Places, todo : Seq(Local \cup {NodeAgent}),
        pid : Pids \cup {None}]

\* What a start puts on a node: the agent's code, its environment and its start
\* script.
Part == {"none", "part", "whole"}
Provision == [code : Part, env : Part, starter : Part]

ASSUME OperationsAssumption ==
    /\ LocalServices \in Seq(Local) \ {<<>>}
    /\ {Other, Stranger} \cap Local = {}
    /\ NodePids \subseteq Pids
    /\ None \notin Pids \cup Slots \cup Job
    /\ Torn \notin Pids \cup {None}

VARIABLES machine,      \* "host" or "node"
          procs,        \* the live processes, by id
          pidfile,      \* of each service: the id in its file, Torn, or None: no file
          jobs,         \* of each slot: the command that runs, or None
          runtime,      \* what is on a node: Provision
          lock,         \* the slot that holds agent-watchdog.lock, or None
          orphaned,     \* history: ids that no command came to write down
          overlapped,   \* history: commands ran at once
          begun, faults

historyVars == <<orphaned, overlapped, begun, faults>>
vars == <<machine, procs, pidfile, jobs, runtime, lock, orphaned, overlapped, begun, faults>>

Init ==
    /\ machine \in {"host", "node"}
    /\ procs = [p \in {} |-> None]
    /\ pidfile = [s \in ServicesOf(machine) |-> None]
    /\ jobs = [j \in Slots |-> None]
    /\ \E have \in {"none", "whole"} :
          /\ machine = "host" => have = "none"
          /\ runtime = [code |-> have, env |-> have, starter |-> have]
    /\ lock = None
    /\ orphaned = {}
    /\ overlapped = FALSE
    /\ begun = 0
    /\ faults = 0

\* pid_running, and /proc: whatever process it is.
Running(pid) == pid \in DOMAIN procs

\* kill -0: it fails on another user's process.
MaySignal(pid) == Running(pid) /\ procs[pid].service # Stranger

At(j, pc) == jobs[j] # None /\ jobs[j].pc = pc

\* It made a process, whose id is not in the file yet.
ToWrite(j) == At(j, "write") \/ At(j, "fill")
Service(j) == Head(jobs[j].todo)

-----------------------------------------------------------------------------
(* Effects that the commands have in common *)

GoTo(j, pc) == jobs' = [jobs EXCEPT ![j].pc = pc]
GoWith(j, pc, pid) == jobs' = [jobs EXCEPT ![j].pc = pc, ![j].pid = pid]
Finish(j) == jobs' = [jobs EXCEPT ![j] = None]

\* A command begins; two watchdogs are kept apart by their lock.
BeginJob(j, kind, pc, todo) ==
    /\ jobs[j] = None
    /\ jobs' = [jobs EXCEPT ![j] = [kind |-> kind, pc |-> pc, todo |-> todo, pid |-> None]]
    /\ overlapped' = (overlapped \/ \E i \in Slots : /\ jobs[i] # None
                                                     /\ {jobs[i].kind, kind} # {"watch"})
    /\ UNCHANGED <<machine, procs, pidfile, runtime, lock, orphaned, faults>>

SpawnProcess(j, told) ==
    \E pid \in (IF machine = "node" THEN NodePids ELSE Pids) \ DOMAIN procs :
        /\ procs' = [p \in DOMAIN procs \cup {pid} |->
                       IF p = pid
                       THEN [service |-> Service(j), told |-> told, deleted |-> FALSE]
                       ELSE procs[p]]
        /\ orphaned' = orphaned \ {pid}
        /\ GoWith(j, "write", pid)

\* Opening a file for writing empties it.
TruncatePidFile(j) ==
    /\ At(j, "write")
    /\ pidfile' = [pidfile EXCEPT ![Service(j)] = Torn]
    /\ GoTo(j, "fill")
    /\ UNCHANGED <<machine, procs, runtime, lock, historyVars>>

Signal(pid) == procs' = [procs EXCEPT ![pid].told = TRUE]

-----------------------------------------------------------------------------
(* What happens to processes *)

Without(pid) == [p \in DOMAIN procs \ {pid} |-> procs[p]]

\* A process that was told to ends, and so does one that cannot run.
Exit(pid) ==
    /\ Running(pid) /\ procs[pid].told
    /\ procs' = Without(pid)
    /\ UNCHANGED <<machine, pidfile, jobs, runtime, lock, historyVars>>

Fault == faults < MaxFaults /\ faults' = faults + 1

Crash(pid) ==
    /\ Fault
    /\ Running(pid) /\ ~procs[pid].told
    /\ procs' = Without(pid)
    /\ UNCHANGED <<machine, pidfile, jobs, runtime, lock, orphaned, overlapped, begun>>

\* Ids never run out: one is left that no strange process has.
LeavesAnId(pid) ==
    \E p \in NodePids \ {pid} : Running(p) => procs[p].service \notin {Other, Stranger}

\* A process of somebody else gets the id that a file still holds.
Reuse(pid) ==
    /\ Fault
    /\ ~Running(pid) /\ LeavesAnId(pid)
    /\ \E s \in DOMAIN pidfile : pidfile[s] = pid
    /\ \E who \in {Other, Stranger} :
          procs' = [p \in DOMAIN procs \cup {pid} |->
                      IF p = pid THEN [service |-> who, told |-> FALSE, deleted |-> FALSE]
                      ELSE procs[p]]
    /\ UNCHANGED <<machine, pidfile, jobs, runtime, lock, orphaned, overlapped, begun>>

\* The files survive, nothing else, and the text of a file is lost with the
\* power when it was not yet on the disk.
Reboot ==
    /\ Fault
    /\ procs' = [p \in {} |-> None]
    /\ jobs' = [j \in Slots |-> None]
    /\ lock' = None
    /\ orphaned' = {}
    /\ \E lost \in SUBSET {s \in DOMAIN pidfile : pidfile[s] # None} :
          pidfile' = [s \in DOMAIN pidfile |-> IF s \in lost THEN Torn ELSE pidfile[s]]
    /\ UNCHANGED <<machine, runtime, overlapped, begun>>

\* A command is cut off: interrupted, its SSH session lost, or timed out.
Abort(j) ==
    /\ Fault
    /\ jobs[j] # None
    /\ Finish(j)
    /\ lock' = IF lock = j THEN None ELSE lock
    /\ orphaned' = IF ToWrite(j) THEN orphaned \cup {jobs[j].pid} ELSE orphaned
    /\ UNCHANGED <<machine, procs, pidfile, runtime, overlapped, begun>>

Faults ==
    \/ \E pid \in Pids : Crash(pid) \/ Reuse(pid)
    \/ Reboot
    \/ \E j \in Slots : Abort(j)
=============================================================================
