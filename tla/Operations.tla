------------------------------ MODULE Operations ------------------------------
(* The commands of a machine, and what goes wrong on it. *)
EXTENDS ServiceControl, NodeAgents

HostNext == \E j \in Slots : StartService(j) \/ StopService(j) \/ HostStep(j)
NodeCommand(j) == ClusterStart(j) \/ ClusterStop(j) \/ WatchStale(j)
NodeNext == \E j \in Slots : NodeCommand(j) \/ WatchMissing(j) \/ NodeStep(j)

Next ==
    \/ machine = "host" /\ HostNext
    \/ machine = "node" /\ NodeNext
    \/ \E pid \in Pids : Exit(pid)
    \/ Faults

Spec == Init /\ [][Next]_vars

\* Processes obey SIGTERM, scripts run to their end, and the watchdog checks
\* again and again.
FairSpec ==
    /\ Spec
    /\ \A pid \in Pids : WF_vars(Exit(pid))
    /\ \A j \in Slots : WF_vars(machine = "node" /\ NodeStep(j))
    /\ WF_vars(machine = "node" /\ \E j \in Slots : WatchMissing(j))

-----------------------------------------------------------------------------
(* Properties *)

\* The processes of a service that its file must tell of: not those that no
\* command came to write down; and on a node not an agent that was told to end,
\* since its file is removed at once.
Accountable(s) ==
    {p \in DOMAIN procs \ orphaned :
       procs[p].service = s /\ (procs[p].told => machine = "host")}

\* As long as no two commands run at once, there is at most one process of
\* each service, and its id is in the service's file or about to be written,
\* however the services are started, stopped, cut off and crash, and whoever
\* gets their process ids: a later stop reaches what an earlier start made.
OneOnFile ==
    ~overlapped =>
        \A s \in DOMAIN pidfile : \A p \in Accountable(s) :
            /\ Accountable(s) = {p}
            /\ pidfile[s] = p \/ \E j \in Slots : ToWrite(j) /\ jobs[j].pid = p

\* The watchdog's script starts no agent beside another one that runs the
\* node's code, not even one of which no file tells: commands that run at the
\* same time, and a new copy of the code, are the only ways around its checks.
WatchStarts(j) == At(j, "spawn") /\ jobs[j].kind = "watch" /\ jobs'[j] # None

WatchdogStartsNoSecond ==
    [][\A j \in Slots :
         WatchStarts(j) /\ jobs'[j].pc = "write" /\ ~overlapped =>
             ~ \E p \in DOMAIN procs : IsAgent(p)]_vars

\* A node's agent that crashed, or was gone with a reboot, runs again at last.
\* Four things keep the watchdog from it. A strange process has the id in the
\* file, or the file is empty, after a script that was cut off as it wrote it
\* or a loss of power: the watchdog refuses for ever, and only an operator's
\* start gets past. A start was cut off or failed on the way, and left the code,
\* the environment or the start script incomplete, or the node never had them.
Provisioned == {runtime.code, runtime.env, runtime.starter} = {"whole"}

NodeComesBack ==
    machine = "node" =>
        <>[](\/ AgentLives
             \/ ~Provisioned
             \/ \E p \in DOMAIN procs :
                   procs[p].service \in {Other, Stranger} /\ pidfile[NodeAgent] = p
             \/ pidfile[NodeAgent] = Torn)
=============================================================================
