---------------------------- MODULE ServiceControl ----------------------------
(* `constella service start` and `stop` on the manager's host (service.py). *)
EXTENDS PidFiles

Kept == UNCHANGED <<machine, runtime, lock, orphaned, overlapped, begun, faults>>

StartService(j) ==
    /\ begun < MaxBegun[machine] /\ begun' = begun + 1
    /\ BeginJob(j, "start", "check", LocalServices)

StopOrder == [i \in DOMAIN LocalServices |-> LocalServices[Len(LocalServices) + 1 - i]]

StopService(j) ==
    /\ begun < MaxBegun[machine] /\ begun' = begun + 1
    /\ BeginJob(j, "stop", "read", StopOrder)

\* The command is done with this service.
NextService(j) ==
    IF Len(jobs[j].todo) = 1 THEN Finish(j)
    ELSE jobs' = [jobs EXCEPT ![j].todo = Tail(@), ![j].pid = None,
                              ![j].pc = IF jobs[j].kind = "start" THEN "check" ELSE "read"]

\* The other services are started when the manager answers.
Started(j) == IF Service(j) = "manager" THEN GoTo(j, "wait") ELSE NextService(j)

\* start_process: a live process with the id in the file counts as the service.
CheckPidFile(j) ==
    /\ At(j, "check")
    /\ IF Running(pidfile[Service(j)]) THEN Started(j)
       ELSE GoTo(j, "spawn")
    /\ UNCHANGED <<procs, pidfile>> /\ Kept

Spawn(j) ==
    /\ At(j, "spawn")
    /\ SpawnProcess(j, FALSE)
    /\ UNCHANGED <<machine, pidfile, runtime, lock, overlapped, begun, faults>>

WritePidFile(j) ==
    /\ At(j, "fill")
    /\ pidfile' = [pidfile EXCEPT ![Service(j)] = jobs[j].pid]
    /\ Started(j)
    /\ UNCHANGED procs /\ Kept

ManagerAnswers(j) ==
    /\ At(j, "wait")
    /\ \E p \in DOMAIN procs : procs[p].service = "manager"
    /\ NextService(j)
    /\ UNCHANGED <<procs, pidfile>> /\ Kept

\* wait_for_manager raises, which ends the command.
ManagerDoesNotAnswer(j) ==
    /\ At(j, "wait")
    /\ Finish(j)
    /\ UNCHANGED <<procs, pidfile>> /\ Kept

Unlink(s) == pidfile' = [pidfile EXCEPT ![s] = None]

\* stop_process
ReadPidFile(j) ==
    /\ At(j, "read")
    /\ IF Running(pidfile[Service(j)])
       THEN GoWith(j, "kill", pidfile[Service(j)]) /\ UNCHANGED pidfile
       ELSE NextService(j) /\ Unlink(Service(j))
    /\ UNCHANGED procs /\ Kept

\* os.kill raises when the process has gone meanwhile or is another user's,
\* which ends the command.
Kill(j) ==
    /\ At(j, "kill")
    /\ IF MaySignal(jobs[j].pid) THEN Signal(jobs[j].pid) /\ GoTo(j, "gone")
       ELSE Finish(j) /\ UNCHANGED procs
    /\ UNCHANGED pidfile /\ Kept

SeeGone(j) ==
    /\ At(j, "gone")
    /\ ~Running(jobs[j].pid)
    /\ Unlink(Service(j))
    /\ NextService(j)
    /\ UNCHANGED procs /\ Kept

\* Mutation: the file goes, whether or not the process did.
UnlinkAnyway(j) ==
    /\ At(j, "gone")
    /\ Running(jobs[j].pid)
    /\ Unlink(Service(j))
    /\ NextService(j)
    /\ UNCHANGED procs /\ Kept

\* "still stopping": the file stays.
StillStopping(j) ==
    /\ At(j, "gone")
    /\ Running(jobs[j].pid)
    /\ NextService(j)
    /\ UNCHANGED <<procs, pidfile>> /\ Kept

HostStep(j) ==
    \/ CheckPidFile(j) \/ Spawn(j) \/ TruncatePidFile(j) \/ WritePidFile(j)
    \/ ManagerAnswers(j) \/ ManagerDoesNotAnswer(j)
    \/ ReadPidFile(j) \/ Kill(j) \/ SeeGone(j) \/ StillStopping(j)
=============================================================================
