--------------------------- MODULE OperationsProofs ---------------------------
(***************************************************************************)
(* TLAPS proof that the files with process ids tell of the processes, for  *)
(* any number of ids, services, commands and faults.                       *)
(***************************************************************************)
EXTENDS Operations, SequenceTheorems, TLAPS

-----------------------------------------------------------------------------
(* The invariant *)

TypeOK ==
    /\ machine \in {"host", "node"}
    /\ DOMAIN procs \subseteq Pids
    /\ procs \in [DOMAIN procs -> Process]
    /\ pidfile \in [ServicesOf(machine) -> Pids \cup {None, Torn}]
    /\ jobs \in [Slots -> Job \cup {None}]
    /\ \A j \in Slots : jobs[j] # None =>
          jobs[j].todo \in Seq(ServicesOf(machine)) \ {<<>>}
    /\ runtime \in Provision
    /\ overlapped \in BOOLEAN

\* Commands that ran with others make `overlapped` true, but for watchdogs.
Alone ==
    ~overlapped =>
        \A i, j \in Slots :
            i # j /\ jobs[i] # None /\ jobs[j] # None =>
                jobs[i].kind = "watch" /\ jobs[j].kind = "watch"

\* A watchdog's script goes on only with the lock.
Locked ==
    \A j \in Slots :
        jobs[j] # None /\ jobs[j].kind = "watch" /\ jobs[j].pc # "lock" => lock = j

Writing(j, s, p) == ToWrite(j) /\ Service(j) = s /\ jobs[j].pid = p

\* OneOnFile, and that the one who is about to write is of that service.
OnFile ==
    \A s \in ServicesOf(machine) : \A p \in Accountable(s) :
        /\ Accountable(s) = {p}
        /\ pidfile[s] = p \/ \E j \in Slots : Writing(j, s, p)

\* Before a process is made, or a node's file removed, there is none to tell of.
Cleared ==
    \A j \in Slots :
        At(j, "spawn") \/ At(j, "unlink") => Accountable(Service(j)) = {}

\* A command that has found or made a process knows the only one.
Known ==
    \A j \in Slots :
        ToWrite(j) \/ At(j, "kill") \/ At(j, "gone") =>
            Accountable(Service(j)) \subseteq {jobs[j].pid}

FilesTell == ~overlapped => OnFile /\ Cleared /\ Known

IInv == TypeOK /\ Alone /\ Locked /\ FilesTell

-----------------------------------------------------------------------------
(* What the commands' common effects do to the jobs *)

\* Job j goes on or ends, the other jobs stay.
JobStep(j) ==
    /\ jobs' \in [Slots -> Job \cup {None}]
    /\ \A i \in Slots \ {j} : jobs'[i] = jobs[i]
    /\ jobs'[j] # None =>
          /\ jobs'[j].kind = jobs[j].kind
          /\ jobs'[j].todo \in Seq(ServicesOf(machine)) \ {<<>>}

\* It goes to pc with the same services to be dealt with.
Goes(j, pc, pid) ==
    /\ JobStep(j)
    /\ jobs'[j] # None
    /\ jobs'[j].pc = pc /\ jobs'[j].pid = pid /\ jobs'[j].todo = jobs[j].todo

\* It is done with this service, or waits: none of the invariant's places.
Rests(j) ==
    /\ JobStep(j)
    /\ jobs'[j] # None =>
          jobs'[j].pc \in {"check", "read", "wait", "remove", "unpack", "look", "scan",
                           "env", "fill env", "starter", "fill starter"}

LEMMA GoToGoes ==
    ASSUME TypeOK, NEW j \in Slots, jobs[j] # None, NEW pc \in Places, GoTo(j, pc)
    PROVE  Goes(j, pc, jobs[j].pid)
<1>1. jobs[j] \in Job /\ jobs[j].todo \in Seq(ServicesOf(machine)) \ {<<>>}
  BY DEF TypeOK
<1>2. jobs' = [jobs EXCEPT ![j] = [jobs[j] EXCEPT !.pc = pc]]
  BY DEF GoTo, TypeOK
<1>3. /\ [jobs[j] EXCEPT !.pc = pc] \in Job
      /\ [jobs[j] EXCEPT !.pc = pc].kind = jobs[j].kind
      /\ [jobs[j] EXCEPT !.pc = pc].todo = jobs[j].todo
      /\ [jobs[j] EXCEPT !.pc = pc].pid = jobs[j].pid
      /\ [jobs[j] EXCEPT !.pc = pc].pc = pc
  BY <1>1 DEF Job
<1>4. jobs'[j] = [jobs[j] EXCEPT !.pc = pc]
  BY <1>2 DEF TypeOK
<1> QED
  BY <1>1, <1>2, <1>3, <1>4, OperationsAssumption DEF Goes, JobStep, TypeOK

LEMMA GoWithGoes ==
    ASSUME TypeOK, NEW j \in Slots, jobs[j] # None, NEW pc \in Places, NEW pid \in Pids,
           GoWith(j, pc, pid)
    PROVE  Goes(j, pc, pid)
<1> DEFINE new == [jobs[j] EXCEPT !.pc = pc, !.pid = pid]
<1>1. jobs[j] \in Job /\ jobs[j].todo \in Seq(ServicesOf(machine)) \ {<<>>}
  BY DEF TypeOK
<1>2. jobs' = [jobs EXCEPT ![j] = new]
  BY DEF GoWith, TypeOK
<1>3. /\ new \in Job /\ new.kind = jobs[j].kind /\ new.todo = jobs[j].todo
      /\ new.pid = pid /\ new.pc = pc
  BY <1>1 DEF Job
<1>4. jobs'[j] = new
  BY <1>2 DEF TypeOK
<1> QED
  BY <1>1, <1>2, <1>3, <1>4, OperationsAssumption DEF Goes, JobStep, TypeOK

LEMMA FinishRests ==
    ASSUME TypeOK, NEW j \in Slots, Finish(j)
    PROVE  Rests(j) /\ jobs'[j] = None
  BY DEF TypeOK, Finish, Rests, JobStep

LEMMA NextServiceRests ==
    ASSUME TypeOK, NEW j \in Slots, jobs[j] # None, NextService(j)
    PROVE  Rests(j)
<1>1. CASE Len(jobs[j].todo) = 1
  BY <1>1, FinishRests DEF NextService
<1>2. CASE Len(jobs[j].todo) # 1
  <2>0. PICK pc \in {"check", "read"} : pc = IF jobs[j].kind = "start" THEN "check" ELSE "read"
    OBVIOUS
  <2> DEFINE new == [jobs[j] EXCEPT !.todo = Tail(@), !.pid = None, !.pc = pc]
  <2>1. jobs[j] \in Job /\ jobs[j].todo \in Seq(ServicesOf(machine)) \ {<<>>}
    BY DEF TypeOK
  <2>2. Tail(jobs[j].todo) \in Seq(ServicesOf(machine)) \ {<<>>}
    <3> DEFINE todo == jobs[j].todo
    <3>1. Tail(todo) \in Seq(ServicesOf(machine)) /\ Len(Tail(todo)) = Len(todo) - 1
      BY <2>1, HeadTailProperties
    <3>2. Len(todo) \in Nat /\ Len(todo) # 0
      BY <2>1, EmptySeq, LenProperties
    <3>3. Len(Tail(todo)) # 0
      BY <1>2, <3>1, <3>2
    <3>4. Tail(todo) # <<>>
      BY <3>1, <3>3, EmptySeq
    <3> QED
      BY <3>1, <3>4
  <2>3. Tail(jobs[j].todo) \in Seq(Local \cup {NodeAgent})
    <3>1. jobs[j].todo \in Seq(Local \cup {NodeAgent})
      BY <2>1 DEF Job
    <3> QED
      BY <2>1, <3>1, HeadTailProperties
  <2>4. jobs' = [jobs EXCEPT ![j] = new]
    BY <1>2, <2>0 DEF NextService, TypeOK
  <2>5. new \in Job /\ new.kind = jobs[j].kind /\ new.todo = Tail(jobs[j].todo) /\ new.pc = pc
    <3>2. pc \in Places
      BY <2>0 DEF Places
    <3>3. new.kind = jobs[j].kind /\ new.todo = Tail(jobs[j].todo) /\ new.pc = pc
      BY <2>1 DEF Job
    <3>4. new \in Job
      BY <2>1, <2>3, <3>2 DEF Job
    <3> QED
      BY <3>3, <3>4
  <2>6. jobs'[j] = new
    BY <2>4 DEF TypeOK
  <2> QED
    BY <2>0, <2>2, <2>4, <2>5, <2>6 DEF Rests, JobStep, TypeOK
<1> QED
  BY <1>1, <1>2

LEMMA StartedRests ==
    ASSUME TypeOK, NEW j \in Slots, jobs[j] # None, Started(j)
    PROVE  Rests(j)
<1>1. CASE GoTo(j, "wait")
  BY <1>1, GoToGoes DEF Goes, Rests, Places
<1>2. CASE NextService(j)
  BY <1>2, NextServiceRests
<1> QED
  BY <1>1, <1>2 DEF Started

LEMMA ServiceType ==
    ASSUME TypeOK, NEW j \in Slots, jobs[j] # None
    PROVE  Service(j) \in ServicesOf(machine)
<1>1. jobs[j].todo \in Seq(ServicesOf(machine)) /\ jobs[j].todo # <<>>
  BY DEF TypeOK
<1> QED
  BY <1>1, HeadTailProperties DEF Service

-----------------------------------------------------------------------------
(* A step of one command *)

\* While no commands overlap, one that is past the watchdog's lock is the only one.
LEMMA OthersWait ==
    ASSUME IInv, ~overlapped, NEW j \in Slots, jobs[j] # None, jobs[j].pc # "lock",
           NEW i \in Slots, i # j, jobs[i] # None
    PROVE  jobs[i].pc = "lock"
  BY DEF IInv, Alone, Locked

\* What there is to tell of is then on file, unless this command is to write it.
LEMMA ToldByFile ==
    ASSUME IInv, ~overlapped, NEW j \in Slots, jobs[j] # None, jobs[j].pc # "lock",
           NEW s \in ServicesOf(machine), NEW p \in Accountable(s)
    PROVE  /\ Accountable(s) = {p}
           /\ pidfile[s] = p \/ Writing(j, s, p)
<1>1. /\ Accountable(s) = {p}
      /\ pidfile[s] = p \/ \E i \in Slots : Writing(i, s, p)
  BY DEF IInv, FilesTell, OnFile
<1>2. \A i \in Slots : Writing(i, s, p) => i = j
  BY OthersWait DEF Writing, ToWrite, At
<1> QED
  BY <1>1, <1>2

\* What a step of command j has to show.
LockKept(j) == lock' = lock \/ (jobs'[j] = None /\ lock' = IF lock = j THEN None ELSE lock)

TypesKept ==
    /\ machine' = machine /\ overlapped' = overlapped
    /\ DOMAIN procs' \subseteq Pids /\ procs' \in [DOMAIN procs' -> Process]
    /\ pidfile' \in [ServicesOf(machine) -> Pids \cup {None, Torn}]
    /\ runtime' \in Provision

\* The processes to tell of are on file, or the next thing that it writes.
Told(j) ==
    \A s \in ServicesOf(machine) : \A p \in Accountable(s)' :
        /\ Accountable(s)' = {p}
        /\ pidfile'[s] = p \/ Writing(j, s, p)'

\* And it knows what it must about its service.
Aware(j) ==
    jobs'[j] # None =>
        /\ jobs'[j].pc \in {"spawn", "unlink"} => Accountable(Service(j))' = {}
        /\ jobs'[j].pc \in {"write", "fill", "kill", "gone"} =>
              Accountable(Service(j))' \subseteq {jobs'[j].pid}

LEMMA CommandKeeps ==
    ASSUME IInv, NEW j \in Slots, jobs[j] # None, jobs[j].pc # "lock",
           JobStep(j), LockKept(j), TypesKept,
           ~overlapped => Told(j) /\ Aware(j)
    PROVE  IInv'
<1>1. TypeOK'
  <2>1. \A i \in Slots : jobs'[i] # None =>
           jobs'[i].todo \in Seq(ServicesOf(machine)) \ {<<>>}
    BY DEF JobStep, IInv, TypeOK
  <2> QED
    BY <2>1 DEF IInv, TypeOK, TypesKept, JobStep
<1>2. Alone'
  BY DEF IInv, Alone, JobStep, TypesKept
<1>3. Locked'
  BY DEF IInv, Locked, JobStep, LockKept
<1>4. FilesTell'
  <2> SUFFICES ASSUME ~overlapped
               PROVE  (OnFile /\ Cleared /\ Known)'
    BY DEF FilesTell, TypesKept
  <2>1. \A i \in Slots \ {j} : jobs'[i] = None \/ jobs'[i].pc = "lock"
    BY OthersWait DEF JobStep
  <2>2. OnFile'
    <3> SUFFICES ASSUME NEW s \in ServicesOf(machine), NEW p \in Accountable(s)'
                 PROVE  /\ Accountable(s)' = {p}
                        /\ pidfile'[s] = p \/ \E i \in Slots : Writing(i, s, p)'
      BY DEF OnFile, TypesKept
    <3> QED
      BY DEF Told
  <2>3. Cleared'
    BY <2>1 DEF Cleared, Aware, At
  <2>4. Known'
    BY <2>1 DEF Known, Aware, ToWrite, At
  <2> QED
    BY <2>2, <2>3, <2>4
<1> QED
  BY <1>1, <1>2, <1>3, <1>4 DEF IInv

\* Nothing more to tell of, and what was told of still is.
LEMMA StillTold ==
    ASSUME IInv, ~overlapped, NEW j \in Slots, jobs[j] # None, jobs[j].pc # "lock",
           \A s \in ServicesOf(machine) : \A p \in Accountable(s)' :
              /\ p \in Accountable(s)
              /\ pidfile[s] = p \/ Writing(j, s, p) => pidfile'[s] = p \/ Writing(j, s, p)'
    PROVE  Told(j)
<1> SUFFICES ASSUME NEW s \in ServicesOf(machine), NEW p \in Accountable(s)'
             PROVE  /\ Accountable(s)' = {p}
                    /\ pidfile'[s] = p \/ Writing(j, s, p)'
  BY DEF Told
<1>1. Accountable(s) = {p} /\ (pidfile[s] = p \/ Writing(j, s, p))
  BY ToldByFile
<1> QED
  BY <1>1

\* A command changes neither processes nor files, and knows nothing after.
LEMMA RestingKeeps ==
    ASSUME IInv, NEW j \in Slots, jobs[j] # None, jobs[j].pc \notin {"lock", "write", "fill"},
           Rests(j), LockKept(j), runtime' \in Provision,
           UNCHANGED <<machine, procs, pidfile, orphaned, overlapped>>
    PROVE  IInv'
<1>1. JobStep(j) /\ TypesKept
  BY DEF Rests, TypesKept, IInv, TypeOK
<1>2. \A s : Accountable(s)' = Accountable(s)
  BY DEF Accountable
<1>3. ~overlapped => Told(j) /\ Aware(j)
  BY <1>2, StillTold DEF Writing, ToWrite, At, Aware, Rests
<1> QED
  BY <1>1, <1>3, CommandKeeps

LEMMA StrangersServeNot ==
    \A s \in ServicesOf(machine) : s # Other /\ s # Stranger
  BY OperationsAssumption DEF ServicesOf, NodeAgent, Other, Stranger

\* A service of which no file tells has no process to tell of.
LEMMA Unheard ==
    ASSUME IInv, ~overlapped, NEW j \in Slots, jobs[j] # None,
           jobs[j].pc \notin {"lock", "write", "fill"}, NEW s \in ServicesOf(machine),
           ~MaySignal(pidfile[s])
    PROVE  Accountable(s) = {}
<1>1. \A p \in Accountable(s) : p \in DOMAIN procs /\ p \in Pids
  BY DEF Accountable, IInv, TypeOK
<1> QED
  <2> SUFFICES ASSUME NEW p \in Accountable(s) PROVE FALSE
    OBVIOUS
  <2>1. pidfile[s] = p
    BY ToldByFile DEF Writing, ToWrite, At
  <2>2. procs[p].service = s /\ s # Stranger
    BY StrangersServeNot DEF Accountable
  <2> QED
    BY <1>1, <2>1, <2>2 DEF MaySignal, Running

\* A command removes the file of a service without processes.
LEMMA UnlinkingKeeps ==
    ASSUME IInv, NEW j \in Slots, jobs[j] # None, jobs[j].pc \notin {"lock", "write", "fill"},
           JobStep(j), LockKept(j), NEW s \in ServicesOf(machine),
           pidfile' = [pidfile EXCEPT ![s] = None],
           UNCHANGED <<machine, procs, runtime, orphaned, overlapped>>,
           ~overlapped => Accountable(s) = {} /\ Aware(j)
    PROVE  IInv'
<1>1. TypesKept
  BY DEF TypesKept, IInv, TypeOK
<1>2. \A t : Accountable(t)' = Accountable(t)
  BY DEF Accountable
<1>3. \A t \in ServicesOf(machine) : t # s => pidfile'[t] = pidfile[t]
  BY DEF IInv, TypeOK
<1>4. ~overlapped => Told(j)
  BY <1>2, <1>3, StillTold DEF Writing, ToWrite, At
<1> QED
  BY <1>1, <1>4, CommandKeeps

\* A command makes a process of its service.
LEMMA SpawningKeeps ==
    ASSUME IInv, NEW j \in Slots, At(j, "spawn"), NEW told \in BOOLEAN,
           SpawnProcess(j, told), UNCHANGED <<machine, pidfile, runtime, lock, overlapped>>
    PROVE  IInv'
<1> PICK pid \in Pids \ DOMAIN procs :
       /\ procs' = [p \in DOMAIN procs \cup {pid} |->
                      IF p = pid
                      THEN [service |-> Service(j), told |-> told, deleted |-> FALSE]
                      ELSE procs[p]]
       /\ orphaned' = orphaned \ {pid}
       /\ GoWith(j, "write", pid)
  BY OperationsAssumption DEF SpawnProcess
<1>1. jobs[j] # None /\ jobs[j].pc = "spawn" /\ TypeOK
  BY DEF At, IInv
<1>2. Goes(j, "write", pid) /\ JobStep(j)
  BY <1>1, GoWithGoes DEF Goes, Places
<1>3. Service(j) \in ServicesOf(machine) /\ Service(j)' = Service(j)
  BY <1>1, <1>2, ServiceType DEF Goes, Service
<1>4. TypesKept
  <2>1. [service |-> Service(j), told |-> told, deleted |-> FALSE] \in Process
    BY <1>1, <1>3 DEF Process, TypeOK, ServicesOf
  <2>2. DOMAIN procs' = DOMAIN procs \cup {pid}
    OBVIOUS
  <2> QED
    BY <1>1, <2>1, <2>2 DEF TypesKept, TypeOK
<1>5. \A s : s # Service(j) => Accountable(s)' = Accountable(s)
  BY DEF Accountable
<1>6. ~overlapped => Accountable(Service(j))' \subseteq {pid}
  <2>1. ~overlapped => Accountable(Service(j)) = {}
    BY DEF IInv, FilesTell, Cleared
  <2>2. Accountable(Service(j))' \subseteq Accountable(Service(j)) \cup {pid}
    BY <1>3 DEF Accountable
  <2> QED
    BY <2>1, <2>2
<1>7. ~overlapped => Told(j) /\ Aware(j)
  <2> SUFFICES ASSUME ~overlapped PROVE Told(j) /\ Aware(j)
    OBVIOUS
  <2>1. \A s \in ServicesOf(machine) : \A p \in Accountable(s) :
           Accountable(s) = {p} /\ (pidfile[s] = p \/ Writing(j, s, p))
    BY <1>1, ToldByFile
  <2>2. \A s, p : ~Writing(j, s, p)
    BY <1>1 DEF Writing, ToWrite, At
  <2>3. Writing(j, Service(j), pid)'
    BY <1>2, <1>3 DEF Writing, ToWrite, At, Goes
  <2>4. ASSUME NEW s \in ServicesOf(machine), NEW p \in Accountable(s)'
        PROVE  Accountable(s)' = {p} /\ (pidfile'[s] = p \/ Writing(j, s, p)')
    <3>1. CASE s = Service(j)
      <4>1. Accountable(s)' = {pid} /\ p = pid
        BY <1>3, <1>6, <2>4, <3>1
      <4>2. Writing(j, s, pid)'
        BY <1>3, <2>3, <3>1 DEF Writing
      <4> QED
        BY <4>1, <4>2
    <3>2. CASE s # Service(j)
      BY <1>5, <2>1, <2>2, <3>2
    <3> QED
      BY <3>1, <3>2
  <2>5. Aware(j)
    BY <1>2, <1>3, <1>6 DEF Aware, Goes
  <2>6. Told(j)
    BY <2>4 DEF Told
  <2> QED
    BY <2>5, <2>6
<1> QED
  BY <1>1, <1>2, <1>4, <1>7, CommandKeeps DEF LockKept

\* A command writes down the process that it made.
LEMMA WritingKeeps ==
    ASSUME IInv, NEW j \in Slots, At(j, "fill"), Rests(j), LockKept(j),
           pidfile' = [pidfile EXCEPT ![Service(j)] = jobs[j].pid],
           UNCHANGED <<machine, procs, runtime, orphaned, overlapped>>
    PROVE  IInv'
<1>1. jobs[j] # None /\ jobs[j].pc = "fill" /\ JobStep(j)
  BY DEF At, Rests
<1>2. Service(j) \in ServicesOf(machine) /\ jobs[j].pid \in Pids \cup {None}
  BY <1>1, ServiceType DEF IInv, TypeOK, Job
<1>3. TypesKept
  BY <1>2 DEF TypesKept, IInv, TypeOK
<1>4. \A s : Accountable(s)' = Accountable(s)
  BY DEF Accountable
<1>5. \A s \in ServicesOf(machine) :
         pidfile'[s] = IF s = Service(j) THEN jobs[j].pid ELSE pidfile[s]
  BY DEF IInv, TypeOK
<1>6. ~overlapped => Told(j) /\ Aware(j)
  <2> SUFFICES ASSUME ~overlapped PROVE Told(j)
    BY DEF Aware, Rests
  <2>1. Accountable(Service(j)) \subseteq {jobs[j].pid}
    BY <1>2 DEF IInv, FilesTell, Known, ToWrite
  <2> QED
    BY <1>1, <1>4, <1>5, <2>1, StillTold DEF Writing, ToWrite, At
<1> QED
  BY <1>1, <1>3, <1>6, CommandKeeps

\* It empties the file first.
LEMMA TruncatingKeeps ==
    ASSUME IInv, NEW j \in Slots, TruncatePidFile(j)
    PROVE  IInv'
<1>0. jobs[j] # None /\ jobs[j].pc = "write" /\ TypeOK
  BY DEF TruncatePidFile, At, IInv
<1>1. Goes(j, "fill", jobs[j].pid) /\ JobStep(j) /\ Service(j)' = Service(j)
  BY <1>0, GoToGoes DEF TruncatePidFile, Goes, Places, Service
<1>2. \A s : Accountable(s)' = Accountable(s)
  BY DEF Accountable, TruncatePidFile, historyVars
<1>3. TypesKept
  BY <1>0 DEF TypesKept, TypeOK, TruncatePidFile, historyVars
<1>4. \A s \in ServicesOf(machine) :
         pidfile'[s] = IF s = Service(j) THEN Torn ELSE pidfile[s]
  BY <1>0 DEF TypeOK, TruncatePidFile
<1>5. ~overlapped => Told(j) /\ Aware(j)
  <2> SUFFICES ASSUME ~overlapped PROVE Told(j) /\ Aware(j)
    OBVIOUS
  <2>1. Accountable(Service(j)) \subseteq {jobs[j].pid}
    BY DEF IInv, FilesTell, Known, TruncatePidFile, ToWrite
  <2>2. Aware(j)
    BY <1>1, <1>2, <2>1 DEF Aware, Goes
  <2>3. \A s, p : Writing(j, s, p) => Writing(j, s, p)'
    BY <1>1 DEF Writing, ToWrite, At, Goes
  <2>4. Writing(j, Service(j), jobs[j].pid)
    BY <1>0 DEF Writing, ToWrite, At
  <2> QED
    BY <1>0, <1>2, <1>4, <2>1, <2>2, <2>3, <2>4, StillTold
<1> QED
  BY <1>0, <1>1, <1>3, <1>5, CommandKeeps DEF LockKept, TruncatePidFile

-----------------------------------------------------------------------------
(* The manager's host *)

LEMMA HostStepKeeps ==
    ASSUME IInv, machine = "host", NEW j \in Slots, HostStep(j)
    PROVE  IInv'
<1> USE DEF Kept
<1>0. TypeOK /\ jobs[j] # None /\ runtime \in Provision
  BY DEF IInv, TypeOK, HostStep, CheckPidFile, Spawn, TruncatePidFile, WritePidFile, ManagerAnswers,
         ManagerDoesNotAnswer, ReadPidFile, Kill, SeeGone, StillStopping, At
<1>s. Service(j) \in ServicesOf(machine)
  BY <1>0, ServiceType
<1>1. CASE CheckPidFile(j)
  <2>0. At(j, "check") /\ jobs[j].pc = "check" /\ UNCHANGED <<procs, pidfile>> /\ Kept
    BY <1>1 DEF CheckPidFile, At
  <2>1. CASE Started(j)
    BY <1>0, <2>0, <2>1, StartedRests, RestingKeeps DEF LockKept
  <2>2. CASE GoTo(j, "spawn") /\ ~Running(pidfile[Service(j)])
    <3>1. Goes(j, "spawn", jobs[j].pid) /\ JobStep(j)
      BY <1>0, <2>2, GoToGoes DEF Goes, Places
    <3>2. ~overlapped => Accountable(Service(j)) = {}
      BY <1>0, <1>s, <2>0, <2>2, Unheard DEF MaySignal
    <3>3. \A s : Accountable(s)' = Accountable(s)
      BY <2>0 DEF Accountable
    <3>4. Service(j)' = Service(j)
      BY <3>1 DEF Goes, Service
    <3>5. ~overlapped => Told(j) /\ Aware(j)
      BY <1>0, <2>0, <3>1, <3>2, <3>3, <3>4, StillTold DEF Aware, Goes, Writing, ToWrite, At
    <3>6. TypesKept
      BY <1>0, <2>0 DEF TypesKept, TypeOK
    <3> QED
      BY <1>0, <2>0, <3>1, <3>5, <3>6, CommandKeeps DEF LockKept
  <2> QED
    BY <1>1, <2>1, <2>2 DEF CheckPidFile
<1>2. CASE Spawn(j)
  BY <1>2, SpawningKeeps DEF Spawn
<1>3. CASE WritePidFile(j)
  BY <1>0, <1>3, StartedRests, WritingKeeps DEF WritePidFile, LockKept
<1>10. CASE TruncatePidFile(j)
  BY <1>10, TruncatingKeeps
<1>4. CASE ManagerAnswers(j)
  BY <1>0, <1>4, NextServiceRests, RestingKeeps DEF ManagerAnswers, LockKept, At
<1>5. CASE ManagerDoesNotAnswer(j)
  BY <1>0, <1>5, FinishRests, RestingKeeps DEF ManagerDoesNotAnswer, LockKept, At
<1>6. CASE ReadPidFile(j)
  <2>0. At(j, "read") /\ jobs[j].pc = "read" /\ UNCHANGED procs /\ Kept
    BY <1>6 DEF ReadPidFile, At
  <2>1. CASE /\ Running(pidfile[Service(j)])
             /\ GoWith(j, "kill", pidfile[Service(j)]) /\ UNCHANGED pidfile
    <3>1. pidfile[Service(j)] \in Pids
      BY <1>0, <2>1 DEF TypeOK, Running
    <3>2. Goes(j, "kill", pidfile[Service(j)]) /\ JobStep(j)
      BY <1>0, <2>1, <3>1, GoWithGoes DEF Goes, Places
    <3>3. \A s : Accountable(s)' = Accountable(s)
      BY <2>0 DEF Accountable
    <3>4. Service(j)' = Service(j)
      BY <3>2 DEF Goes, Service
    <3>5. ~overlapped => Accountable(Service(j)) \subseteq {pidfile[Service(j)]}
      BY <1>0, <1>s, <2>0, ToldByFile DEF Writing, ToWrite, At
    <3>6. ~overlapped => Told(j)
      BY <1>0, <2>0, <2>1, <3>3, StillTold DEF Writing, ToWrite, At
    <3>7. ~overlapped => Aware(j)
      BY <3>2, <3>3, <3>4, <3>5 DEF Aware, Goes
    <3>8. TypesKept
      BY <1>0, <2>0, <2>1 DEF TypesKept, TypeOK
    <3> QED
      BY <1>0, <2>0, <3>2, <3>6, <3>7, <3>8, CommandKeeps DEF LockKept
  <2>2. CASE /\ ~Running(pidfile[Service(j)])
             /\ NextService(j) /\ Unlink(Service(j))
    <3>1. Rests(j) /\ JobStep(j)
      BY <1>0, <2>2, NextServiceRests DEF Rests
    <3>2. ~overlapped => Accountable(Service(j)) = {}
      BY <1>0, <1>s, <2>0, <2>2, Unheard DEF MaySignal
    <3> QED
      BY <1>0, <1>s, <2>0, <2>2, <3>1, <3>2, UnlinkingKeeps DEF Unlink, LockKept, Aware, Rests
  <2> QED
    BY <1>6, <2>1, <2>2 DEF ReadPidFile
<1>7. CASE Kill(j)
  <2>0. At(j, "kill") /\ jobs[j].pc = "kill" /\ UNCHANGED pidfile /\ Kept
    BY <1>7 DEF Kill, At
  <2>1. CASE MaySignal(jobs[j].pid) /\ Signal(jobs[j].pid) /\ GoTo(j, "gone")
    <3>1. Goes(j, "gone", jobs[j].pid) /\ JobStep(j) /\ Service(j)' = Service(j)
      BY <1>0, <2>1, GoToGoes DEF Goes, Places, Service
    <3>2. /\ DOMAIN procs' = DOMAIN procs
          /\ \A p \in DOMAIN procs : procs'[p] \in Process /\ procs'[p].service = procs[p].service
      BY <1>0, <2>1 DEF Signal, TypeOK, Process
    <3>3. TypesKept
      BY <1>0, <2>0, <2>1, <3>2 DEF TypesKept, TypeOK, Signal
    <3>4. \A s : Accountable(s)' = Accountable(s)
      BY <2>0, <3>2 DEF Accountable
    <3>5. ~overlapped => Accountable(Service(j)) \subseteq {jobs[j].pid}
      BY <2>0 DEF IInv, FilesTell, Known
    <3>6. ~overlapped => Told(j)
      BY <1>0, <2>0, <3>4, StillTold DEF Writing, ToWrite, At
    <3>7. ~overlapped => Aware(j)
      BY <3>1, <3>4, <3>5 DEF Aware, Goes
    <3> QED
      BY <1>0, <2>0, <3>1, <3>3, <3>6, <3>7, CommandKeeps DEF LockKept
  <2>2. CASE Finish(j) /\ UNCHANGED procs
    BY <1>0, <2>0, <2>2, FinishRests, RestingKeeps DEF LockKept
  <2> QED
    BY <1>7, <2>1, <2>2 DEF Kill
<1>8. CASE SeeGone(j)
  <2>0. At(j, "gone") /\ jobs[j].pc = "gone" /\ UNCHANGED procs /\ Kept
    BY <1>8 DEF SeeGone, At
  <2>1. Rests(j) /\ JobStep(j)
    BY <1>0, <1>8, NextServiceRests DEF Rests, SeeGone
  <2>2. ~overlapped => Accountable(Service(j)) = {}
    BY <1>8, <2>0 DEF SeeGone, IInv, FilesTell, Known, Accountable, Running
  <2> QED
    BY <1>0, <1>s, <1>8, <2>0, <2>1, <2>2, UnlinkingKeeps
    DEF SeeGone, Unlink, LockKept, Aware, Rests
<1>9. CASE StillStopping(j)
  BY <1>0, <1>9, NextServiceRests, RestingKeeps DEF StillStopping, LockKept, At
<1> QED
  BY <1>1, <1>2, <1>3, <1>4, <1>5, <1>6, <1>7, <1>8, <1>9, <1>10 DEF HostStep

-----------------------------------------------------------------------------
(* A node *)

LEMMA EndOfRests ==
    ASSUME TypeOK, NEW j \in Slots, EndOf(j)
    PROVE  Rests(j) /\ LockKept(j) /\ jobs'[j] = None
  BY FinishRests DEF EndOf, LockKept

LEMMA NodeService ==
    ASSUME TypeOK, machine = "node", NEW j \in Slots, jobs[j] # None
    PROVE  Service(j) = NodeAgent
  BY ServiceType DEF ServicesOf

\* A script goes on to start an agent when the file tells of none.
LEMMA NodeFileRemoved ==
    ASSUME IInv, machine = "node", NEW j \in Slots, jobs[j] # None,
           jobs[j].pc \notin {"lock", "write", "fill"},
           NEW pc \in {"spawn", "scan"}, GoTo(j, pc), SetPid(None) \/ UNCHANGED pidfile,
           UNCHANGED lock, ~MaySignal(ThePid),
           UNCHANGED <<machine, procs, runtime, orphaned, overlapped>>
    PROVE  IInv'
<1>1. Goes(j, pc, jobs[j].pid) /\ JobStep(j) /\ pc \in Places
  BY GoToGoes DEF Goes, Places, IInv
<1>2. NodeAgent \in ServicesOf(machine)
  BY DEF ServicesOf
<1>3. ~overlapped => Accountable(NodeAgent) = {}
  BY <1>2, Unheard DEF ThePid
<1>4. Service(j)' = NodeAgent
  BY <1>1, NodeService DEF IInv, Goes, Service
<1>5. Accountable(NodeAgent)' = Accountable(NodeAgent)
  BY DEF Accountable
<1>6. ~overlapped => Aware(j)
  BY <1>1, <1>3, <1>4, <1>5 DEF Aware, Goes
<1>7. CASE SetPid(None)
  BY <1>1, <1>2, <1>3, <1>6, <1>7, UnlinkingKeeps DEF SetPid, LockKept
<1>8. CASE UNCHANGED pidfile
  <2>1. TypesKept
    BY <1>8 DEF TypesKept, IInv, TypeOK
  <2>2. \A s : Accountable(s)' = Accountable(s)
    BY DEF Accountable
  <2>3. ~overlapped => Told(j)
    BY <1>8, <2>2, StillTold DEF Writing, ToWrite, At
  <2> QED
    BY <1>1, <1>6, <2>1, <2>3, CommandKeeps DEF LockKept
<1> QED
  BY <1>7, <1>8

\* Only the watchdog's script takes the lock.
LEMMA WatchLocksKeeps ==
    ASSUME IInv, NEW j \in Slots, WatchLocks(j) \/ WatchNotProvisioned(j)
    PROVE  IInv'
<1> USE DEF NodeKept
<1>0. TypeOK /\ jobs[j] # None /\ jobs[j].pc = "lock"
  BY DEF IInv, WatchLocks, WatchNotProvisioned, At
<1>1. JobStep(j) /\ (jobs'[j] # None => jobs'[j].pc = "look" /\ lock = None /\ lock' = j)
  BY <1>0, GoToGoes, FinishRests DEF WatchLocks, WatchNotProvisioned, Goes, Rests, Places
<1>2. jobs'[j] = None => lock' = lock
  BY <1>0, GoToGoes, OperationsAssumption DEF WatchLocks, WatchNotProvisioned, Goes, Places
<1>3. TypeOK'
  <2>1. \A i \in Slots : jobs'[i] # None =>
           jobs'[i].todo \in Seq(ServicesOf(machine)) \ {<<>>}
    BY <1>0, <1>1 DEF JobStep, TypeOK
  <2> QED
    BY <1>0, <1>1, <2>1 DEF TypeOK, JobStep, WatchLocks, WatchNotProvisioned
<1>4. Alone'
  BY <1>0, <1>1 DEF IInv, Alone, JobStep, WatchLocks, WatchNotProvisioned
<1>5. Locked'
  BY <1>0, <1>1, <1>2, OperationsAssumption DEF IInv, Locked, JobStep
<1>6. FilesTell'
  <2> SUFFICES ASSUME ~overlapped
               PROVE  (OnFile /\ Cleared /\ Known)'
    BY DEF FilesTell, WatchLocks, WatchNotProvisioned
  <2>1. \A s : Accountable(s)' = Accountable(s)
    BY DEF Accountable, WatchLocks, WatchNotProvisioned
  <2>2. \A i \in Slots, pc \in {"write", "fill", "spawn", "unlink", "kill", "gone"} :
           At(i, pc) <=> At(i, pc)'
    BY <1>0, <1>1 DEF At, JobStep
  <2>3. \A i \in Slots \ {j} : Service(i)' = Service(i) /\ jobs'[i] = jobs[i]
    BY <1>1 DEF Service, JobStep
  <2>4. OnFile'
    BY <1>0, <2>1, <2>2, <2>3 DEF OnFile, IInv, FilesTell, Writing, ToWrite, At, WatchLocks, WatchNotProvisioned
  <2>5. Cleared'
    BY <1>0, <2>1, <2>2, <2>3 DEF Cleared, IInv, FilesTell, At
  <2>6. Known'
    BY <1>0, <2>1, <2>2, <2>3 DEF Known, IInv, FilesTell, ToWrite, At
  <2> QED
    BY <2>4, <2>5, <2>6
<1> QED
  BY <1>3, <1>4, <1>5, <1>6 DEF IInv

LEMMA FileStages ==
    ASSUME NEW file \in {"env", "starter"}
    PROVE  /\ Filling[file] \in {"fill env", "fill starter"}
           /\ Following[file] \in {"starter", "check"}
<1>1. CASE file = "env"
  BY <1>1 DEF Filling, Following
<1>2. CASE file = "starter"
  BY <1>2 DEF Filling, Following
<1> QED
  BY <1>1, <1>2

LEMMA NodeStepKeeps ==
    ASSUME IInv, machine = "node", NEW j \in Slots, NodeStep(j)
    PROVE  IInv'
<1> USE DEF NodeKept
<1>0. TypeOK /\ jobs[j] # None /\ runtime \in Provision
  BY DEF IInv, TypeOK, NodeStep, RemoveRuntime, UnpackRuntime, EmptyRemoteFile, FillRemoteFile,
         ScriptChecks, ScriptSpawns, ScriptFails, TruncatePidFile, ScriptWrites, StopKills,
         StopUnlinks, WatchNotProvisioned, WatchLocks, WatchLooks, WatchScans, At
<1>s. Service(j) = NodeAgent /\ NodeAgent \in ServicesOf(machine)
  BY <1>0, NodeService DEF ServicesOf
<1>1. CASE RemoveRuntime(j)
  <2>0. At(j, "remove") /\ jobs[j].pc = "remove" /\ UNCHANGED <<pidfile, lock>> /\ NodeKept
    BY <1>1 DEF RemoveRuntime, At
  <2>1. Rests(j) /\ JobStep(j)
    BY <1>0, <1>1, GoToGoes DEF RemoveRuntime, Goes, Rests, Places
  <2>2. runtime' \in Provision
    BY <1>0, <1>1 DEF RemoveRuntime, Provision, Part
  <2>3. /\ DOMAIN procs' = DOMAIN procs
        /\ \A p \in DOMAIN procs :
              /\ procs'[p] \in Process
              /\ procs'[p].service = procs[p].service /\ procs'[p].told = procs[p].told
    <3>1. CASE DeleteUnder
      BY <1>0, <3>1 DEF DeleteUnder, TypeOK, Process
    <3>2. CASE UNCHANGED procs
      BY <1>0, <3>2 DEF TypeOK
    <3> QED
      BY <1>1, <3>1, <3>2 DEF RemoveRuntime
  <2>4. procs' \in [DOMAIN procs' -> Process]
    <3>1. CASE DeleteUnder
      BY <2>3, <3>1 DEF DeleteUnder
    <3>2. CASE UNCHANGED procs
      BY <1>0, <3>2 DEF TypeOK
    <3> QED
      BY <1>1, <3>1, <3>2 DEF RemoveRuntime
  <2>5. TypesKept
    BY <1>0, <2>0, <2>2, <2>3, <2>4 DEF TypesKept, TypeOK
  <2>6. \A s : Accountable(s)' = Accountable(s)
    BY <2>0, <2>3 DEF Accountable
  <2>7. ~overlapped => Told(j) /\ Aware(j)
    BY <1>0, <2>0, <2>1, <2>6, StillTold DEF Writing, ToWrite, At, Aware, Rests
  <2> QED
    BY <1>0, <2>0, <2>1, <2>5, <2>7, CommandKeeps DEF LockKept
<1>2. CASE UnpackRuntime(j)
  <2>1. Rests(j)
    BY <1>0, <1>2, GoToGoes, FinishRests DEF UnpackRuntime, Goes, Rests, Places
  <2>2. runtime' \in Provision
    BY <1>0, <1>2 DEF UnpackRuntime, Piped, Provision, Part
  <2> QED
    BY <1>0, <1>2, <2>1, <2>2, RestingKeeps DEF UnpackRuntime, LockKept, At
<1>12. ASSUME NEW file \in {"env", "starter"}, EmptyRemoteFile(j, file) \/ FillRemoteFile(j, file)
       PROVE  IInv'
  <2>0. jobs[j].pc \notin {"lock", "write", "fill"}
    BY <1>12, FileStages DEF EmptyRemoteFile, FillRemoteFile, At
  <2>1. Rests(j)
    <3>1. ASSUME NEW pc \in {"fill env", "fill starter", "starter", "check"}, GoTo(j, pc)
          PROVE  Rests(j)
      BY <1>0, <3>1, GoToGoes DEF Goes, Rests, Places
    <3> QED
      BY <1>0, <1>12, <3>1, FileStages, FinishRests DEF EmptyRemoteFile, FillRemoteFile
  <2>2. runtime' \in Provision
    BY <1>0, <1>12 DEF EmptyRemoteFile, FillRemoteFile, Provision, Part
  <2>3. UNCHANGED <<machine, procs, pidfile, lock, orphaned, overlapped>>
    BY <1>12 DEF EmptyRemoteFile, FillRemoteFile
  <2> QED
    BY <1>0, <2>0, <2>1, <2>2, <2>3, RestingKeeps DEF LockKept
<1>3. CASE ScriptChecks(j)
  <2>0. jobs[j].pc \notin {"lock", "write", "fill"}
    BY <1>3 DEF ScriptChecks, At
  <2>1. CASE EndOf(j) /\ UNCHANGED pidfile
    BY <1>0, <1>3, <2>0, <2>1, EndOfRests, RestingKeeps DEF ScriptChecks
  <2>2. CASE /\ ~MaySignal(ThePid) /\ GoTo(j, "spawn") /\ UNCHANGED lock
             /\ SetPid(None) \/ UNCHANGED pidfile
    BY <1>0, <1>3, <2>0, <2>2, NodeFileRemoved DEF ScriptChecks
  <2> QED
    BY <1>3, <2>1, <2>2 DEF ScriptChecks
<1>4. CASE ScriptSpawns(j)
  BY <1>0, <1>4, SpawningKeeps DEF ScriptSpawns, AgentRuns
<1>5. CASE ScriptFails(j)
  BY <1>0, <1>5, EndOfRests, RestingKeeps DEF ScriptFails, At
<1>6. CASE ScriptWrites(j)
  BY <1>0, <1>s, <1>6, EndOfRests, WritingKeeps DEF ScriptWrites, SetPid
<1>7. CASE StopKills(j)
  <2>0. At(j, "read") /\ jobs[j].pc = "read" /\ UNCHANGED <<pidfile, runtime, lock>> /\ NodeKept
    BY <1>7 DEF StopKills, At
  <2>1. CASE ThePid \in {None, Torn} /\ Finish(j)
    <3>1. UNCHANGED procs
      BY <1>0, <1>7, <2>1, OperationsAssumption DEF StopKills, MaySignal, Running, TypeOK
    <3> QED
      BY <1>0, <2>0, <2>1, <3>1, FinishRests, RestingKeeps DEF LockKept
  <2>2. CASE /\ GoTo(j, "unlink")
             /\ IF MaySignal(ThePid) THEN Signal(ThePid) ELSE UNCHANGED procs
    <3>1. Goes(j, "unlink", jobs[j].pid) /\ JobStep(j) /\ Service(j)' = NodeAgent
      BY <1>0, <1>s, <2>2, GoToGoes DEF Goes, Places, Service
    <3>2. /\ DOMAIN procs' = DOMAIN procs
          /\ \A p \in DOMAIN procs :
                /\ procs'[p] \in Process
                /\ procs'[p].service = procs[p].service
                /\ procs[p].told => procs'[p].told
          /\ MaySignal(ThePid) => procs'[ThePid].told
      <4>1. CASE MaySignal(ThePid) /\ Signal(ThePid)
        BY <1>0, <4>1 DEF Signal, TypeOK, Process, Running, MaySignal
      <4>2. CASE ~MaySignal(ThePid) /\ UNCHANGED procs
        BY <1>0, <4>2 DEF TypeOK
      <4> QED
        BY <2>2, <4>1, <4>2
    <3>3. procs' \in [DOMAIN procs' -> Process]
      <4>1. CASE Signal(ThePid)
        BY <1>0, <3>2, <4>1 DEF Signal, TypeOK
      <4>2. CASE UNCHANGED procs
        BY <1>0, <4>2 DEF TypeOK
      <4> QED
        BY <2>2, <4>1, <4>2
    <3>4. TypesKept
      BY <1>0, <2>0, <3>2, <3>3 DEF TypesKept, TypeOK
    <3>5. \A s \in ServicesOf(machine) : \A p \in Accountable(s)' :
             p \in Accountable(s) /\ p # ThePid
      BY <2>0, <3>2, StrangersServeNot DEF Accountable, Running, MaySignal
    <3>6. ~overlapped => Told(j)
      BY <1>0, <2>0, <3>5, StillTold DEF Writing, ToWrite, At
    <3>7. ~overlapped => Accountable(NodeAgent)' = {}
      <4>1. ~overlapped => \A p \in Accountable(NodeAgent) : p = ThePid
        BY <1>0, <1>s, <2>0, ToldByFile DEF ThePid, Writing, ToWrite, At
      <4> QED
        BY <1>s, <3>5, <4>1
    <3>8. ~overlapped => Aware(j)
      BY <3>1, <3>7 DEF Aware, Goes
    <3> QED
      BY <1>0, <2>0, <3>1, <3>4, <3>6, <3>8, CommandKeeps DEF LockKept
  <2> QED
    BY <1>7, <2>1, <2>2 DEF StopKills
<1>8. CASE StopUnlinks(j)
  <2>0. jobs[j].pc = "unlink" /\ Rests(j) /\ JobStep(j) /\ jobs'[j] = None
    BY <1>0, <1>8, FinishRests DEF StopUnlinks, At, Rests
  <2>1. ~overlapped => Accountable(NodeAgent) = {}
    BY <1>0, <1>s, <2>0 DEF IInv, FilesTell, Cleared, At
  <2> QED
    BY <1>0, <1>s, <1>8, <2>0, <2>1, UnlinkingKeeps DEF StopUnlinks, SetPid, LockKept, Aware
<1>13. CASE TruncatePidFile(j)
  BY <1>13, TruncatingKeeps
<1>9. CASE WatchLocks(j) \/ WatchNotProvisioned(j)
  BY <1>9, WatchLocksKeeps
<1>10. CASE WatchLooks(j)
  <2>0. jobs[j].pc \notin {"lock", "write", "fill"}
    BY <1>10 DEF WatchLooks, At
  <2>1. CASE EndOf(j) /\ UNCHANGED pidfile
    BY <1>0, <1>10, <2>0, <2>1, EndOfRests, RestingKeeps DEF WatchLooks
  <2>2. CASE /\ ~Running(ThePid)
             /\ SetPid(None) /\ GoTo(j, "scan") /\ UNCHANGED lock
    BY <1>0, <1>10, <2>0, <2>2, NodeFileRemoved DEF WatchLooks, MaySignal
  <2> QED
    BY <1>10, <2>1, <2>2 DEF WatchLooks
<1>11. CASE WatchScans(j)
  <2>0. jobs[j].pc \notin {"lock", "write", "fill"}
    BY <1>11 DEF WatchScans, At
  <2>1. Rests(j) /\ LockKept(j)
    BY <1>0, <1>11, EndOfRests, GoToGoes DEF WatchScans, Goes, Rests, Places, LockKept
  <2> QED
    BY <1>0, <1>11, <2>0, <2>1, RestingKeeps DEF WatchScans
<1> QED
  BY <1>1, <1>2, <1>3, <1>4, <1>5, <1>6, <1>7, <1>8, <1>9, <1>10, <1>11, <1>12, <1>13 DEF NodeStep

-----------------------------------------------------------------------------
(* Commands begin *)

\* Nothing changes but that slot j has a command that knows nothing yet.
LEMMA BeginningKeeps ==
    ASSUME IInv, NEW j \in Slots, NEW kind \in {"start", "stop", "watch"},
           NEW pc \in {"check", "read", "remove", "env", "lock"}, kind = "watch" => pc = "lock",
           NEW todo \in Seq(ServicesOf(machine)) \ {<<>>},
           todo \in Seq(Local \cup {NodeAgent}), BeginJob(j, kind, pc, todo)
    PROVE  IInv'
<1> DEFINE new == [kind |-> kind, pc |-> pc, todo |-> todo, pid |-> None]
<1>0. TypeOK
  BY DEF IInv
<1>1. new \in Job /\ jobs[j] = None /\ jobs' = [jobs EXCEPT ![j] = new]
  BY DEF Job, Places, BeginJob
<1>2. jobs'[j] = new /\ new # None /\ \A i \in Slots \ {j} : jobs'[i] = jobs[i]
  BY <1>0, <1>1, OperationsAssumption DEF TypeOK
<1>3. jobs' \in [Slots -> Job \cup {None}]
  BY <1>0, <1>1 DEF TypeOK
<1>4. TypeOK'
  <2>1. \A i \in Slots : jobs'[i] # None =>
           jobs'[i].todo \in Seq(ServicesOf(machine)) \ {<<>>}
    BY <1>0, <1>2 DEF TypeOK
  <2> QED
    BY <1>0, <1>3, <2>1 DEF TypeOK, BeginJob
<1>5. Alone'
  <2> SUFFICES ASSUME ~overlapped', NEW i \in Slots, NEW k \in Slots, i # k,
                      jobs'[i] # None, jobs'[k] # None
               PROVE  jobs'[i].kind = "watch" /\ jobs'[k].kind = "watch"
    BY DEF Alone
  <2>1. ~overlapped /\ ~ \E h \in Slots : jobs[h] # None /\ {jobs[h].kind, kind} # {"watch"}
    BY <1>0 DEF BeginJob, TypeOK
  <2>2. \A h \in Slots : jobs[h] # None => jobs[h].kind = "watch" /\ kind = "watch"
    BY <2>1
  <2> QED
    BY <1>2, <2>2
<1>6. Locked'
  BY <1>1, <1>2 DEF IInv, Locked, BeginJob
<1>7. FilesTell'
  <2> SUFFICES ASSUME ~overlapped'
               PROVE  (OnFile /\ Cleared /\ Known)'
    BY DEF FilesTell
  <2>0. ~overlapped
    BY DEF BeginJob
  <2>1. \A s : Accountable(s)' = Accountable(s)
    BY DEF Accountable, BeginJob
  <2>2. \A i \in Slots : \A at \in {"write", "fill", "spawn", "unlink", "kill", "gone"} :
           At(i, at)' => i # j
    BY <1>2 DEF At
  <2>3. \A i \in Slots \ {j} : Service(i)' = Service(i) /\ \A at : At(i, at)' <=> At(i, at)
    BY <1>2 DEF Service, At
  <2>4. OnFile'
    <3>1. \A i \in Slots : \A s, p : Writing(i, s, p) => Writing(i, s, p)'
      BY <1>1, <1>2 DEF Writing, ToWrite, At, Service
    <3> QED
      BY <2>0, <2>1, <3>1 DEF OnFile, IInv, FilesTell, BeginJob
  <2>5. Cleared'
    BY <2>0, <2>1, <2>2, <2>3 DEF Cleared, IInv, FilesTell
  <2>6. Known'
    BY <1>2, <2>0, <2>1, <2>2, <2>3 DEF Known, IInv, FilesTell, ToWrite
  <2> QED
    BY <2>4, <2>5, <2>6
<1> QED
  BY <1>4, <1>5, <1>6, <1>7 DEF IInv

LEMMA StopOrderType == StopOrder \in Seq(Local) \ {<<>>}
<1>1. LocalServices \in Seq(Local) /\ LocalServices # <<>>
  BY OperationsAssumption
<1>2. /\ Len(LocalServices) \in Nat \ {0}
      /\ DOMAIN LocalServices = 1 .. Len(LocalServices)
      /\ \A i \in 1 .. Len(LocalServices) : LocalServices[i] \in Local
  BY <1>1, EmptySeq, LenProperties, ElementOfSeq
<1>3. \A i \in 1 .. Len(LocalServices) :
         Len(LocalServices) + 1 - i \in 1 .. Len(LocalServices)
  BY <1>2
<1>4. StopOrder \in [1 .. Len(LocalServices) -> Local]
  BY <1>2, <1>3 DEF StopOrder
<1>5. StopOrder \in Seq(Local)
  BY <1>2, <1>4, SeqDef
<1>6. StopOrder # <<>>
  <2>1. DOMAIN StopOrder # {}
    BY <1>2 DEF StopOrder
  <2> QED
    BY <2>1
<1> QED
  BY <1>5, <1>6

LEMMA BeginKeeps ==
    ASSUME IInv, NEW j \in Slots,
           \/ machine = "host" /\ (StartService(j) \/ StopService(j))
           \/ machine = "node" /\ (NodeCommand(j) \/ WatchMissing(j))
    PROVE  IInv'
<1>1. Seq(Local) \subseteq Seq(Local \cup {NodeAgent})
  BY SeqMonotonic
<1>2. CASE machine = "host"
  <2>1. /\ LocalServices \in Seq(ServicesOf(machine)) \ {<<>>}
        /\ StopOrder \in Seq(ServicesOf(machine)) \ {<<>>}
        /\ LocalServices \in Seq(Local \cup {NodeAgent})
        /\ StopOrder \in Seq(Local \cup {NodeAgent})
    BY <1>1, <1>2, StopOrderType, OperationsAssumption DEF ServicesOf
  <2> QED
    BY <1>2, <2>1, BeginningKeeps DEF StartService, StopService
<1>3. CASE machine = "node"
  <2>1. /\ <<NodeAgent>> \in Seq(ServicesOf(machine)) \ {<<>>}
        /\ <<NodeAgent>> \in Seq(Local \cup {NodeAgent})
    BY <1>3 DEF ServicesOf
  <2> QED
    BY <1>3, <2>1, BeginningKeeps
    DEF NodeCommand, ClusterStart, ClusterStop, WatchStale, WatchMissing, StartRemote
<1> QED
  BY <1>2, <1>3

-----------------------------------------------------------------------------
(* Processes end, commands are cut off *)

\* No new process to tell of, no command goes on.
LEMMA LosingKeeps ==
    ASSUME IInv, TypeOK',
           \A j \in Slots : jobs'[j] = jobs[j] \/ jobs'[j] = None,
           \A j \in Slots : jobs'[j] # None => (lock' = j <=> lock = j),
           \A s \in ServicesOf(machine) : Accountable(s)' \subseteq Accountable(s),
           \A j \in Slots : \A s, p : Writing(j, s, p) =>
              Writing(j, s, p)' \/ p \notin Accountable(s)',
           \A s \in ServicesOf(machine) : pidfile'[s] = pidfile[s] \/ Accountable(s)' = {},
           UNCHANGED <<machine, overlapped>>
    PROVE  IInv'
<1>1. Alone' /\ Locked'
  BY DEF IInv, Alone, Locked
<1>2. FilesTell'
  <2> SUFFICES ASSUME ~overlapped
               PROVE  (OnFile /\ Cleared /\ Known)'
    BY DEF FilesTell
  <2>1. OnFile'
    <3> SUFFICES ASSUME NEW s \in ServicesOf(machine), NEW p \in Accountable(s)'
                 PROVE  /\ Accountable(s)' = {p}
                        /\ pidfile'[s] = p \/ \E j \in Slots : Writing(j, s, p)'
      BY DEF OnFile
    <3>1. Accountable(s) = {p} /\ (pidfile[s] = p \/ \E j \in Slots : Writing(j, s, p))
      BY DEF IInv, FilesTell, OnFile
    <3> QED
      BY <3>1
  <2>2. \A j \in Slots : \A at : At(j, at)' =>
           At(j, at) /\ jobs'[j] = jobs[j] /\ Service(j)' = Service(j)
    BY DEF At, Service
  <2>3. Cleared'
    <3> SUFFICES ASSUME NEW j \in Slots, (At(j, "spawn") \/ At(j, "unlink"))'
                 PROVE  Accountable(Service(j))' = {}
      BY DEF Cleared
    <3>0. Service(j) \in ServicesOf(machine)
      BY <2>2, ServiceType DEF At, IInv
    <3>1. Accountable(Service(j)) = {} /\ Service(j)' = Service(j)
      BY <2>2 DEF IInv, FilesTell, Cleared
    <3> QED
      BY <3>0, <3>1
  <2>4. Known'
    <3> SUFFICES ASSUME NEW j \in Slots, (ToWrite(j) \/ At(j, "kill") \/ At(j, "gone"))'
                 PROVE  Accountable(Service(j))' \subseteq {jobs'[j].pid}
      BY DEF Known
    <3>0. Service(j) \in ServicesOf(machine)
      BY <2>2, ServiceType DEF ToWrite, At, IInv
    <3>1. /\ Accountable(Service(j)) \subseteq {jobs[j].pid}
          /\ Service(j)' = Service(j) /\ jobs'[j] = jobs[j]
      BY <2>2 DEF IInv, FilesTell, Known, ToWrite
    <3> QED
      BY <3>0, <3>1
  <2> QED
    BY <2>1, <2>3, <2>4
<1> QED
  BY <1>1, <1>2 DEF IInv

LEMMA EndingKeeps ==
    ASSUME IInv, NEW pid \in Pids, procs' = Without(pid),
           UNCHANGED <<machine, pidfile, jobs, runtime, lock, orphaned, overlapped>>
    PROVE  IInv'
<1>1. TypeOK'
  BY DEF IInv, TypeOK, Without
<1>2. \A s : Accountable(s)' \subseteq Accountable(s)
  BY DEF Accountable, Without
<1>3. \A j \in Slots : \A s, p : Writing(j, s, p) => Writing(j, s, p)'
  BY DEF Writing, ToWrite, At, Service
<1> QED
  BY <1>1, <1>2, <1>3, LosingKeeps

LEMMA FaultsKeep ==
    ASSUME IInv, Faults
    PROVE  IInv'
<1>0. TypeOK
  BY DEF IInv
<1>1. ASSUME NEW pid \in Pids, Crash(pid)
      PROVE  IInv'
  BY <1>1, EndingKeeps DEF Crash
<1>2. ASSUME NEW pid \in Pids, Reuse(pid)
      PROVE  IInv'
  <2>1. PICK who \in {Other, Stranger} :
           procs' = [p \in DOMAIN procs \cup {pid} |->
                       IF p = pid THEN [service |-> who, told |-> FALSE, deleted |-> FALSE]
                       ELSE procs[p]]
    BY <1>2 DEF Reuse
  <2>2. TypeOK'
    <3>1. [service |-> who, told |-> FALSE, deleted |-> FALSE] \in Process
      BY DEF Process
    <3> QED
      BY <1>0, <1>2, <2>1, <3>1 DEF TypeOK, Reuse
  <2>3. \A s \in ServicesOf(machine) : s # Other /\ s # Stranger
    BY StrangersServeNot
  <2>4. \A s \in ServicesOf(machine) : Accountable(s)' = Accountable(s)
    BY <1>2, <2>1, <2>3 DEF Accountable, Reuse, Running
  <2>5. \A j \in Slots : \A s, p : Writing(j, s, p) => Writing(j, s, p)'
    BY <1>2 DEF Writing, ToWrite, At, Service, Reuse
  <2> QED
    BY <1>2, <2>2, <2>4, <2>5, LosingKeeps DEF Reuse
<1>3. CASE Reboot
  <2>1. TypeOK'
    BY <1>0, <1>3 DEF TypeOK, Reboot
  <2>2. \A s : Accountable(s)' = {}
    BY <1>3 DEF Accountable, Reboot
  <2>3. \A j \in Slots : jobs'[j] = None
    BY <1>3 DEF Reboot
  <2> QED
    BY <1>3, <2>1, <2>2, <2>3, LosingKeeps DEF Reboot
<1>4. ASSUME NEW j \in Slots, Abort(j)
      PROVE  IInv'
  <2>1. TypeOK'
    BY <1>0, <1>4 DEF TypeOK, Abort, Finish
  <2>2. jobs'[j] = None /\ \A i \in Slots \ {j} : jobs'[i] = jobs[i]
    BY <1>0, <1>4 DEF Abort, Finish, TypeOK
  <2>3. \A s : Accountable(s)' \subseteq Accountable(s)
    BY <1>4 DEF Accountable, Abort
  <2>4. \A i \in Slots : \A s, p : Writing(i, s, p) =>
           Writing(i, s, p)' \/ p \notin Accountable(s)'
    BY <1>4, <2>2 DEF Writing, ToWrite, At, Service, Accountable, Abort
  <2> QED
    BY <1>4, <2>1, <2>2, <2>3, <2>4, LosingKeeps, OperationsAssumption DEF Abort
<1> QED
  BY <1>1, <1>2, <1>3, <1>4 DEF Faults

-----------------------------------------------------------------------------
(* The theorem *)

LEMMA InitIInv == Init => IInv
<1> SUFFICES ASSUME Init PROVE IInv
  OBVIOUS
<1>1. TypeOK
  <2>1. runtime \in Provision
    BY DEF Init, Provision, Part
  <2> QED
    BY <2>1 DEF Init, TypeOK
<1>2. \A s : Accountable(s) = {}
  BY DEF Init, Accountable
<1> QED
  BY <1>1, <1>2 DEF Init, IInv, Alone, Locked, FilesTell, OnFile, Cleared, Known, ToWrite, At

LEMMA NextIInv == IInv /\ [Next]_vars => IInv'
<1> SUFFICES ASSUME IInv, [Next]_vars PROVE IInv'
  OBVIOUS
<1>1. CASE machine = "host" /\ HostNext
  BY <1>1, BeginKeeps, HostStepKeeps DEF HostNext
<1>2. CASE machine = "node" /\ NodeNext
  BY <1>2, BeginKeeps, NodeStepKeeps DEF NodeNext
<1>3. ASSUME NEW pid \in Pids, Exit(pid)
      PROVE  IInv'
  BY <1>3, EndingKeeps DEF Exit, historyVars
<1>4. CASE Faults
  BY <1>4, FaultsKeep
<1>5. CASE UNCHANGED vars
  BY <1>5 DEF vars, IInv, TypeOK, Alone, Locked, FilesTell, OnFile, Cleared, Known,
              Accountable, Writing, ToWrite, At, Service
<1> QED
  BY <1>1, <1>2, <1>3, <1>4, <1>5 DEF Next

\* While no two commands run at once, a service of service.py or the agent of a
\* node has at most one process, and its pid file tells of it.
THEOREM OneOnFileAlways == Spec => []OneOnFile
<1>1. IInv => OneOnFile
  BY DEF IInv, TypeOK, FilesTell, OnFile, OneOnFile, Writing
<1> QED
  BY <1>1, InitIInv, NextIInv, PTL DEF Spec

-----------------------------------------------------------------------------
(* The watchdog *)

WatchOn(j) == jobs[j] # None /\ jobs[j].kind = "watch"

WatchPath == {"lock", "look", "scan", "check", "spawn", "write", "fill"}

\* Its script has these steps only, and on a node.
OnPath == \A j \in Slots : WatchOn(j) => machine = "node" /\ jobs[j].pc \in WatchPath

NoAgent == ~ \E p \in DOMAIN procs : IsAgent(p)

\* Since it looked at the processes, there is no agent.
Scanned ==
    ~overlapped =>
        \A j \in Slots : WatchOn(j) /\ jobs[j].pc \in {"check", "spawn"} => NoAgent

IWatch == IInv /\ OnPath /\ Scanned

\* What a step of command j has to show.
LEMMA StepScans ==
    ASSUME IWatch, NEW j \in Slots, jobs[j] # None, JobStep(j),
           UNCHANGED <<machine, overlapped>>,
           WatchOn(j) /\ jobs'[j] # None => jobs'[j].pc \in WatchPath,
           jobs[j].pc = "lock" => UNCHANGED <<procs, runtime>>,
           ~overlapped /\ WatchOn(j) /\ jobs'[j] # None =>
              (jobs'[j].pc \in {"check", "spawn"} => NoAgent')
    PROVE  OnPath' /\ Scanned'
<1>1. OnPath'
  BY DEF IWatch, OnPath, WatchOn, JobStep
<1>2. Scanned'
  <2> SUFFICES ASSUME ~overlapped, NEW i \in Slots, i # j,
                      WatchOn(i), jobs[i].pc \in {"check", "spawn"}
               PROVE  NoAgent'
    BY DEF Scanned, WatchOn, JobStep
  <2>1. NoAgent
    BY DEF IWatch, Scanned
  <2>2. jobs[j].pc = "lock"
    BY OthersWait DEF WatchOn, IWatch
  <2> QED
    BY <2>1, <2>2 DEF NoAgent, IsAgent
<1> QED
  BY <1>1, <1>2

LEMMA HostStepScans ==
    ASSUME IWatch, machine = "host", NEW j \in Slots, HostStep(j)
    PROVE  OnPath' /\ Scanned'
<1>0. TypeOK /\ jobs[j] # None /\ ~WatchOn(j) /\ \A i \in Slots : ~WatchOn(i)
  BY DEF IWatch, IInv, OnPath, HostStep, CheckPidFile, Spawn, TruncatePidFile, WritePidFile, ManagerAnswers,
         ManagerDoesNotAnswer, ReadPidFile, Kill, SeeGone, StillStopping, At
<1>1. ASSUME NEW pc \in {"spawn", "fill", "gone"}, GoTo(j, pc)
      PROVE  JobStep(j)
  BY <1>0, <1>1, GoToGoes DEF Goes, Places
<1>2. ASSUME NEW pc \in {"write", "kill"}, NEW pid \in Pids, GoWith(j, pc, pid)
      PROVE  JobStep(j)
  BY <1>0, <1>2, GoWithGoes DEF Goes, Places
<1>3. ASSUME Finish(j) \/ NextService(j) \/ Started(j)
      PROVE  JobStep(j)
  BY <1>0, <1>3, FinishRests, NextServiceRests, StartedRests DEF Rests
<1>4. ASSUME ReadPidFile(j)
      PROVE  JobStep(j)
  <2>1. Service(j) \in ServicesOf(machine)
    BY <1>0, ServiceType
  <2> QED
    BY <1>0, <1>2, <1>3, <1>4, <2>1 DEF ReadPidFile, TypeOK, Running
<1>5. JobStep(j) /\ UNCHANGED <<machine, overlapped>>
  BY <1>1, <1>2, <1>3, <1>4
  DEF HostStep, CheckPidFile, Spawn, SpawnProcess, TruncatePidFile, WritePidFile, ManagerAnswers,
      ManagerDoesNotAnswer, ReadPidFile, Kill, SeeGone, StillStopping, Kept, historyVars
<1>6. \A i \in Slots : ~WatchOn(i)'
  BY <1>0, <1>5 DEF JobStep, WatchOn
<1> QED
  BY <1>6 DEF OnPath, Scanned

LEMMA NodeStepScans ==
    ASSUME IWatch, machine = "node", NEW j \in Slots, NodeStep(j)
    PROVE  OnPath' /\ Scanned'
<1> USE DEF NodeKept
<1>0. TypeOK /\ jobs[j] # None /\ (WatchOn(j) => jobs[j].pc \in WatchPath)
  BY DEF IWatch, IInv, OnPath, NodeStep, RemoveRuntime, UnpackRuntime, EmptyRemoteFile,
         FillRemoteFile, ScriptChecks, ScriptSpawns, ScriptFails, TruncatePidFile, ScriptWrites,
         StopKills, StopUnlinks, WatchNotProvisioned, WatchLocks, WatchLooks, WatchScans, At
<1>1. ASSUME NEW pc \in Places, GoTo(j, pc)
      PROVE  JobStep(j) /\ jobs'[j].pc = pc
  BY <1>0, <1>1, GoToGoes DEF Goes
<1>2. ASSUME Finish(j)
      PROVE  JobStep(j) /\ jobs'[j] = None
  BY <1>0, <1>2, FinishRests DEF Rests
<1>3. CASE ~WatchOn(j) /\ (RemoveRuntime(j) \/ UnpackRuntime(j) \/ StopKills(j) \/ StopUnlinks(j))
  BY <1>0, <1>1, <1>2, <1>3, StepScans
  DEF RemoveRuntime, UnpackRuntime, StopKills, StopUnlinks, Places, At
<1>4. ~(WatchOn(j) /\ (RemoveRuntime(j) \/ UnpackRuntime(j) \/ StopKills(j) \/ StopUnlinks(j)))
  BY <1>0 DEF WatchPath, RemoveRuntime, UnpackRuntime, StopKills, StopUnlinks, At
<1>10. ASSUME NEW file \in {"env", "starter"}, EmptyRemoteFile(j, file) \/ FillRemoteFile(j, file)
       PROVE  OnPath' /\ Scanned'
  <2>1. ~WatchOn(j) /\ jobs[j].pc # "lock"
    BY <1>0, <1>10, FileStages DEF WatchPath, EmptyRemoteFile, FillRemoteFile, At
  <2>2. JobStep(j)
    <3>1. ASSUME NEW pc \in {"fill env", "fill starter", "starter", "check"}, GoTo(j, pc)
          PROVE  JobStep(j)
      BY <1>1, <3>1 DEF Places
    <3> QED
      BY <1>2, <1>10, <3>1, FileStages DEF EmptyRemoteFile, FillRemoteFile
  <2> QED
    BY <1>0, <1>10, <2>1, <2>2, StepScans DEF EmptyRemoteFile, FillRemoteFile
<1>11. CASE TruncatePidFile(j)
  <2>1. JobStep(j) /\ jobs'[j].pc = "fill"
    BY <1>1, <1>11 DEF TruncatePidFile, Places
  <2> QED
    BY <1>0, <1>11, <2>1, StepScans DEF TruncatePidFile, historyVars, At, WatchPath
<1>12. CASE WatchNotProvisioned(j)
  BY <1>0, <1>2, <1>12, StepScans DEF WatchNotProvisioned, At
<1>5. CASE ScriptChecks(j)
  <2>1. ~overlapped /\ WatchOn(j) => NoAgent
    BY <1>5 DEF IWatch, Scanned, ScriptChecks, At
  <2>2. UNCHANGED <<procs, runtime, machine, overlapped>> /\ (NoAgent => NoAgent')
    BY <1>5 DEF ScriptChecks, NoAgent, IsAgent
  <2>3. JobStep(j) /\ (jobs'[j] # None => jobs'[j].pc = "spawn")
    BY <1>1, <1>2, <1>5 DEF ScriptChecks, EndOf, Places
  <2> QED
    BY <1>0, <2>1, <2>2, <2>3, StepScans DEF WatchPath
<1>6. CASE ScriptSpawns(j)
  <2>1. JobStep(j) /\ jobs'[j].pc = "write"
    BY <1>0, <1>6, GoWithGoes, OperationsAssumption DEF ScriptSpawns, SpawnProcess, Goes, Places
  <2> QED
    BY <1>0, <1>6, <2>1, StepScans DEF ScriptSpawns, At, WatchPath
<1>7. CASE ScriptFails(j) \/ ScriptWrites(j)
  BY <1>0, <1>2, <1>7, StepScans DEF ScriptFails, ScriptWrites, EndOf, At
<1>8. CASE WatchLocks(j) \/ WatchLooks(j)
  <2>1. /\ JobStep(j) /\ UNCHANGED <<procs, runtime, machine, overlapped>>
        /\ jobs'[j] # None => jobs'[j].pc \in {"look", "scan"}
    BY <1>1, <1>2, <1>8 DEF WatchLocks, WatchLooks, EndOf, Places
  <2> QED
    BY <1>0, <2>1, StepScans DEF WatchPath
<1>9. CASE WatchScans(j)
  <2>1. /\ JobStep(j) /\ UNCHANGED <<procs, runtime, machine, overlapped>>
        /\ jobs'[j] # None => jobs'[j].pc = "check" /\ NoAgent
    BY <1>1, <1>2, <1>9 DEF WatchScans, EndOf, Places, NoAgent
  <2>2. NoAgent => NoAgent'
    BY <2>1 DEF NoAgent, IsAgent
  <2> QED
    BY <1>0, <2>1, <2>2, StepScans DEF WatchPath
<1> QED
  BY <1>3, <1>4, <1>5, <1>6, <1>7, <1>8, <1>9, <1>10, <1>11, <1>12 DEF NodeStep

\* No new agent, and no command goes on.
LEMMA LosingScans ==
    ASSUME IWatch, UNCHANGED machine, overlapped => overlapped',
           \A j \in Slots : \/ jobs'[j] = jobs[j] \/ jobs'[j] = None
                            \/ (jobs'[j].kind = "watch" =>
                                  machine = "node" /\ jobs'[j].pc = "lock"),
           NoAgent => NoAgent'
    PROVE  OnPath' /\ Scanned'
  BY DEF IWatch, OnPath, Scanned, WatchOn, WatchPath

LEMMA InitIWatch == Init => IWatch
  BY InitIInv DEF IWatch, Init, OnPath, Scanned, WatchOn

LEMMA NextIWatch == IWatch /\ [Next]_vars => IWatch'
<1> SUFFICES ASSUME IWatch, [Next]_vars PROVE OnPath' /\ Scanned'
  BY NextIInv DEF IWatch
<1>0. TypeOK
  BY DEF IWatch, IInv
<1>1. ASSUME NEW j \in Slots,
             \/ machine = "host" /\ (StartService(j) \/ StopService(j))
             \/ machine = "node" /\ (NodeCommand(j) \/ WatchMissing(j))
      PROVE  OnPath' /\ Scanned'
  <2>1. PICK kind \in {"start", "stop", "watch"},
             pc \in {"check", "read", "remove", "env", "lock"},
             todo \in {LocalServices, StopOrder, <<NodeAgent>>} :
           /\ kind = "watch" => machine = "node" /\ pc = "lock"
           /\ BeginJob(j, kind, pc, todo)
    BY <1>1 DEF StartService, StopService, NodeCommand, ClusterStart, ClusterStop,
                WatchStale, WatchMissing, StartRemote
  <2>2. /\ jobs'[j].kind = kind /\ jobs'[j].pc = pc
        /\ \A i \in Slots \ {j} : jobs'[i] = jobs[i]
        /\ UNCHANGED <<machine, procs, runtime>> /\ (overlapped => overlapped')
    BY <1>0, <2>1 DEF BeginJob, TypeOK
  <2>3. NoAgent => NoAgent'
    BY <2>2 DEF NoAgent, IsAgent
  <2> QED
    BY <2>1, <2>2, <2>3, LosingScans
<1>2. CASE machine = "host" /\ HostNext
  BY <1>1, <1>2, HostStepScans DEF HostNext
<1>3. CASE machine = "node" /\ NodeNext
  BY <1>1, <1>3, NodeStepScans DEF NodeNext
<1>4. ASSUME NEW pid \in Pids, Exit(pid) \/ Crash(pid)
      PROVE  OnPath' /\ Scanned'
  <2>1. NoAgent => NoAgent'
    BY <1>4 DEF Exit, Crash, Without, NoAgent, IsAgent
  <2> QED
    BY <1>4, <2>1, LosingScans DEF Exit, Crash, historyVars
<1>5. ASSUME NEW pid \in Pids, Reuse(pid)
      PROVE  OnPath' /\ Scanned'
  <2>1. NoAgent => NoAgent'
    <3>1. PICK who \in {Other, Stranger} :
             procs' = [p \in DOMAIN procs \cup {pid} |->
                         IF p = pid THEN [service |-> who, told |-> FALSE, deleted |-> FALSE]
                         ELSE procs[p]]
      BY <1>5 DEF Reuse
    <3>2. who # NodeAgent
      BY DEF Other, Stranger, NodeAgent
    <3>3. \A p \in DOMAIN procs' : procs'[p].service = NodeAgent =>
             p \in DOMAIN procs /\ procs'[p] = procs[p]
      BY <3>1, <3>2
    <3> QED
      BY <3>3 DEF NoAgent, IsAgent
  <2> QED
    BY <1>5, <2>1, LosingScans DEF Reuse
<1>6. CASE Reboot
  BY <1>6, LosingScans DEF Reboot, NoAgent
<1>7. ASSUME NEW j \in Slots, Abort(j)
      PROVE  OnPath' /\ Scanned'
  <2>1. NoAgent => NoAgent'
    BY <1>7 DEF Abort, NoAgent, IsAgent
  <2> QED
    BY <1>0, <1>7, <2>1, LosingScans DEF Abort, Finish, TypeOK
<1>8. CASE UNCHANGED vars
  <2>1. NoAgent => NoAgent'
    BY <1>8 DEF vars, NoAgent, IsAgent
  <2> QED
    BY <1>8, <2>1, LosingScans DEF vars
<1> QED
  BY <1>2, <1>3, <1>4, <1>5, <1>6, <1>7, <1>8 DEF Next, Faults

\* The watchdog's script makes an agent only where there is none that runs the
\* node's code, on file or not, unless commands ran at once.
THEOREM WatchdogStartsNoSecondAlways == Spec => WatchdogStartsNoSecond
<1>1. IWatch => [\A j \in Slots :
                   WatchStarts(j) /\ jobs'[j].pc = "write" /\ ~overlapped =>
                       ~ \E p \in DOMAIN procs : IsAgent(p)]_vars
  BY DEF IWatch, Scanned, WatchStarts, At, WatchOn, NoAgent
<1> QED
  BY <1>1, InitIWatch, NextIWatch, PTL DEF Spec, WatchdogStartsNoSecond

=============================================================================
