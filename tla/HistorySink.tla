----------------------------- MODULE HistorySink -----------------------------
(***************************************************************************)
(* db.py: AsyncDBSink, the worker that turns accepted samples into history *)
(* rows, and the rollups and pruning of SQLiteStore that it schedules.     *)
(*                                                                         *)
(* A sample is [node, at, id]: one GPU per node, and its sampled_at, which *)
(* is the agent's clock.  A bucket of tier t (20 s, 2 m, 1 h) is the samples  *)
(* of a node that fall in one window of Width[t].  A row stores aggregates *)
(* of samples (sums weighted by sample_count, maxima); it is modelled by   *)
(* the set of samples it accounts for, so a tier of a table is a set of    *)
(* samples, and a row is the part of it that shares a bucket.              *)
(*                                                                         *)
(* The tables are gpu_metric_rollups and, if enabled, nvidia_gpm_rollups,  *)
(* written one after the other in transactions of their own.  The sink's   *)
(* thread runs one task at a time; a step of it is a transaction.          *)
(***************************************************************************)
EXTENDS Integers, Sequences

CONSTANTS Agents,       \* nodes that send samples
          Skew,         \* of an agent's clock, relative to the manager's
          TableCount,   \* 1 or 2: base rollups, and NVIDIA GPM rollups
          Width,        \* of each tier, also its safety lag and its interval
          Retention,    \* of each tier
          FlushEvery, PruneEvery,   \* 10 s, 600 s
          RetryBase, RetryMax,      \* 10 s, 300 s
          QueueSize,    \* 1024
          MaxBehind,    \* assumption: how long a sample waits in the queue
          MaxClock, MaxSamples, MaxFaults, MaxStops   \* bounds

Tiers == 1..3
Tables == 1..TableCount

ASSUME SinkAssumption ==
    /\ Skew \in [Agents -> Int]
    /\ TableCount \in {1, 2}
    /\ Width \in [Tiers -> Nat \ {0}] /\ Retention \in [Tiers -> Nat]
    /\ \A t \in {2, 3} : Width[t] % Width[t - 1] = 0
    /\ {FlushEvery, PruneEvery, RetryBase, RetryMax} \subseteq Nat
    /\ QueueSize \in Nat \ {0} /\ MaxBehind \in Nat
    /\ {MaxClock, MaxSamples, MaxFaults, MaxStops} \subseteq Nat

VARIABLES
    clock,   \* time.time() and time.monotonic() of the manager
    sent,    \* history: how many samples the manager accepted
    queue,   \* AsyncDBSink.queue
    open,    \* _rollup_20s and _nvidia_gpm_rollup_20s: the open samples
    rows,    \* the rows of each table and tier
    task,    \* what the thread is doing, and the `now` it was given
    last,    \* _last_20s_flush_at, _last_2m_rollup_at, ...
    retry,   \* _maintenance_failures and _maintenance_retry_at
    phase,   \* of the process: running, joining, stopping, down
    kept,    \* history: samples accumulated and not lost with a process
    faults, stops   \* history: counters for the bounds

vars == <<clock, sent, queue, open, rows, task, last, retry, phase, kept,
          faults, stops>>

-----------------------------------------------------------------------------
(* Buckets and rows *)

Sample == [node : Agents, at : Int, id : Nat]

\* int(at // width) * width
StartOf(t, s) == s.at - (s.at % Width[t])
SameBucket(t, s, u) == s.node = u.node /\ StartOf(t, s) = StartOf(t, u)

\* INSERT ... ON CONFLICT DO UPDATE: a new row replaces the row of its bucket.
Upsert(t, stored, new) ==
    {s \in stored : \A u \in new : ~SameBucket(t, s, u)} \cup new

\* Mutation: the bucket that is filling is closed like the others.
ClosedAtOnce(t, s, now) == StartOf(t, s) <= now

\* The window has ended, and the safety lag has passed.
Closed(t, s, now) == StartOf(t, s) + Width[t] <= now - Width[t]

\* The closed windows of tier t are computed again from the rows of the tier
\* below, whatever of them is still stored.
RollUp(t, tiers, now) ==
    [tiers EXCEPT ![t] = Upsert(t, @, {s \in tiers[t - 1] : Closed(t, s, now)})]

\* Mutation: every tier expires with the first.
PruneAll(tiers, now) ==
    [t \in Tiers |-> {s \in tiers[t] : StartOf(t, s) >= now - Retention[1]}]

Prune(tiers, now) ==
    [t \in Tiers |-> {s \in tiers[t] : StartOf(t, s) >= now - Retention[t]}]

-----------------------------------------------------------------------------
(* The process *)

\* What the thread runs: write_node_snapshot, then those of the steps of
\* _run_scheduled_maintenance that are due, in this order (steps 2 and 3 are
\* the rollups to those tiers), then close_stale_sessions.
IdleStep == -1
NodeStep == 0
FlushStep == 1
PruneStep == 4
SessionStep == 5
Steps == FlushStep..PruneStep
Every == <<FlushEvery, Width[2], Width[3], PruneEvery>>

Idle == [step |-> IdleStep, now |-> 0]

\* The attributes start at 0, a date that makes every step due.
NeverDone == [s \in Steps |-> -Every[s]]
NoRetry == [failures |-> 0, at |-> 0]

TypeOK ==
    /\ clock \in 0..MaxClock
    /\ sent \in Nat
    /\ queue \in Seq(Sample) /\ Len(queue) <= QueueSize
    /\ open \in [Tables -> SUBSET Sample]
    /\ rows \in [Tables -> [Tiers -> SUBSET Sample]]
    /\ task \in [step : IdleStep..SessionStep, now : Int]
    /\ last \in [Steps -> Int]
    /\ retry \in [failures : Nat, at : Nat]
    /\ phase \in {"running", "joining", "stopping", "down"}
    /\ kept \subseteq Sample
    /\ faults \in Nat /\ stops \in Nat

Init ==
    /\ clock = 0
    /\ sent = 0 /\ kept = {}
    /\ queue = <<>>
    /\ open = [i \in Tables |-> {}]
    /\ rows = [i \in Tables |-> [t \in Tiers |-> {}]]
    /\ task = Idle
    /\ last = NeverDone
    /\ retry = NoRetry
    /\ phase = "running"
    /\ faults = 0 /\ stops = 0

\* Assumed of the worker: it never leaves a sample in the queue for longer.
KeepsUp == \A i \in 1..Len(queue) :
              clock - (queue[i].at - Skew[queue[i].node]) < MaxBehind

Tick ==
    /\ clock < MaxClock /\ KeepsUp
    /\ clock' = clock + 1
    /\ UNCHANGED <<sent, queue, open, rows, task, last, retry, phase, kept,
                   faults, stops>>

\* Mutation: a queue without a bound.
SubmitUnbounded(n) ==
    /\ phase # "down" /\ sent < MaxSamples
    /\ sent' = sent + 1
    /\ queue' = Append(queue, [node |-> n, at |-> clock + Skew[n], id |-> sent])
    /\ UNCHANGED <<clock, open, rows, task, last, retry, phase, kept, faults,
                   stops>>

\* submit_node_snapshot: a full queue drops the snapshot.
Submit(n) ==
    LET s == [node |-> n, at |-> clock + Skew[n], id |-> sent]
    IN  /\ phase # "down"
        /\ sent < MaxSamples
        /\ sent' = sent + 1
        /\ queue' = IF Len(queue) < QueueSize THEN Append(queue, s) ELSE queue
        /\ UNCHANGED <<clock, open, rows, task, last, retry, phase, kept,
                       faults, stops>>

\* The worker gets a snapshot; its thread accumulates it first.
Take ==
    /\ phase \in {"running", "joining"} /\ task = Idle /\ queue # <<>>
    /\ open' = [i \in Tables |-> open[i] \cup {Head(queue)}]
    /\ kept' = kept \cup {Head(queue)}
    /\ task' = [step |-> NodeStep, now |-> Head(queue).at]
    /\ queue' = Tail(queue)
    /\ UNCHANGED <<clock, sent, rows, last, retry, phase, faults, stops>>

\* The first step that is due from `step` on.
NextDue(step, now) ==
    LET due == {s \in Steps : s >= step /\ now - last[s] >= Every[s]}
    IN  IF due = {} THEN SessionStep
        ELSE CHOOSE s \in due : \A u \in due : s <= u

\* _maintain: nothing until the retry time.
Maintain(now) ==
    IF clock < retry.at THEN Idle
    ELSE [step |-> NextDue(FlushStep, now), now |-> now]

\* The worker's wait for a snapshot times out.
IdleMaintenance ==
    /\ phase \in {"running", "joining"} /\ task = Idle /\ queue = <<>>
    /\ task' = Maintain(clock)
    /\ UNCHANGED <<clock, sent, queue, open, rows, last, retry, phase, kept,
                   faults, stops>>

\* write_node_snapshot commits, and maintenance follows; or it raises.
WriteNode ==
    /\ task.step = NodeStep
    /\ \/ /\ task' = Maintain(IF clock > task.now THEN clock ELSE task.now)
          /\ UNCHANGED faults
       \/ /\ faults < MaxFaults
          /\ faults' = faults + 1
          /\ task' = Idle
    /\ UNCHANGED <<clock, sent, queue, open, rows, last, retry, phase, kept,
                   stops>>

\* A maintenance step raises: the rest of the pass is skipped, and no pass is
\* made for a while.
Backoff(failures) ==
    LET delay == RetryBase * 2 ^ (IF failures > 6 THEN 5 ELSE failures - 1)
    IN  IF delay > RetryMax THEN RetryMax ELSE delay

StepFails ==
    /\ faults < MaxFaults
    /\ faults' = faults + 1
    /\ retry' = [failures |-> retry.failures + 1,
                 at |-> clock + Backoff(retry.failures + 1)]
    /\ task' = Idle
    /\ UNCHANGED last

StepDone ==
    /\ last' = [last EXCEPT ![task.step] = task.now]
    /\ task' = [task EXCEPT !.step = NextDue(task.step + 1, task.now)]
    /\ UNCHANGED <<retry, faults>>

\* flush_rollups up to its k-th transaction.
Ready(i, now) == {s \in open[i] : Closed(1, s, now)}
FlushRows(k, now) ==
    rows' = [i \in Tables |->
               IF i <= k THEN [rows[i] EXCEPT ![1] = Upsert(1, @, Ready(i, now))]
                         ELSE rows[i]]
ForgetReady(now) == open' = [i \in Tables |-> open[i] \ Ready(i, now)]

\* Mutation: the buckets leave the memory before they are written.
FlushForgets ==
    /\ task.step = FlushStep
    /\ ForgetReady(task.now)
    /\ \E k \in 0..TableCount :
          /\ FlushRows(k, task.now)
          /\ IF k = TableCount THEN StepDone ELSE StepFails

\* The buckets leave the memory once both tables have their rows.
Flush ==
    /\ task.step = FlushStep
    /\ \/ FlushRows(TableCount, task.now) /\ ForgetReady(task.now) /\ StepDone
       \/ /\ \E k \in 0..TableCount - 1 : FlushRows(k, task.now)
          /\ UNCHANGED open /\ StepFails

\* rollup_gpu_metric_rollups, then rollup_nvidia_gpm_rollups, to tier t.
RollUpTo(t) ==
    /\ task.step = t
    /\ \E k \in 0..TableCount :
          /\ rows' = [i \in Tables |->
                        IF i <= k THEN RollUp(t, rows[i], task.now) ELSE rows[i]]
          /\ IF k = TableCount THEN StepDone ELSE StepFails
    /\ UNCHANGED open

\* prune_rollups, one transaction, then prune_raw_snapshots, which may raise.
PruneRows ==
    /\ task.step = PruneStep
    /\ \/ /\ rows' = [i \in Tables |-> Prune(rows[i], task.now)]
          /\ StepDone \/ StepFails
       \/ UNCHANGED rows /\ StepFails
    /\ UNCHANGED open

\* close_stale_sessions, of which only the outcome matters here.
CloseSessions ==
    /\ task.step = SessionStep
    /\ \/ task' = Idle /\ retry' = NoRetry /\ UNCHANGED <<last, faults>>
       \/ StepFails
    /\ UNCHANGED <<open, rows>>

Maintenance ==
    /\ Flush \/ RollUpTo(2) \/ RollUpTo(3) \/ PruneRows \/ CloseSessions
    /\ UNCHANGED <<clock, sent, queue, phase, kept, stops>>

\* stop: wait up to 5 s for the queue to drain, cancel the worker, let its
\* thread finish, flush what is closed, close the database.
Stop ==
    /\ phase = "running" /\ stops < MaxStops
    /\ phase' = "joining" /\ stops' = stops + 1
    /\ UNCHANGED <<clock, sent, queue, open, rows, task, last, retry, kept,
                   faults>>

\* A unit of the clock is longer than 5 s: the wait may end at any time.
Cancel ==
    /\ phase = "joining"
    /\ phase' = "stopping"
    /\ UNCHANGED <<clock, sent, queue, open, rows, task, last, retry, kept,
                   faults, stops>>

\* The process ends, and with it what is left in memory.
Down(left) ==
    /\ phase' = "down"
    /\ kept' = kept \ UNION {left[i] : i \in Tables}
    /\ open' = [i \in Tables |-> {}]
    /\ queue' = <<>> /\ task' = Idle
    /\ last' = NeverDone /\ retry' = NoRetry

Halt ==
    /\ phase = "stopping" /\ task = Idle
    /\ \/ /\ FlushRows(TableCount, clock)
          /\ Down([i \in Tables |-> open[i] \ Ready(i, clock)])
          /\ UNCHANGED faults
       \/ /\ faults < MaxFaults /\ faults' = faults + 1
          /\ \E k \in 0..TableCount - 1 : FlushRows(k, clock)
          /\ Down(open)
    /\ UNCHANGED <<clock, sent, stops>>

Crash ==
    /\ phase # "down" /\ stops < MaxStops
    /\ stops' = stops + 1
    /\ Down(open)
    /\ UNCHANGED <<clock, sent, rows, faults>>

Start ==
    /\ phase = "down"
    /\ phase' = "running"
    /\ UNCHANGED <<clock, sent, queue, open, rows, task, last, retry, kept,
                   faults, stops>>

Next ==
    \/ Tick
    \/ \E n \in Agents : Submit(n)
    \/ Take \/ IdleMaintenance \/ WriteNode \/ Maintenance
    \/ Stop \/ Cancel \/ Halt \/ Crash \/ Start

Spec == Init /\ [][Next]_vars

-----------------------------------------------------------------------------
(* Properties *)

Row(i, t, s) == {u \in rows[i][t] : SameBucket(t, s, u)}

\* `now` is the manager's clock or the time of a sample: a row may be pruned
\* once one of these clocks says so.
Offsets == {0} \cup {Skew[n] : n \in Agents}
Expired(t, s) ==
    \E a \in Offsets : StartOf(t, s) < clock + a - Retention[t]

\* No sample is forgotten, through failed writes, retries and restarts: once
\* accumulated it is in memory or in a 20 s row, until that row expires or a
\* process ends with the bucket open.
NothingForgotten ==
    \A s \in kept, i \in Tables :
        \/ s \in open[i]
        \/ s \in rows[i][1]
        \/ Expired(1, s)

\* What it takes for a bucket to be complete when it is closed: the clocks
\* differ, and the queue delays, by no more than the safety lag.
Timely == \A a \in Offsets, n \in Agents : a - Skew[n] + MaxBehind <= Width[1]

\* A 20 s row is written when its samples are complete, and never changes but
\* to be pruned.
FlushedBucketsAreFinal ==
    [][\A i \in Tables : \A s \in rows[i][1] :
          Row(i, 1, s)' \in {Row(i, 1, s), {}}]_vars

\* A row is pruned only once the next tier accounts for its samples, unless the
\* row of the next tier would have expired too.
PrunedWhenRolledUp ==
    [][\A i \in Tables, t \in {1, 2} : \A s \in rows[i][t] \ rows'[i][t] :
          s \in rows'[i][t + 1] \/ Expired(t + 1, s)]_vars

\* A rollup row keeps the samples it accounts for until it expires itself.
RollupsKeepTheirSamples ==
    [][\A i \in Tables, t \in {2, 3} : \A s \in rows[i][t] \ rows'[i][t] :
          Expired(t, s)]_vars
=============================================================================
