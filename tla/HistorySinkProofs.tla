-------------------------- MODULE HistorySinkProofs --------------------------
(***************************************************************************)
(* Theorems about the history and its readers.  Under Timely no accumulated *)
(* sample is forgotten, and a flushed row is final; under TiersLast a row   *)
(* is pruned only when the next tier has its samples; and under NobodyAhead *)
(* every reader finds what the history has.                                *)
(***************************************************************************)
EXTENDS RollupReaders, FiniteSetTheorems, TLAPS

-----------------------------------------------------------------------------
(* The inductive invariant *)

\* The time that the thread works with is that of one of the clocks.
ReadsClock(now) == \E a \in Offsets : now <= clock + a
TaskInTime == ReadsClock(task.now)

\* A queued sample was taken by its agent's clock, and is not too old.
QueueInTime ==
    \A j \in 1..Len(queue) :
        /\ queue[j].at - Skew[queue[j].node] <= clock
        /\ clock - MaxBehind <= queue[j].at - Skew[queue[j].node]

\* A row exists only of a bucket that is closed by one of the clocks.
FlushedIsClosed ==
    \A i \in Tables : \A s \in rows[i][1] :
        \E a \in Offsets : Closed(1, s, clock + a)

\* A bucket that has a row and is still in memory, because its flush failed
\* after this table's transaction, is the same in both places.
FlushedIsWhole ==
    \A i \in Tables : \A s \in rows[i][1], u \in open[i] :
        SameBucket(1, s, u) => s \in open[i] /\ u \in rows[i][1]

SinkInv == /\ TaskInTime /\ QueueInTime
           /\ FlushedIsClosed /\ FlushedIsWhole /\ NothingForgotten

\* What FlushedBucketsAreFinal says of a step.
RowsAreFinal ==
    \A i \in Tables : \A s \in rows[i][1] :
        Row(i, 1, s)' \in {Row(i, 1, s), {}}

-----------------------------------------------------------------------------
(* Operators *)

\* StartOf is a date, and a sample is in its window.
LEMMA WindowStart ==
    ASSUME NEW s \in Sample, NEW t \in Tiers
    PROVE  /\ StartOf(t, s) \in Int
           /\ StartOf(t, s) <= s.at /\ s.at < StartOf(t, s) + Width[t]
<1>1. Width[t] \in Nat \ {0} /\ s.at \in Int
  BY SinkAssumption DEF SinkAssumption, Sample
<1>2. s.at % Width[t] \in 0..Width[t] - 1
  BY <1>1
<1> QED
  BY <1>1, <1>2 DEF StartOf

\* The tiers and their widths and retentions.
LEMMA TierTypes ==
    ASSUME NEW t \in Tiers
    PROVE  Width[t] \in Nat /\ Width[t] > 0 /\ Retention[t] \in Nat
  BY SinkAssumption DEF SinkAssumption

\* The offsets of the clocks are integers, and the manager's is one of them.
LEMMA OffsetTypes == Offsets \subseteq Int /\ 0 \in Offsets
  BY SinkAssumption DEF SinkAssumption, Offsets

\* The pause after a failed pass is a number of units.
LEMMA BackoffType ==
    ASSUME NEW failures \in Nat \ {0}
    PROVE  Backoff(failures) \in Nat
<1> DEFINE exponent == IF failures > 6 THEN 5 ELSE failures - 1
<1>1. exponent \in {0, 1, 2, 3, 4, 5}
  OBVIOUS
<1>2. /\ 2 ^ 0 \in Nat /\ 2 ^ 1 \in Nat /\ 2 ^ 2 \in Nat
      /\ 2 ^ 3 \in Nat /\ 2 ^ 4 \in Nat /\ 2 ^ 5 \in Nat
  OBVIOUS
<1>3. 2 ^ exponent \in Nat
  <2> HIDE DEF exponent
  <2> QED BY <1>1, <1>2
<1>4. RetryBase \in Nat /\ RetryMax \in Nat
  BY SinkAssumption DEF SinkAssumption
<1>5. RetryBase * 2 ^ exponent \in Nat
  <2> HIDE DEF exponent
  <2> QED BY <1>3, <1>4
<1> QED
  BY <1>4, <1>5 DEF Backoff

\* The next step of a pass is a maintenance step.
LEMMA NextDueType ==
    ASSUME NEW step, NEW now
    PROVE  NextDue(step, now) \in FlushStep..SessionStep
<1> DEFINE due == {s \in Steps : s >= step /\ now - last[s] >= Every[s]}
<1>1. due \subseteq {1, 2, 3, 4}
  BY DEF Steps, FlushStep, PruneStep
<1>2. CASE due = {}
  BY <1>2 DEF NextDue, FlushStep, SessionStep
<1>3. CASE due # {}
  <2> DEFINE first(s) == s \in due /\ \A u \in due : s <= u
  <2>1. \E s \in due : \A u \in due : s <= u
    <3> HIDE DEF due
    <3>1. CASE 1 \in due BY <3>1, <1>1
    <3>2. CASE 1 \notin due /\ 2 \in due BY <3>2, <1>1
    <3>3. CASE 1 \notin due /\ 2 \notin due /\ 3 \in due BY <3>3, <1>1
    <3>4. CASE due \subseteq {4}
      <4>1. due = {4} BY <3>4, <1>3
      <4> QED BY <4>1
    <3> QED BY <3>1, <3>2, <3>3, <3>4, <1>1
  <2>2. NextDue(step, now) \in due
    <3>1. NextDue(step, now) = CHOOSE s \in due : \A u \in due : s <= u
      BY <1>3 DEF NextDue
    <3> HIDE DEF due
    <3> QED BY <2>1, <3>1
  <2> QED BY <2>2, <1>1 DEF FlushStep, SessionStep
<1> QED
  BY <1>2, <1>3

\* A pass starts with a task of the right type, at the time it was given.
LEMMA MaintainType ==
    ASSUME NEW now \in Int
    PROVE  /\ Maintain(now) \in [step : IdleStep..SessionStep, now : Int]
           /\ Maintain(now).now \in {0, now}
<1>1. NextDue(FlushStep, now) \in FlushStep..SessionStep
  BY NextDueType
<1> QED
  BY <1>1 DEF Maintain, Idle, IdleStep, FlushStep, SessionStep

\* An upsert keeps the type of a tier.
LEMMA UpsertType ==
    ASSUME NEW t \in Tiers, NEW stored \in SUBSET Sample,
           NEW new \in SUBSET Sample
    PROVE  Upsert(t, stored, new) \in SUBSET Sample
  BY DEF Upsert

\* A rollup writes its own tier, and leaves tier 1 alone.
LEMMA RollUpType ==
    ASSUME NEW t \in {2, 3}, NEW tiers \in [Tiers -> SUBSET Sample], NEW now
    PROVE  /\ RollUp(t, tiers, now) \in [Tiers -> SUBSET Sample]
           /\ RollUp(t, tiers, now)[1] = tiers[1]
<1> DEFINE new == {s \in tiers[t - 1] : Closed(t, s, now)}
<1>1. t \in Tiers /\ t - 1 \in Tiers /\ t # 1 /\ 1 \in Tiers
  BY DEF Tiers
<1>2. Upsert(t, tiers[t], new) \in SUBSET Sample
  BY <1>1, UpsertType
<1>3. RollUp(t, tiers, now) = [tiers EXCEPT ![t] = Upsert(t, tiers[t], new)]
  BY DEF RollUp
<1> HIDE DEF new
<1> QED
  BY <1>1, <1>2, <1>3

\* Pruning keeps the type of a table.
LEMMA PruneType ==
    ASSUME NEW tiers \in [Tiers -> SUBSET Sample], NEW now
    PROVE  Prune(tiers, now) \in [Tiers -> SUBSET Sample]
  BY DEF Prune

\* A flush keeps the types, and touches tier 1 alone.
LEMMA FlushRowsType ==
    ASSUME rows \in [Tables -> [Tiers -> SUBSET Sample]],
           open \in [Tables -> SUBSET Sample],
           NEW k, NEW now, FlushRows(k, now)
    PROVE  /\ rows' \in [Tables -> [Tiers -> SUBSET Sample]]
           /\ \A i \in Tables :
                 rows'[i][1] = IF i <= k
                               THEN Upsert(1, rows[i][1], Ready(i, now))
                               ELSE rows[i][1]
<1> DEFINE flushed(i) ==
             [rows[i] EXCEPT ![1] = Upsert(1, rows[i][1], Ready(i, now))]
<1>1. 1 \in Tiers
  BY DEF Tiers
<1>2. ASSUME NEW i \in Tables
      PROVE  /\ flushed(i) \in [Tiers -> SUBSET Sample]
             /\ flushed(i)[1] = Upsert(1, rows[i][1], Ready(i, now))
  <2>1. Ready(i, now) \in SUBSET Sample
    BY DEF Ready
  <2>2. Upsert(1, rows[i][1], Ready(i, now)) \in SUBSET Sample
    BY <1>1, <2>1, UpsertType
  <2> QED
    BY <1>1, <2>2
<1>3. rows' = [i \in Tables |-> IF i <= k THEN flushed(i) ELSE rows[i]]
  BY DEF FlushRows
<1> HIDE DEF flushed
<1> QED
  BY <1>2, <1>3

-----------------------------------------------------------------------------
(* Types *)

\* What a failed step leaves behind has the right type.
LEMMA StepFailsType ==
    ASSUME TypeOK, StepFails
    PROVE  /\ task' = Idle /\ task' \in [step : IdleStep..SessionStep, now : Int]
           /\ last' \in [Steps -> Int]
           /\ retry' \in [failures : Nat, at : Nat]
           /\ faults' \in Nat
<1>1. retry.failures + 1 \in Nat \ {0} /\ clock \in Nat /\ faults \in Nat
  BY DEF TypeOK
<1>2. Backoff(retry.failures + 1) \in Nat
  BY <1>1, BackoffType
<1>3. retry' = [failures |-> retry.failures + 1,
                at |-> clock + Backoff(retry.failures + 1)]
  BY DEF StepFails
<1>4. retry' \in [failures : Nat, at : Nat]
  BY <1>1, <1>2, <1>3
<1> QED
  BY <1>1, <1>4 DEF StepFails, TypeOK, Idle, IdleStep, SessionStep

\* And so does what a completed one leaves.
LEMMA StepDoneType ==
    ASSUME TypeOK, StepDone
    PROVE  /\ task'.now = task.now
           /\ task' \in [step : IdleStep..SessionStep, now : Int]
           /\ last' \in [Steps -> Int]
           /\ retry' \in [failures : Nat, at : Nat]
           /\ faults' \in Nat
<1>1. NextDue(task.step + 1, task.now) \in FlushStep..SessionStep
  BY NextDueType
<1>2. task \in [step : IdleStep..SessionStep, now : Int]
  BY DEF TypeOK
<1>3. task' = [task EXCEPT !.step = NextDue(task.step + 1, task.now)]
  BY DEF StepDone
<1>4. task'.now = task.now /\ task' \in [step : IdleStep..SessionStep, now : Int]
  BY <1>1, <1>2, <1>3 DEF IdleStep, FlushStep, SessionStep
<1>5. last' \in [Steps -> Int]
  BY <1>2 DEF StepDone, TypeOK
<1> QED
  BY <1>4, <1>5 DEF StepDone, TypeOK

\* The initial state has its types.
LEMMA TypeInit == Init => TypeOK
<1> SUFFICES ASSUME Init PROVE TypeOK
  OBVIOUS
<1>1. MaxClock \in Nat /\ QueueSize \in Nat /\ FlushEvery \in Nat
      /\ PruneEvery \in Nat /\ Width[2] \in Nat /\ Width[3] \in Nat
  BY SinkAssumption DEF SinkAssumption, Tiers
<1>2. NeverDone \in [Steps -> Int]
  BY <1>1 DEF NeverDone, Every, Steps, FlushStep, PruneStep
<1>3. Idle \in [step : IdleStep..SessionStep, now : Int]
  BY DEF Idle, IdleStep, SessionStep
<1>4. queue \in Seq(Sample) /\ Len(queue) <= QueueSize
  BY <1>1 DEF Init
<1> QED
  BY <1>1, <1>2, <1>3, <1>4 DEF Init, TypeOK, NoRetry

\* The queue, as a sample enters or leaves it.
LEMMA SubmitType ==
    ASSUME TypeOK, NEW n \in Agents, Submit(n)
    PROVE  /\ queue' \in Seq(Sample) /\ Len(queue') <= QueueSize
           /\ sent' \in Nat
<1> DEFINE s == [node |-> n, at |-> clock + Skew[n], id |-> sent]
<1>1. s \in Sample
  <2>1. clock \in Nat /\ sent \in Nat /\ Skew[n] \in Int
    BY SinkAssumption DEF SinkAssumption, TypeOK
  <2> QED BY <2>1 DEF Sample
<1>2. queue' = IF Len(queue) < QueueSize THEN Append(queue, s) ELSE queue
  BY DEF Submit
<1>3. QueueSize \in Nat
  BY SinkAssumption DEF SinkAssumption
<1>4. sent' \in Nat
  BY DEF Submit, TypeOK
<1> HIDE DEF s
<1>5. queue \in Seq(Sample) /\ Len(queue) <= QueueSize
  BY DEF TypeOK
<1> QED
  BY <1>1, <1>2, <1>3, <1>4, <1>5

\* The first sample of a queue, and what is left of the queue without it.
LEMMA TakeType ==
    ASSUME TypeOK, queue # <<>>
    PROVE  /\ Head(queue) \in Sample
           /\ Tail(queue) \in Seq(Sample) /\ Len(Tail(queue)) <= QueueSize
           /\ \A j \in 1..Len(Tail(queue)) :
                 /\ j + 1 \in 1..Len(queue) /\ Tail(queue)[j] = queue[j + 1]
           /\ 1 \in 1..Len(queue) /\ Head(queue) = queue[1]
<1>1. queue \in Seq(Sample) /\ Len(queue) <= QueueSize /\ QueueSize \in Nat
  BY SinkAssumption DEF SinkAssumption, TypeOK
<1> QED
  BY <1>1

\* The process ends with everything of its types.
LEMMA DownType ==
    ASSUME TypeOK, NEW left, Down(left)
    PROVE  /\ phase' = "down"
           /\ kept' \subseteq kept /\ kept' \subseteq Sample
           /\ open' \in [Tables -> SUBSET Sample]
           /\ queue' = <<>> /\ queue' \in Seq(Sample) /\ Len(queue') <= QueueSize
           /\ task' = Idle /\ task' \in [step : IdleStep..SessionStep, now : Int]
           /\ last' \in [Steps -> Int] /\ retry' \in [failures : Nat, at : Nat]
<1>1. QueueSize \in Nat /\ FlushEvery \in Nat
      /\ PruneEvery \in Nat /\ Width[2] \in Nat /\ Width[3] \in Nat
  BY SinkAssumption DEF SinkAssumption, Tiers
<1>2. NeverDone \in [Steps -> Int]
  BY <1>1 DEF NeverDone, Every, Steps, FlushStep, PruneStep
<1>3. Idle \in [step : IdleStep..SessionStep, now : Int]
  BY DEF Idle, IdleStep, SessionStep
<1>4. kept' \subseteq kept /\ kept \subseteq Sample
  BY DEF Down, TypeOK
<1>5. queue' = <<>> /\ <<>> \in Seq(Sample) /\ Len(<<>>) = 0
  BY DEF Down
<1> QED
  BY <1>1, <1>2, <1>3, <1>4, <1>5 DEF Down, NoRetry

\* Every step keeps the types, one action at a time.
LEMMA TypeNext == TypeOK /\ [Next]_vars => TypeOK'
<1> SUFFICES ASSUME TypeOK, [Next]_vars PROVE TypeOK'
  OBVIOUS
<1> USE DEF TypeOK
<1>1. CASE UNCHANGED vars
  BY <1>1 DEF vars
<1>2. CASE Tick
  <2>1. MaxClock \in Nat
    BY SinkAssumption DEF SinkAssumption
  <2>2. clock' \in 0..MaxClock
    BY <1>2, <2>1 DEF Tick
  <2> QED
    BY <1>2, <2>2 DEF Tick
<1>3. ASSUME NEW n \in Agents, Submit(n) PROVE TypeOK'
  BY <1>3, SubmitType DEF Submit
<1>4. CASE Take
  <2>1. Head(queue) \in Sample /\ Tail(queue) \in Seq(Sample)
        /\ Len(Tail(queue)) <= QueueSize
    BY <1>4, TakeType DEF Take
  <2>2. task' \in [step : IdleStep..SessionStep, now : Int]
    BY <1>4, <2>1 DEF Take, IdleStep, NodeStep, SessionStep, Sample
  <2>3. open' \in [Tables -> SUBSET Sample]
    BY <1>4, <2>1 DEF Take
  <2> QED
    BY <1>4, <2>1, <2>2, <2>3 DEF Take
<1>5. CASE IdleMaintenance
  <2>1. Maintain(clock) \in [step : IdleStep..SessionStep, now : Int]
    BY MaintainType
  <2> QED
    BY <1>5, <2>1 DEF IdleMaintenance
<1>6. CASE WriteNode
  <2> DEFINE now == IF clock > task.now THEN clock ELSE task.now
  <2>1. now \in Int
    OBVIOUS
  <2>2. Maintain(now) \in [step : IdleStep..SessionStep, now : Int]
    BY <2>1, MaintainType
  <2>3. task' \in [step : IdleStep..SessionStep, now : Int] /\ faults' \in Nat
    BY <1>6, <2>2 DEF WriteNode, Idle, IdleStep, SessionStep
  <2> QED
    BY <1>6, <2>3 DEF WriteNode
<1>7. CASE Maintenance
  <2>1. /\ open' \in [Tables -> SUBSET Sample]
        /\ rows' \in [Tables -> [Tiers -> SUBSET Sample]]
    <3>1. CASE Flush
      BY <1>7, <3>1, FlushRowsType DEF Flush, ForgetReady, Ready
    <3>2. ASSUME NEW t \in {2, 3}, RollUpTo(t)
          PROVE  /\ open' \in [Tables -> SUBSET Sample]
                 /\ rows' \in [Tables -> [Tiers -> SUBSET Sample]]
      <4>1. \A i \in Tables :
              RollUp(t, rows[i], task.now) \in [Tiers -> SUBSET Sample]
        BY RollUpType
      <4> QED
        BY <3>2, <4>1 DEF RollUpTo
    <3>3. CASE PruneRows
      <4>1. \A i \in Tables : Prune(rows[i], task.now) \in [Tiers -> SUBSET Sample]
        BY PruneType
      <4> QED
        BY <3>3, <4>1 DEF PruneRows
    <3>4. CASE CloseSessions
      BY <3>4 DEF CloseSessions
    <3> QED
      BY <1>7, <3>1, <3>2, <3>3, <3>4 DEF Maintenance
  <2>2. /\ task' \in [step : IdleStep..SessionStep, now : Int]
        /\ last' \in [Steps -> Int]
        /\ retry' \in [failures : Nat, at : Nat]
        /\ faults' \in Nat
    <3>1. CASE StepFails
      BY <3>1, StepFailsType
    <3>2. CASE StepDone
      BY <3>2, StepDoneType
    <3>3. CASE task' = Idle /\ retry' = NoRetry /\ UNCHANGED <<last, faults>>
      BY <3>3 DEF Idle, NoRetry, IdleStep, SessionStep
    <3> QED
      BY <1>7, <3>1, <3>2, <3>3
      DEF Maintenance, Flush, RollUpTo, PruneRows, CloseSessions
  <2> QED
    BY <1>7, <2>1, <2>2 DEF Maintenance
<1>8. CASE Stop \/ Cancel \/ Start
  BY <1>8 DEF Stop, Cancel, Start
<1>9. CASE Halt
  <2>1. /\ rows' \in [Tables -> [Tiers -> SUBSET Sample]]
        /\ faults' \in Nat
    BY <1>9, FlushRowsType DEF Halt
  <2>2. \E left : Down(left)
    BY <1>9 DEF Halt
  <2> QED
    BY <1>9, <2>1, <2>2, DownType DEF Halt
<1>10. CASE Crash
  <2>1. Down(open)
    BY <1>10 DEF Crash
  <2> QED
    BY <1>10, <2>1, DownType DEF Crash
<1> QED
  BY <1>1, <1>2, <1>3, <1>4, <1>5, <1>6, <1>7, <1>8, <1>9, <1>10 DEF Next

\* Every variable of the sink keeps its type: queues stay within QueueSize,
\* rows and buckets hold samples, the schedule holds dates.
THEOREM SinkTypeCorrect == Spec => []TypeOK
  BY TypeInit, TypeNext, PTL DEF Spec

-----------------------------------------------------------------------------
(* Buckets and time *)

\* Samples of one bucket are closed at the same time.
LEMMA BucketClosesAtOnce ==
    ASSUME NEW s \in Sample, NEW u \in Sample, SameBucket(1, s, u),
           NEW now
    PROVE  Closed(1, s, now) <=> Closed(1, u, now)
  BY DEF SameBucket, Closed

\* A bucket stays closed.
LEMMA ClosedStays ==
    ASSUME NEW s \in Sample, NEW now \in Int, NEW later \in Int,
           now <= later, Closed(1, s, now)
    PROVE  Closed(1, s, later)
<1>1. StartOf(1, s) \in Int /\ Width[1] \in Nat
  BY WindowStart, TierTypes DEF Tiers
<1> QED
  BY <1>1 DEF Closed

\* A sample that is still in the queue belongs to a bucket that no clock has
\* closed: this is what Timely is for.
LEMMA QueuedIsOpen ==
    ASSUME TypeOK, Timely, QueueInTime, NEW j \in 1..Len(queue),
           NEW a \in Offsets
    PROVE  ~Closed(1, queue[j], clock + a)
<1> DEFINE u == queue[j]
<1>1. u \in Sample
  BY DEF TypeOK
<1>2. u.node \in Agents /\ u.at \in Int /\ Skew[u.node] \in Int
  BY <1>1, SinkAssumption DEF SinkAssumption, Sample
<1>3. /\ StartOf(1, u) \in Int /\ u.at < StartOf(1, u) + Width[1]
      /\ Width[1] \in Nat
  BY <1>1, WindowStart, TierTypes DEF Tiers
<1>4. a - Skew[u.node] + MaxBehind <= Width[1]
  BY <1>2 DEF Timely
<1>5. clock - MaxBehind <= u.at - Skew[u.node]
  BY DEF QueueInTime
<1>6. a \in Int /\ clock \in Int /\ MaxBehind \in Nat
  BY OffsetTypes, SinkAssumption DEF SinkAssumption, TypeOK
<1> HIDE DEF u
<1>7. clock + a < StartOf(1, u) + Width[1] + Width[1]
  BY <1>2, <1>3, <1>4, <1>5, <1>6, SMTT(20)
<1>8. ~Closed(1, u, clock + a)
  BY <1>3, <1>6, <1>7 DEF Closed
<1> QED
  BY <1>8 DEF u

\* Because a half-flushed bucket is whole, an upsert loses nothing.
LEMMA FlushIsUnion ==
    ASSUME TypeOK, FlushedIsWhole, NEW i \in Tables, NEW now
    PROVE  Upsert(1, rows[i][1], Ready(i, now)) = rows[i][1] \cup Ready(i, now)
<1>1. /\ rows[i][1] \subseteq Sample /\ open[i] \subseteq Sample
      /\ Ready(i, now) \subseteq open[i]
  BY DEF TypeOK, Tiers, Ready
<1>2. ASSUME NEW s \in rows[i][1], NEW u \in Ready(i, now), SameBucket(1, s, u)
      PROVE  s \in Ready(i, now)
  <2>1. s \in open[i]
    BY <1>1, <1>2 DEF FlushedIsWhole
  <2>2. Closed(1, u, now) /\ s \in Sample /\ u \in Sample
    BY <1>1, <2>1 DEF Ready
  <2>3. Closed(1, s, now)
    BY <1>2, <2>2, BucketClosesAtOnce
  <2> QED
    BY <2>1, <2>3 DEF Ready
<1> QED
  BY <1>2 DEF Upsert

\* The tier that a flush writes: closed buckets only, which agree with what is
\* still in memory, whether or not the buckets leave it.
LEMMA FlushKeepsRows ==
    ASSUME TypeOK, FlushedIsClosed, FlushedIsWhole,
           NEW i \in Tables, NEW now \in Int, ReadsClock(now)
    PROVE  LET stored == rows[i][1] \cup Ready(i, now)
           IN  /\ \A s \in stored : \E a \in Offsets : Closed(1, s, clock + a)
               /\ \A s \in stored, u \in open[i] :
                     SameBucket(1, s, u) => s \in open[i] /\ u \in stored
               /\ \A s \in stored, u \in open[i] \ Ready(i, now) :
                     SameBucket(1, s, u) => s \in open[i] \ Ready(i, now)
               /\ \A s \in rows[i][1], u \in stored :
                     SameBucket(1, s, u) => u \in rows[i][1]
<1> DEFINE stored == rows[i][1] \cup Ready(i, now)
<1>1. /\ rows[i][1] \subseteq Sample /\ open[i] \subseteq Sample
      /\ Ready(i, now) \subseteq open[i]
  BY DEF TypeOK, Tiers, Ready
<1>2. \A s \in open[i] : s \in Ready(i, now) <=> Closed(1, s, now)
  BY DEF Ready
<1>3. ASSUME NEW s \in open[i], NEW u \in open[i], SameBucket(1, s, u)
      PROVE  s \in Ready(i, now) <=> u \in Ready(i, now)
  BY <1>1, <1>2, <1>3, BucketClosesAtOnce
<1>4. \A s \in rows[i][1], u \in open[i] :
        SameBucket(1, s, u) => s \in open[i] /\ u \in rows[i][1]
  BY DEF FlushedIsWhole
<1>5. \A s \in stored : \E a \in Offsets : Closed(1, s, clock + a)
  <2>1. PICK a \in Offsets : now <= clock + a
    BY DEF ReadsClock
  <2>2. clock + a \in Int
    BY OffsetTypes DEF TypeOK
  <2>3. \A s \in Ready(i, now) : Closed(1, s, clock + a)
    BY <1>1, <1>2, <2>1, <2>2, ClosedStays
  <2> QED
    BY <2>3 DEF FlushedIsClosed
<1>6. \A s \in stored, u \in open[i] :
        SameBucket(1, s, u) => s \in open[i] /\ u \in stored
  BY <1>1, <1>3, <1>4
<1>7. \A s \in stored, u \in open[i] \ Ready(i, now) :
        SameBucket(1, s, u) => s \in open[i] \ Ready(i, now)
  BY <1>1, <1>3, <1>4
<1>8. \A s \in rows[i][1], u \in stored :
        SameBucket(1, s, u) => u \in rows[i][1]
  <2>1. ASSUME NEW s \in rows[i][1], NEW u \in Ready(i, now), SameBucket(1, s, u)
        PROVE  u \in rows[i][1]
    BY <1>1, <1>4, <2>1
  <2> QED
    BY <2>1
<1> QED
  BY <1>5, <1>6, <1>7, <1>8

-----------------------------------------------------------------------------
(* The queue and the thread's time *)

\* The manager's clock, its start and the times of queued samples are readings
\* of the clocks.
LEMMA ClockReadings ==
    ASSUME TypeOK, QueueInTime
    PROVE  /\ ReadsClock(0) /\ ReadsClock(clock)
           /\ \A j \in 1..Len(queue) : ReadsClock(queue[j].at)
<1>1. clock \in Nat
  BY SinkAssumption DEF SinkAssumption, TypeOK
<1>2. 0 <= clock + 0 /\ clock <= clock + 0
  BY <1>1
<1>3. ReadsClock(0) /\ ReadsClock(clock)
  BY <1>2, OffsetTypes DEF ReadsClock
<1>4. ASSUME NEW j \in 1..Len(queue)
      PROVE  ReadsClock(queue[j].at)
  <2> DEFINE u == queue[j]
  <2>1. u \in Sample
    BY DEF TypeOK
  <2>2. u.node \in Agents /\ u.at \in Int /\ Skew[u.node] \in Int
    BY <2>1, SinkAssumption DEF SinkAssumption, Sample
  <2>3. u.at - Skew[u.node] <= clock
    BY DEF QueueInTime
  <2> HIDE DEF u
  <2>4. u.at <= clock + Skew[u.node]
    BY <1>1, <2>2, <2>3
  <2>5. Skew[u.node] \in Offsets
    BY <2>2 DEF Offsets
  <2>6. ReadsClock(u.at)
    BY <2>4, <2>5 DEF ReadsClock
  <2> QED BY <2>6 DEF u
<1> QED
  BY <1>3, <1>4

\* Readings of a clock stay behind it.
LEMMA ReadingsStay ==
    ASSUME TypeOK, clock' \in Int, clock <= clock',
           NEW now \in Int, ReadsClock(now)
    PROVE  \E a \in Offsets : now <= clock' + a
<1>1. PICK a \in Offsets : now <= clock + a
  BY DEF ReadsClock
<1>2. a \in Int /\ clock \in Int
  BY OffsetTypes DEF TypeOK
<1>3. \A before, after \in Int :
        before <= after /\ now <= before + a => now <= after + a
  BY <1>2
<1>4. now <= clock' + a
  BY <1>1, <1>2, <1>3
<1> QED
  BY <1>4

\* A step of maintenance keeps the time of its pass, or ends the pass.
LEMMA MaintenanceTime ==
    ASSUME TypeOK, Maintenance
    PROVE  task'.now \in {0, task.now}
<1>1. CASE StepFails
  BY <1>1, StepFailsType DEF Idle
<1>2. CASE StepDone
  BY <1>2, StepDoneType
<1>3. CASE task' = Idle
  BY <1>3 DEF Idle
<1> QED
  BY <1>1, <1>2, <1>3
  DEF Maintenance, Flush, RollUpTo, PruneRows, CloseSessions

\* Every step leaves the thread with a time that some clock has reached.
LEMMA TaskNext ==
    ASSUME TypeOK, TaskInTime, QueueInTime, [Next]_vars
    PROVE  TaskInTime'
<1>1. /\ ReadsClock(0) /\ ReadsClock(clock)
      /\ \A j \in 1..Len(queue) : ReadsClock(queue[j].at)
  BY ClockReadings
<1>2. ReadsClock(task.now) /\ task.now \in Int /\ clock \in Int
  BY DEF TaskInTime, TypeOK
<1>3. CASE Tick
  <2>1. clock' \in Int /\ clock <= clock' /\ task' = task
    BY <1>2, <1>3 DEF Tick
  <2> QED
    BY <1>2, <2>1, ReadingsStay DEF TaskInTime, ReadsClock
<1>4. ASSUME clock' = clock, ReadsClock(task'.now)
      PROVE  TaskInTime'
  BY <1>4 DEF TaskInTime, ReadsClock
<1>5. CASE UNCHANGED vars
  BY <1>2, <1>4, <1>5 DEF vars
<1>6. CASE (\E n \in Agents : Submit(n)) \/ Stop \/ Cancel \/ Start
  BY <1>2, <1>4, <1>6 DEF Submit, Stop, Cancel, Start
<1>7. CASE Take
  <2>1. task'.now = queue[1].at /\ 1 \in 1..Len(queue) /\ clock' = clock
    BY <1>7, TakeType DEF Take
  <2> QED
    BY <1>1, <1>4, <2>1
<1>8. CASE IdleMaintenance
  <2>1. task'.now \in {0, clock} /\ clock' = clock
    BY <1>2, <1>8, MaintainType DEF IdleMaintenance
  <2> QED
    BY <1>1, <1>4, <2>1
<1>9. CASE WriteNode
  <2> DEFINE now == IF clock > task.now THEN clock ELSE task.now
  <2>1. now \in Int /\ now \in {clock, task.now}
    BY <1>2
  <2>2. Maintain(now).now \in {0, now}
    BY <2>1, MaintainType
  <2>3. task'.now \in {0, clock, task.now} /\ clock' = clock
    BY <1>9, <2>1, <2>2 DEF WriteNode, Idle
  <2> QED
    BY <1>1, <1>2, <1>4, <2>3
<1>10. CASE Maintenance
  <2>1. task'.now \in {0, task.now} /\ clock' = clock
    BY <1>10, MaintenanceTime DEF Maintenance
  <2> QED
    BY <1>1, <1>2, <1>4, <2>1
<1>11. CASE Halt \/ Crash
  <2>1. task' = Idle /\ clock' = clock
    BY <1>11 DEF Halt, Crash, Down
  <2>2. task'.now = 0
    BY <2>1 DEF Idle
  <2> QED
    BY <1>1, <1>4, <2>1, <2>2
<1> QED
  BY <1>3, <1>5, <1>6, <1>7, <1>8, <1>9, <1>10, <1>11 DEF Next

\* Every step leaves only recent samples in the queue.
LEMMA QueueNext ==
    ASSUME TypeOK, QueueInTime, [Next]_vars
    PROVE  QueueInTime'
<1> DEFINE InTime(u, c) == /\ u.at - Skew[u.node] <= c
                           /\ c - MaxBehind <= u.at - Skew[u.node]
<1>1. \A j \in 1..Len(queue) : InTime(queue[j], clock)
  BY DEF QueueInTime
<1>2. QueueInTime' <=> \A j \in 1..Len(queue') : InTime(queue'[j], clock')
  BY DEF QueueInTime
<1>3. clock \in Int /\ MaxBehind \in Nat /\ queue \in Seq(Sample)
  BY SinkAssumption DEF SinkAssumption, TypeOK
<1>4. CASE Tick
  <2>1. queue' = queue /\ clock' = clock + 1
    BY <1>4 DEF Tick
  <2>2. ASSUME NEW j \in 1..Len(queue) PROVE InTime(queue[j], clock + 1)
    <3> DEFINE u == queue[j]
    <3>1. u \in Sample
      BY <1>3
    <3>2. u.at \in Int /\ Skew[u.node] \in Int
      BY <3>1, SinkAssumption DEF SinkAssumption, Sample
    <3>3. clock - (u.at - Skew[u.node]) < MaxBehind
      BY <1>4 DEF Tick, KeepsUp
    <3>4. InTime(u, clock)
      BY <1>1
    <3> HIDE DEF u
    <3>5. InTime(u, clock + 1)
      BY <1>3, <3>2, <3>3, <3>4
    <3> QED BY <3>5 DEF u
  <2> QED
    BY <1>2, <2>1, <2>2
<1>5. ASSUME NEW n \in Agents, Submit(n) PROVE QueueInTime'
  <2> DEFINE s == [node |-> n, at |-> clock + Skew[n], id |-> sent]
  <2>1. clock' = clock /\ queue' \in {queue, Append(queue, s)}
    BY <1>5 DEF Submit
  <2>2. s.at - Skew[s.node] = clock
    BY <1>3, SinkAssumption DEF SinkAssumption
  <2>3. InTime(s, clock)
    <3> HIDE DEF s
    <3> QED BY <1>3, <2>2
  <2> HIDE DEF s, InTime
  <2>4. \A j \in 1..Len(Append(queue, s)) : InTime(Append(queue, s)[j], clock)
    BY <1>1, <1>3, <2>3
  <2> QED
    BY <1>1, <1>2, <2>1, <2>4
<1>6. CASE Take
  <2>1. clock' = clock /\ queue' = Tail(queue)
    BY <1>6 DEF Take
  <2>2. \A j \in 1..Len(Tail(queue)) :
          j + 1 \in 1..Len(queue) /\ Tail(queue)[j] = queue[j + 1]
    BY <1>6, TakeType DEF Take
  <2> HIDE DEF InTime
  <2> QED
    BY <1>1, <1>2, <2>1, <2>2
<1>7. CASE Halt \/ Crash
  <2>1. queue' = <<>>
    BY <1>7 DEF Halt, Crash, Down
  <2> QED
    BY <1>2, <2>1
<1>8. CASE UNCHANGED vars \/ IdleMaintenance \/ WriteNode \/ Maintenance
           \/ Stop \/ Cancel \/ Start
  <2>1. clock' = clock /\ queue' = queue
    BY <1>8 DEF vars, IdleMaintenance, WriteNode, Maintenance, Stop, Cancel, Start
  <2> HIDE DEF InTime
  <2> QED
    BY <1>1, <1>2, <2>1
<1> QED
  BY <1>4, <1>5, <1>6, <1>7, <1>8 DEF Next

-----------------------------------------------------------------------------
(* Rows and buckets *)

RowsInv == FlushedIsClosed /\ FlushedIsWhole /\ NothingForgotten

\* Any part of a flush, or none: tier 1 of a table stays or gains the ready
\* buckets, and they stay in memory, leave it after that, or are lost with the
\* process together with what is only in memory.
LEMMA PartOfFlush ==
    ASSUME TypeOK, RowsInv, NEW now \in Int, ReadsClock(now), clock' = clock,
           \A i \in Tables :
              \/ /\ rows'[i][1] \in {rows[i][1], rows[i][1] \cup Ready(i, now)}
                 /\ open'[i] \in {open[i], {}}
              \/ /\ rows'[i][1] = rows[i][1] \cup Ready(i, now)
                 /\ open'[i] = open[i] \ Ready(i, now),
           kept' \subseteq kept,
           \A i \in Tables : \A s \in kept' :
              s \in open[i] => s \in open'[i] \/ s \in rows'[i][1]
    PROVE  RowsInv' /\ RowsAreFinal
<1>1. \A i \in Tables :
        LET stored == rows[i][1] \cup Ready(i, now)
        IN  /\ \A s \in stored : \E a \in Offsets : Closed(1, s, clock + a)
            /\ \A s \in stored, u \in open[i] :
                  SameBucket(1, s, u) => s \in open[i] /\ u \in stored
            /\ \A s \in stored, u \in open[i] \ Ready(i, now) :
                  SameBucket(1, s, u) => s \in open[i] \ Ready(i, now)
            /\ \A s \in rows[i][1], u \in stored :
                  SameBucket(1, s, u) => u \in rows[i][1]
  BY FlushKeepsRows DEF RowsInv
<1>2. \A i \in Tables : /\ rows[i][1] \subseteq rows'[i][1]
                        /\ rows'[i][1] \subseteq rows[i][1] \cup Ready(i, now)
  OBVIOUS
<1>3. FlushedIsClosed'
  <2>1. ASSUME NEW i \in Tables, NEW s \in rows'[i][1]
        PROVE  \E a \in Offsets : Closed(1, s, clock' + a)
    <3>1. s \in rows[i][1] \cup Ready(i, now)
      BY <1>2
    <3> QED
      BY <1>1, <3>1
  <2> QED
    BY <2>1 DEF FlushedIsClosed, Closed, StartOf
<1>4. FlushedIsWhole'
  <2>1. ASSUME NEW i \in Tables, NEW s \in rows'[i][1], NEW u \in open'[i],
               SameBucket(1, s, u)
        PROVE  s \in open'[i] /\ u \in rows'[i][1]
    <3>1. CASE rows'[i][1] = rows[i][1] /\ open'[i] = open[i]
      BY <2>1, <3>1 DEF RowsInv, FlushedIsWhole
    <3>2. CASE rows'[i][1] = rows[i][1] \cup Ready(i, now) /\ open'[i] = open[i]
      BY <1>1, <2>1, <3>2
    <3>3. CASE /\ rows'[i][1] = rows[i][1] \cup Ready(i, now)
               /\ open'[i] = open[i] \ Ready(i, now)
      <4>1. s \in rows[i][1] \cup Ready(i, now) /\ u \in open[i] \ Ready(i, now)
        BY <2>1, <3>3
      <4>2. s \in open[i] \ Ready(i, now)
        BY <1>1, <2>1, <4>1
      <4>3. u \in rows[i][1] \cup Ready(i, now)
        BY <1>1, <2>1, <4>1
      <4> QED
        BY <3>3, <4>2, <4>3
    <3>4. CASE open'[i] = {}
      BY <2>1, <3>4
    <3> QED
      BY <3>1, <3>2, <3>3, <3>4
  <2> QED
    BY <2>1 DEF FlushedIsWhole, SameBucket, StartOf
<1>5. NothingForgotten'
  <2>1. ASSUME NEW s \in kept', NEW i \in Tables
        PROVE  s \in open'[i] \/ s \in rows'[i][1] \/ Expired(1, s)
    BY <1>2 DEF RowsInv, NothingForgotten
  <2>2. \A s : Expired(1, s)' <=> Expired(1, s)
    BY DEF Expired, StartOf
  <2> QED
    BY <2>1, <2>2 DEF NothingForgotten
<1>6. RowsAreFinal
  <2>1. ASSUME NEW i \in Tables, NEW s \in rows[i][1]
        PROVE  {u \in rows'[i][1] : SameBucket(1, s, u)}
                 = {u \in rows[i][1] : SameBucket(1, s, u)}
    BY <1>1, <1>2
  <2> QED
    BY <2>1 DEF RowsAreFinal, Row, SameBucket, StartOf
<1> QED
  BY <1>3, <1>4, <1>5, <1>6 DEF RowsInv

\* Time passes: closed stays closed, expired stays expired.
LEMMA TickRows ==
    ASSUME TypeOK, RowsInv, Tick
    PROVE  RowsInv' /\ RowsAreFinal
<1>1. /\ clock \in Int /\ clock' = clock + 1
      /\ rows' = rows /\ open' = open /\ kept' = kept
  BY DEF Tick, TypeOK
<1>2. FlushedIsClosed'
  <2>1. ASSUME NEW i \in Tables, NEW s \in rows[i][1]
        PROVE  \E a \in Offsets : Closed(1, s, clock + 1 + a)
    <3>1. PICK a \in Offsets : Closed(1, s, clock + a)
      BY DEF RowsInv, FlushedIsClosed
    <3>2. s \in Sample
      BY DEF TypeOK, Tiers
    <3>3. clock + a \in Int /\ clock + 1 + a \in Int /\ clock + a <= clock + 1 + a
      BY <1>1, OffsetTypes
    <3>4. Closed(1, s, clock + 1 + a)
      BY <3>1, <3>2, <3>3, ClosedStays
    <3> QED
      BY <3>4
  <2> QED
    BY <1>1, <2>1 DEF FlushedIsClosed, Closed, StartOf
<1>3. FlushedIsWhole'
  BY <1>1 DEF RowsInv, FlushedIsWhole, SameBucket, StartOf
<1>4. NothingForgotten'
  <2>1. ASSUME NEW s \in Sample, Expired(1, s)
        PROVE  Expired(1, s)'
    <3>1. PICK a \in Offsets : StartOf(1, s) < clock + a - Retention[1]
      BY <2>1 DEF Expired
    <3>2. StartOf(1, s) \in Int /\ Retention[1] \in Nat /\ a \in Int
      BY WindowStart, TierTypes, OffsetTypes DEF Tiers
    <3>3. StartOf(1, s) < clock + 1 + a - Retention[1]
      BY <1>1, <3>1, <3>2
    <3> QED
      BY <1>1, <3>3 DEF Expired, StartOf
  <2>2. kept \subseteq Sample
    BY DEF TypeOK
  <2> QED
    BY <1>1, <2>1, <2>2 DEF RowsInv, NothingForgotten
<1>5. RowsAreFinal
  BY <1>1 DEF RowsAreFinal, Row, SameBucket, StartOf
<1> QED
  BY <1>2, <1>3, <1>4, <1>5 DEF RowsInv

\* A sample enters the memory: no row of its bucket exists yet.
LEMMA TakeRows ==
    ASSUME TypeOK, Timely, QueueInTime, RowsInv, Take
    PROVE  RowsInv' /\ RowsAreFinal
<1> DEFINE h == Head(queue)
<1>1. /\ clock' = clock /\ rows' = rows
      /\ \A i \in Tables : open'[i] = open[i] \cup {h}
      /\ kept' = kept \cup {h}
  BY DEF Take, TypeOK
<1>2. h \in Sample /\ h = queue[1] /\ 1 \in 1..Len(queue)
  BY TakeType DEF Take
<1> HIDE DEF h
<1>3. ASSUME NEW i \in Tables, NEW s \in rows[i][1]
      PROVE  ~SameBucket(1, s, h)
  <2>1. PICK a \in Offsets : Closed(1, s, clock + a)
    BY DEF RowsInv, FlushedIsClosed
  <2>2. ~Closed(1, h, clock + a)
    BY <1>2, QueuedIsOpen
  <2>3. s \in Sample
    BY DEF TypeOK, Tiers
  <2> QED
    BY <1>2, <2>1, <2>2, <2>3, BucketClosesAtOnce
<1>4. FlushedIsClosed'
  BY <1>1 DEF RowsInv, FlushedIsClosed, Closed, StartOf
<1>5. FlushedIsWhole'
  <2>1. ASSUME NEW i \in Tables, NEW s \in rows[i][1], NEW u \in open'[i],
               SameBucket(1, s, u)
        PROVE  s \in open'[i] /\ u \in rows[i][1]
    <3>1. u \in open[i]
      BY <1>1, <1>3, <2>1
    <3> QED
      BY <1>1, <2>1, <3>1 DEF RowsInv, FlushedIsWhole
  <2> QED
    BY <1>1, <2>1 DEF FlushedIsWhole, SameBucket, StartOf
<1>6. NothingForgotten'
  <2>1. \A s : Expired(1, s)' <=> Expired(1, s)
    BY <1>1 DEF Expired, StartOf
  <2> QED
    BY <1>1, <2>1 DEF RowsInv, NothingForgotten
<1>7. RowsAreFinal
  BY <1>1 DEF RowsAreFinal, Row, SameBucket, StartOf
<1> QED
  BY <1>4, <1>5, <1>6, <1>7 DEF RowsInv

\* Pruning removes whole rows, which have expired.
LEMMA PruneKeepsRows ==
    ASSUME TypeOK, TaskInTime, RowsInv, clock' = clock, open' = open, kept' = kept,
           rows' = [i \in Tables |-> Prune(rows[i], task.now)]
    PROVE  RowsInv' /\ RowsAreFinal
<1> DEFINE stays(s) == StartOf(1, s) >= task.now - Retention[1]
<1>1. \A i \in Tables : rows'[i][1] = {s \in rows[i][1] : stays(s)}
  BY DEF Prune, Tiers
<1>2. \A s, u : SameBucket(1, s, u) => (stays(s) <=> stays(u))
  BY DEF SameBucket
<1>3. ASSUME NEW s \in Sample, ~stays(s)
      PROVE  Expired(1, s)
  <2>1. PICK a \in Offsets : task.now <= clock + a
    BY DEF TaskInTime, ReadsClock
  <2>2. /\ StartOf(1, s) \in Int /\ Retention[1] \in Nat /\ a \in Int
        /\ task.now \in Int /\ clock \in Int
    BY WindowStart, TierTypes, OffsetTypes DEF Tiers, TypeOK
  <2>3. StartOf(1, s) < clock + a - Retention[1]
    BY <1>3, <2>1, <2>2
  <2> QED
    BY <2>3 DEF Expired
<1> HIDE DEF stays
<1>4. FlushedIsClosed'
  BY <1>1 DEF RowsInv, FlushedIsClosed, Closed, StartOf
<1>5. FlushedIsWhole'
  <2>1. ASSUME NEW i \in Tables, NEW s \in rows'[i][1], NEW u \in open[i],
               SameBucket(1, s, u)
        PROVE  s \in open[i] /\ u \in rows'[i][1]
    BY <1>1, <1>2, <2>1 DEF RowsInv, FlushedIsWhole
  <2> QED
    BY <2>1 DEF FlushedIsWhole, SameBucket, StartOf
<1>6. NothingForgotten'
  <2>1. \A s : Expired(1, s)' <=> Expired(1, s)
    BY DEF Expired, StartOf
  <2>2. kept \subseteq Sample
    BY DEF TypeOK
  <2> QED
    BY <1>1, <1>3, <2>1, <2>2 DEF RowsInv, NothingForgotten
<1>7. RowsAreFinal
  <2>1. ASSUME NEW i \in Tables, NEW s \in rows[i][1]
        PROVE  {u \in rows'[i][1] : SameBucket(1, s, u)}
                 \in {{u \in rows[i][1] : SameBucket(1, s, u)}, {}}
    <3>1. CASE stays(s)
      BY <1>1, <1>2, <3>1
    <3>2. CASE ~stays(s)
      BY <1>1, <1>2, <3>2
    <3> QED
      BY <3>1, <3>2
  <2> QED
    BY <2>1 DEF RowsAreFinal, Row, SameBucket, StartOf
<1> QED
  BY <1>4, <1>5, <1>6, <1>7 DEF RowsInv

\* What a flush does to tier 1, by the number of its transactions.
LEMMA FlushParts ==
    ASSUME TypeOK, FlushedIsWhole, NEW k \in 0..TableCount, NEW now,
           FlushRows(k, now)
    PROVE  /\ \A i \in Tables :
                 rows'[i][1] \in {rows[i][1], rows[i][1] \cup Ready(i, now)}
           /\ k = TableCount => \A i \in Tables :
                 rows'[i][1] = rows[i][1] \cup Ready(i, now)
<1>1. \A i \in Tables :
        rows'[i][1] = IF i <= k THEN Upsert(1, rows[i][1], Ready(i, now))
                                ELSE rows[i][1]
  BY FlushRowsType DEF TypeOK
<1>2. \A i \in Tables :
        Upsert(1, rows[i][1], Ready(i, now)) = rows[i][1] \cup Ready(i, now)
  BY FlushIsUnion
<1>3. \A i \in Tables : k = TableCount => i <= k
  BY DEF Tables
<1> QED
  BY <1>1, <1>2, <1>3

\* Every step keeps the invariant of rows and buckets, and every row final.
LEMMA RowsNext ==
    ASSUME TypeOK, Timely, TaskInTime, QueueInTime, RowsInv, [Next]_vars
    PROVE  RowsInv' /\ RowsAreFinal
<1>1. /\ task.now \in Int /\ ReadsClock(task.now)
      /\ clock \in Int /\ ReadsClock(clock) /\ FlushedIsWhole
  BY ClockReadings DEF TaskInTime, TypeOK, RowsInv
<1>2. CASE Tick
  BY <1>2, TickRows
<1>3. CASE Take
  BY <1>3, TakeRows
<1>4. ASSUME clock' = clock, kept' = kept, open' = open,
             \A i \in Tables : rows'[i][1] = rows[i][1]
      PROVE  RowsInv' /\ RowsAreFinal
  BY <1>1, <1>4, PartOfFlush
<1>5. CASE UNCHANGED vars \/ (\E n \in Agents : Submit(n)) \/ IdleMaintenance
           \/ WriteNode \/ Stop \/ Cancel \/ Start
  BY <1>4, <1>5 DEF vars, Submit, IdleMaintenance, WriteNode, Stop, Cancel, Start
<1>6. CASE Maintenance
  <2>1. clock' = clock /\ kept' = kept
    BY <1>6 DEF Maintenance
  <2>2. CASE Flush
    <3>1. CASE FlushRows(TableCount, task.now) /\ ForgetReady(task.now)
      <4>1. TableCount \in 0..TableCount
        BY SinkAssumption DEF SinkAssumption
      <4>2. \A i \in Tables : /\ rows'[i][1] = rows[i][1] \cup Ready(i, task.now)
                             /\ open'[i] = open[i] \ Ready(i, task.now)
        BY <1>1, <3>1, <4>1, FlushParts DEF ForgetReady
      <4> QED
        BY <1>1, <2>1, <4>2, PartOfFlush
    <3>2. CASE /\ \E k \in 0..TableCount - 1 : FlushRows(k, task.now)
               /\ UNCHANGED open
      <4>1. PICK k \in 0..TableCount - 1 : FlushRows(k, task.now)
        BY <3>2
      <4>2. k \in 0..TableCount
        BY SinkAssumption DEF SinkAssumption
      <4>3. \A i \in Tables :
              rows'[i][1] \in {rows[i][1], rows[i][1] \cup Ready(i, task.now)}
        BY <1>1, <4>1, <4>2, FlushParts
      <4> QED
        BY <1>1, <2>1, <3>2, <4>3, PartOfFlush
    <3> QED
      BY <2>2, <3>1, <3>2 DEF Flush
  <2>3. ASSUME NEW t \in {2, 3}, RollUpTo(t)
        PROVE  RowsInv' /\ RowsAreFinal
    <3>1. open' = open /\ \A i \in Tables :
            rows'[i] \in {rows[i], RollUp(t, rows[i], task.now)}
      BY <2>3 DEF RollUpTo
    <3>2. \A i \in Tables : RollUp(t, rows[i], task.now)[1] = rows[i][1]
      BY RollUpType DEF TypeOK
    <3> QED
      BY <1>4, <2>1, <3>1, <3>2
  <2>4. CASE PruneRows
    BY <1>4, <2>1, <2>4, PruneKeepsRows DEF PruneRows
  <2>5. CASE CloseSessions
    BY <1>4, <2>1, <2>5 DEF CloseSessions
  <2> QED
    BY <1>6, <2>2, <2>3, <2>4, <2>5 DEF Maintenance
<1>7. CASE Halt
  <2>1. clock' = clock
    BY <1>7 DEF Halt
  <2>2. CASE /\ FlushRows(TableCount, clock)
             /\ Down([i \in Tables |-> open[i] \ Ready(i, clock)])
    <3>1. TableCount \in 0..TableCount
      BY SinkAssumption DEF SinkAssumption
    <3>2. \A i \in Tables : /\ rows'[i][1] = rows[i][1] \cup Ready(i, clock)
                           /\ open'[i] = {}
      BY <1>1, <2>2, <3>1, FlushParts DEF Down
    <3>3. kept' \subseteq kept /\ \A i \in Tables : \A s \in kept' :
            s \notin open[i] \ Ready(i, clock)
      BY <2>2 DEF Down
    <3> QED
      BY <1>1, <2>1, <3>2, <3>3, PartOfFlush
  <2>3. CASE /\ \E k \in 0..TableCount - 1 : FlushRows(k, clock)
             /\ Down(open)
    <3>1. PICK k \in 0..TableCount - 1 : FlushRows(k, clock)
      BY <2>3
    <3>2. k \in 0..TableCount
      BY SinkAssumption DEF SinkAssumption
    <3>3. \A i \in Tables :
            /\ rows'[i][1] \in {rows[i][1], rows[i][1] \cup Ready(i, clock)}
            /\ open'[i] = {}
      BY <1>1, <2>3, <3>1, <3>2, FlushParts DEF Down
    <3>4. kept' \subseteq kept /\ \A i \in Tables : \A s \in kept' : s \notin open[i]
      BY <2>3 DEF Down
    <3> QED
      BY <1>1, <2>1, <3>3, <3>4, PartOfFlush
  <2> QED
    BY <1>7, <2>2, <2>3 DEF Halt
<1>8. CASE Crash
  <2>1. /\ clock' = clock /\ rows' = rows /\ kept' \subseteq kept
        /\ \A i \in Tables : open'[i] = {} /\ \A s \in kept' : s \notin open[i]
    BY <1>8 DEF Crash, Down
  <2> QED
    BY <1>1, <2>1, PartOfFlush
<1> QED
  BY <1>2, <1>3, <1>5, <1>6, <1>7, <1>8 DEF Next

-----------------------------------------------------------------------------
(* Theorems *)

\* The invariant holds of an empty database.
LEMMA SinkInit == Init => TaskInTime /\ QueueInTime /\ RowsInv
<1> SUFFICES ASSUME Init PROVE TaskInTime /\ QueueInTime /\ RowsInv
  OBVIOUS
<1>1. task.now = 0 /\ clock = 0 /\ Len(queue) = 0 /\ kept = {}
      /\ \A i \in Tables : open[i] = {} /\ rows[i][1] = {}
  BY DEF Init, Idle, Tiers
<1>2. 0 \in Offsets /\ 0 <= 0 + 0
  BY OffsetTypes
<1> QED
  BY <1>1, <1>2
  DEF TaskInTime, ReadsClock, QueueInTime, RowsInv, FlushedIsClosed,
      FlushedIsWhole, NothingForgotten

\* The inductive invariant, when the clocks and the queue are timely.
THEOREM SinkInvariant ==
    ASSUME Timely
    PROVE  Spec => [](TypeOK /\ SinkInv)
<1>1. Init => TypeOK /\ SinkInv
  BY TypeInit, SinkInit DEF SinkInv, RowsInv
<1>2. TypeOK /\ SinkInv /\ [Next]_vars => (TypeOK /\ SinkInv)'
  BY TypeNext, TaskNext, QueueNext, RowsNext DEF SinkInv, RowsInv
<1> QED
  BY <1>1, <1>2, PTL DEF Spec

\* What the worker accumulated stays in memory or in a 20 s row until that row
\* expires, through failed flushes, retries, stops and crashes.
THEOREM NothingForgottenAlways ==
    ASSUME Timely
    PROVE  Spec => []NothingForgotten
<1>1. SinkInv => NothingForgotten
  BY DEF SinkInv
<1> QED
  BY <1>1, SinkInvariant, PTL

\* A flushed row is never replaced by a different one.
THEOREM FlushedBucketsStayFinal ==
    ASSUME Timely
    PROVE  Spec => FlushedBucketsAreFinal
<1>1. TypeOK /\ SinkInv /\ [Next]_vars => RowsAreFinal
  BY RowsNext DEF SinkInv, RowsInv
<1>2. RowsAreFinal =>
        \A i \in Tables : \A s \in rows[i][1] :
            Row(i, 1, s)' \in {Row(i, 1, s), {}}
  BY DEF RowsAreFinal
<1> QED
  BY <1>1, <1>2, SinkInvariant, PTL DEF Spec, FlushedBucketsAreFinal

-----------------------------------------------------------------------------
(* The schedule *)

\* How far apart the tiers are, and how long they are kept: what makes every
\* pass roll up a row before it may expire.  The code has tiers of 20 s, 2 m
\* and 1 h, kept for 7, 60 and 365 days, and flushes every 10 s.
TiersLast ==
    /\ 2 * Width[1] + FlushEvery <= Width[2]
    /\ 3 * Width[2] <= Width[3]
    /\ 3 * Width[3] + Width[1] <= Retention[1]
    /\ Retention[1] + Width[2] <= Retention[2]
    /\ Retention[2] + Width[3] <= Retention[3]

\* They are those of the code, ROLLUP_RETENTION_SECONDS and the tiers it is
\* keyed by.
LEMMA CodeTiersLast ==
    ASSUME Width = <<20, 120, 3600>>, FlushEvery = 10,
           Retention = <<7 * 86400, 60 * 86400, 365 * 86400>>
    PROVE  TiersLast
  BY DEF TiersLast

\* The date of a completed step is one that some clock has reached.
LastInTime == \A u \in Steps : ReadsClock(last[u])

\* A pass that is at a step has done those before it, or they were not due; the
\* step itself is.
OnSchedule ==
    /\ task.step \in FlushStep..SessionStep =>
          \A u \in Steps : u < task.step => task.now - last[u] <= Every[u]
    /\ task.step \in Steps => task.now - last[task.step] >= Every[task.step]

\* The hourly rollup is made of 2 m rows that are up to date.
HourlyFollows == last[3] <= last[2] + Width[2]

ScheduleInv == LastInTime /\ OnSchedule /\ HourlyFollows

\* The arithmetic of the tiers, as the proofs use it.
LEMMA TierNumbers ==
    ASSUME TiersLast
    PROVE  /\ \A t \in Tiers : Width[t] \in Nat /\ Width[t] > 0 /\ Retention[t] \in Nat
           /\ FlushEvery \in Nat /\ PruneEvery \in Nat
           /\ Width[1] <= Width[2] /\ Width[1] <= Width[3]
           /\ Width[1] + Width[1] + FlushEvery <= Width[2]
           /\ Width[2] + Width[2] + Width[2] <= Width[3]
           /\ Width[3] + Width[3] + Width[3] + Width[1] <= Retention[1]
           /\ Width[2] + Width[2] + Width[2] + Width[1] <= Retention[1]
           /\ Width[3] + Width[3] + Width[3] + Width[2] <= Retention[2]
           /\ Retention[1] + Width[2] <= Retention[2]
           /\ Retention[2] + Width[3] <= Retention[3]
<1>1. \A t \in Tiers : Width[t] \in Nat /\ Width[t] > 0 /\ Retention[t] \in Nat
  BY TierTypes
<1>2. FlushEvery \in Nat /\ PruneEvery \in Nat
  BY SinkAssumption DEF SinkAssumption
<1>3. /\ Width[1] \in Nat /\ Width[2] \in Nat /\ Width[3] \in Nat
      /\ Retention[1] \in Nat /\ Retention[2] \in Nat /\ Retention[3] \in Nat
  BY <1>1 DEF Tiers
<1>4. /\ Width[1] + Width[1] + FlushEvery <= Width[2]
      /\ Width[2] + Width[2] + Width[2] <= Width[3]
      /\ Width[3] + Width[3] + Width[3] + Width[1] <= Retention[1]
      /\ Retention[1] + Width[2] <= Retention[2]
      /\ Retention[2] + Width[3] <= Retention[3]
  BY <1>2, <1>3 DEF TiersLast
<1> QED BY <1>1, <1>2, <1>3, <1>4

\* The steps and their intervals.
LEMMA StepTypes ==
    /\ Steps = {1, 2, 3, 4}
    /\ Every[1] = FlushEvery /\ Every[2] = Width[2]
    /\ Every[3] = Width[3] /\ Every[4] = PruneEvery
    /\ \A u \in Steps : Every[u] \in Nat
<1>1. Steps = {1, 2, 3, 4}
  BY DEF Steps, FlushStep, PruneStep
<1>2. /\ Every[1] = FlushEvery /\ Every[2] = Width[2]
      /\ Every[3] = Width[3] /\ Every[4] = PruneEvery
  BY DEF Every
<1>3. FlushEvery \in Nat /\ PruneEvery \in Nat /\ Width[2] \in Nat /\ Width[3] \in Nat
  BY SinkAssumption DEF SinkAssumption, Tiers
<1> QED BY <1>1, <1>2, <1>3

\* Rows of a table
TableRows == [Tiers -> SUBSET Sample]

\* The types of a table, of a sample in memory, and of the dates.
LEMMA TableTypes ==
    ASSUME TypeOK
    PROVE  /\ \A i \in Tables : rows[i] \in TableRows /\ open[i] \subseteq Sample
           /\ \A i \in Tables : rows[i][1] \subseteq Sample
           /\ clock \in Int /\ task.now \in Int /\ last \in [Steps -> Int]
           /\ 1 \in Steps /\ 2 \in Steps /\ 3 \in Steps /\ 4 \in Steps
           /\ last[1] \in Int /\ last[2] \in Int /\ last[3] \in Int
<1>1. 1 \in Steps /\ 2 \in Steps /\ 3 \in Steps /\ 4 \in Steps
  BY StepTypes
<1> QED BY <1>1 DEF TypeOK, TableRows, Tiers

\* NextDue is due, if it is a step of maintenance, and what it passes over was
\* not.
LEMMA NextDueSkips ==
    ASSUME last \in [Steps -> Int], NEW step \in 1..5, NEW now \in Int
    PROVE  LET next == NextDue(step, now)
           IN /\ next \in Steps => next >= step /\ now - last[next] >= Every[next]
              /\ \A u \in Steps : step <= u /\ u < next => now - last[u] < Every[u]
<1> DEFINE due == {s \in Steps : s >= step /\ now - last[s] >= Every[s]}
<1>1. due \subseteq {1, 2, 3, 4}
  BY StepTypes
<1>2. \A u \in Steps : last[u] \in Int /\ Every[u] \in Nat /\ u \in Int
  BY StepTypes
<1>3. CASE due = {}
  <2>1. NextDue(step, now) = 5
    BY <1>3 DEF NextDue, SessionStep
  <2>2. \A u \in Steps : ~(step <= u /\ now - last[u] >= Every[u])
    BY <1>2, <1>3
  <2>3. 5 \notin Steps
    BY StepTypes
  <2> QED BY <1>2, <2>1, <2>2, <2>3
<1>4. CASE due # {}
  <2>1. NextDue(step, now) = CHOOSE s \in due : \A w \in due : s <= w
    BY <1>4 DEF NextDue
  <2>2. \E s \in due : \A w \in due : s <= w
    <3> HIDE DEF due
    <3>1. CASE 1 \in due BY <3>1, <1>1
    <3>2. CASE 1 \notin due /\ 2 \in due BY <3>2, <1>1
    <3>3. CASE 1 \notin due /\ 2 \notin due /\ 3 \in due BY <3>3, <1>1
    <3>4. CASE due \subseteq {4}
      <4>1. due = {4} BY <3>4, <1>4
      <4> QED BY <4>1
    <3> QED BY <3>1, <3>2, <3>3, <3>4, <1>1
  <2>3. NextDue(step, now) \in due /\ \A w \in due : NextDue(step, now) <= w
    <3> HIDE DEF due
    <3> QED BY <2>1, <2>2
  <2> DEFINE next == NextDue(step, now)
  <2>4. next \in Int /\ next >= step /\ now - last[next] >= Every[next]
    BY <1>1, <2>3
  <2>5. \A u \in Steps : u < next => u \notin due
    <3> HIDE DEF due, next
    <3> QED BY <1>2, <2>3, <2>4 DEF next
  <2>6. \A u \in Steps : step <= u /\ u < next => now - last[u] < Every[u]
    <3> SUFFICES ASSUME NEW u \in Steps, step <= u, u < next
                 PROVE  now - last[u] < Every[u]
      OBVIOUS
    <3>1. u \notin due
      BY <2>5
    <3> QED BY <1>2, <3>1
  <2> QED BY <2>4, <2>6
<1> QED BY <1>3, <1>4

\* A completed step is dated with the time of its pass.
LEMMA StepDoneDates ==
    ASSUME TypeOK, task.step \in Steps, StepDone
    PROVE  /\ task.step \in 1..4 /\ task.now \in Int
           /\ last' \in [Steps -> Int]
           /\ last'[task.step] = task.now
           /\ \A u \in Steps : u # task.step => last'[u] = last[u]
           /\ task'.now = task.now
           /\ task'.step = NextDue(task.step + 1, task.now)
<1>1. /\ task \in [step : IdleStep..SessionStep, now : Int]
      /\ last \in [Steps -> Int]
  BY DEF TypeOK
<1>2. /\ last' = [last EXCEPT ![task.step] = task.now]
      /\ task' = [task EXCEPT !.step = NextDue(task.step + 1, task.now)]
  BY DEF StepDone
<1>3. task.step \in 1..4 /\ task.now \in Int
  BY <1>1, StepTypes
<1> QED BY <1>1, <1>2, <1>3

\* It leaves the schedule in order.
LEMMA StepDoneSchedule ==
    ASSUME TypeOK, TiersLast, TaskInTime, ScheduleInv,
           task.step \in Steps, StepDone, clock' = clock
    PROVE  ScheduleInv'
<1> DEFINE now == task.now
           k == task.step
           next == NextDue(k + 1, now)
<1>1. /\ k \in 1..4 /\ now \in Int /\ last \in [Steps -> Int]
      /\ last' \in [Steps -> Int] /\ last'[k] = now
      /\ \A u \in Steps : u # k => last'[u] = last[u]
      /\ task'.now = now /\ task'.step = next
  BY StepDoneDates DEF TypeOK
<1>2. LastInTime'
  <2>1. ReadsClock(now)
    BY DEF TaskInTime
  <2> QED BY <1>1, <2>1 DEF ScheduleInv, LastInTime, ReadsClock
<1>3. \A u \in Steps : u < k => now - last[u] <= Every[u]
  BY <1>1 DEF ScheduleInv, OnSchedule, FlushStep, SessionStep
<1>4. k + 1 \in 1..5
  BY <1>1
<1>5. /\ next \in Steps => next >= k + 1 /\ now - last[next] >= Every[next]
      /\ \A u \in Steps : k + 1 <= u /\ u < next => now - last[u] < Every[u]
  BY <1>1, <1>4, NextDueSkips
<1>d. now - last[k] >= Every[k]
  BY DEF ScheduleInv, OnSchedule
<1> HIDE DEF now, k, next
<1>6. OnSchedule'
  <2>0. next \in Steps => now - last'[next] >= Every[next]
    BY <1>1, <1>5, StepTypes
  <2> SUFFICES ASSUME NEW u \in Steps, u < next
               PROVE  now - last'[u] <= Every[u]
    BY <1>1, <2>0 DEF OnSchedule
  <2>1. u \in Int /\ Every[u] \in Nat /\ last[u] \in Int /\ last'[u] \in Int
    BY <1>1, StepTypes
  <2>2. CASE u < k
    <3>1. last'[u] = last[u] /\ now - last[u] <= Every[u]
      BY <1>1, <1>3, <2>1, <2>2
    <3> QED BY <3>1
  <2>3. CASE u = k
    BY <1>1, <2>1, <2>3
  <2>4. CASE k + 1 <= u
    <3>1. last'[u] = last[u] /\ now - last[u] < Every[u]
      BY <1>1, <1>5, <2>1, <2>4
    <3> QED BY <1>1, <2>1, <3>1
  <2> QED BY <1>1, <2>1, <2>2, <2>3, <2>4
<1>7. HourlyFollows'
  <2>1. /\ 2 \in Steps /\ 3 \in Steps /\ Every[2] = Width[2]
        /\ last[2] \in Int /\ last[3] \in Int /\ Width[2] \in Nat
    BY <1>1, StepTypes
  <2>2. CASE k = 3
    <3>1. now - last[2] <= Width[2] /\ last'[2] = last[2] /\ last'[3] = now
      BY <1>1, <1>3, <2>1, <2>2
    <3> QED BY <1>1, <2>1, <3>1 DEF HourlyFollows
  <2>3. CASE k = 2
    <3>1. last'[3] = last[3] /\ last'[2] = now /\ now - last[2] >= Width[2]
      BY <1>1, <1>d, <2>1, <2>3
    <3> QED BY <1>1, <2>1, <3>1 DEF ScheduleInv, HourlyFollows
  <2>4. CASE k \notin {2, 3}
    <3>1. last'[3] = last[3] /\ last'[2] = last[2]
      BY <1>1, <2>1, <2>4
    <3> QED BY <3>1 DEF ScheduleInv, HourlyFollows
  <2> QED BY <2>2, <2>3, <2>4
<1> QED BY <1>2, <1>6, <1>7 DEF ScheduleInv

\* A pass that begins is at the first step that is due.
LEMMA MaintainSchedule ==
    ASSUME TypeOK, ScheduleInv, NEW now \in Int, task' = Maintain(now), last' = last,
           clock' = clock
    PROVE  ScheduleInv'
<1> DEFINE next == NextDue(1, now)
<1>1. task' = Idle \/ task' = [step |-> next, now |-> now]
  BY DEF Maintain, FlushStep
<1>2. /\ next \in Steps => now - last[next] >= Every[next]
      /\ \A u \in Steps : 1 <= u /\ u < next => now - last[u] < Every[u]
  <2>1. last \in [Steps -> Int] /\ 1 \in 1..5
    BY TableTypes
  <2> HIDE DEF next
  <2> QED BY <2>1, NextDueSkips DEF next
<1>3. \A u \in Steps : 1 <= u /\ last[u] \in Int /\ Every[u] \in Nat
  <2>1. last \in [Steps -> Int]
    BY TableTypes
  <2>2. \A u \in Steps : 1 <= u
    BY StepTypes
  <2> QED BY <2>1, <2>2, StepTypes
<1> HIDE DEF next
<1>4. OnSchedule'
  <2>1. CASE task' = Idle
    <3>1. task'.step = -1
      BY <2>1 DEF Idle, IdleStep
    <3>2. -1 \notin FlushStep..SessionStep /\ -1 \notin Steps
      BY StepTypes DEF FlushStep, SessionStep
    <3> QED BY <3>1, <3>2 DEF OnSchedule
  <2>2. CASE task' = [step |-> next, now |-> now]
    <3>1. task'.step = next /\ task'.now = now
      BY <2>2
    <3>2. \A u \in Steps : u < next => now - last[u] <= Every[u]
      BY <1>2, <1>3
    <3> QED BY <1>2, <3>1, <3>2 DEF OnSchedule
  <2> QED BY <1>1, <2>1, <2>2
<1> QED BY <1>4 DEF ScheduleInv, LastInTime, ReadsClock, HourlyFollows

\* A thread that rests, or writes a snapshot, is at no step of a pass.
LEMMA RestSchedule ==
    ASSUME TypeOK, ScheduleInv, task'.step \in {-1, 0}, last' = last,
           clock' = clock
    PROVE  ScheduleInv'
<1>1. task'.step \notin FlushStep..SessionStep /\ task'.step \notin Steps
  BY StepTypes DEF FlushStep, SessionStep
<1> QED
  BY <1>1 DEF ScheduleInv, OnSchedule, LastInTime, ReadsClock, HourlyFollows

\* A new process has done nothing yet.
LEMMA NeverDoneSchedule ==
    ASSUME TypeOK, TiersLast, task' = Idle, last' = NeverDone, clock' = clock
    PROVE  ScheduleInv'
<1>1. task'.step = -1
  BY DEF Idle, IdleStep
<1>2. task'.step \notin FlushStep..SessionStep /\ task'.step \notin Steps
  BY <1>1, StepTypes DEF FlushStep, SessionStep
<1>3. \A u \in Steps : last'[u] = -Every[u] /\ Every[u] \in Nat
  BY StepTypes DEF NeverDone
<1>4. clock \in Nat
  BY SinkAssumption DEF TypeOK, SinkAssumption
<1>5. \A u \in Steps : last'[u] <= clock + 0
  BY <1>3, <1>4
<1>6. LastInTime'
  BY <1>5, OffsetTypes DEF LastInTime, ReadsClock
<1>7. HourlyFollows'
  <2>1. last'[2] = -Width[2] /\ last'[3] = -Width[3]
    BY <1>3, StepTypes
  <2>2. Width[2] \in Nat /\ Width[3] \in Nat
    BY TierTypes DEF Tiers
  <2> QED BY <2>1, <2>2 DEF HourlyFollows
<1> QED BY <1>2, <1>6, <1>7 DEF ScheduleInv, OnSchedule

\* Every step keeps the schedule in order.
LEMMA ScheduleNext ==
    ASSUME TypeOK, TiersLast, TaskInTime, ScheduleInv, [Next]_vars
    PROVE  ScheduleInv'
<1>1. clock \in Int /\ task.now \in Int /\ last \in [Steps -> Int]
  BY DEF TypeOK
<1>2. CASE UNCHANGED <<clock, task, last>>
  BY <1>2 DEF ScheduleInv, LastInTime, ReadsClock, OnSchedule, HourlyFollows
<1>3. CASE Tick
  <2>1. clock' \in Int /\ clock <= clock' /\ UNCHANGED <<task, last>>
    BY <1>1, <1>3 DEF Tick
  <2>2. \A u \in Steps : last[u] \in Int /\ ReadsClock(last[u])
    BY <1>1 DEF ScheduleInv, LastInTime
  <2>3. \A u \in Steps : \E a \in Offsets : last[u] <= clock' + a
    BY <2>1, <2>2, ReadingsStay
  <2>4. LastInTime'
    BY <2>1, <2>3 DEF LastInTime, ReadsClock
  <2> QED BY <2>1, <2>4 DEF ScheduleInv, OnSchedule, HourlyFollows
<1>4. CASE UNCHANGED vars \/ (\E n \in Agents : Submit(n)) \/ Stop \/ Cancel \/ Start
  BY <1>2, <1>4 DEF vars, Submit, Stop, Cancel, Start
<1>5. CASE Take
  <2>1. task'.step = 0 /\ UNCHANGED <<clock, last>>
    BY <1>5 DEF Take, NodeStep
  <2> QED BY <2>1, RestSchedule
<1>6. CASE IdleMaintenance
  BY <1>1, <1>6, MaintainSchedule DEF IdleMaintenance
<1>7. CASE WriteNode
  <2> DEFINE now == IF clock > task.now THEN clock ELSE task.now
  <2>1. now \in Int /\ UNCHANGED <<clock, last>>
    BY <1>1, <1>7 DEF WriteNode
  <2>2. CASE task' = Maintain(now)
    BY <2>1, <2>2, MaintainSchedule
  <2>3. CASE task' = Idle
    BY <2>1, <2>3, RestSchedule DEF Idle, IdleStep
  <2> QED BY <1>7, <2>2, <2>3 DEF WriteNode
<1>8. CASE Maintenance
  <2>1. clock' = clock
    BY <1>8 DEF Maintenance
  <2>2. CASE StepFails
    BY <2>1, <2>2, RestSchedule DEF StepFails, Idle, IdleStep
  <2>3. CASE StepDone /\ task.step \in Steps
    BY <2>1, <2>3, StepDoneSchedule
  <2>4. CASE task' = Idle /\ UNCHANGED last
    BY <2>1, <2>4, RestSchedule DEF Idle, IdleStep
  <2>5. StepFails \/ (StepDone /\ task.step \in Steps) \/ (task' = Idle /\ UNCHANGED last)
    <3>1. 1 \in Steps /\ 2 \in Steps /\ 3 \in Steps /\ 4 \in Steps
      BY StepTypes
    <3> QED
      BY <1>8, <3>1
      DEF Maintenance, Flush, RollUpTo, PruneRows, CloseSessions, FlushStep, PruneStep
  <2> QED BY <2>2, <2>3, <2>4, <2>5
<1>9. CASE Halt \/ Crash
  <2>1. task' = Idle /\ last' = NeverDone /\ clock' = clock
    BY <1>9 DEF Halt, Crash, Down
  <2> QED BY <2>1, NeverDoneSchedule
<1> QED BY <1>3, <1>4, <1>5, <1>6, <1>7, <1>8, <1>9 DEF Next

-----------------------------------------------------------------------------
(* Rows that wait for the next tier *)

\* Of a table's rows `r` and the dates `d` of the steps: what a tier accounts
\* for is in the next tier, or its window there was still open at the last
\* rollup.
Follows(r, d) ==
    \A t \in {1, 2} : \A s \in r[t] :
        s \in r[t + 1] \/ ~Closed(t + 1, s, d[t + 1])

\* What a 2 m row keeps of 20 s rows that are gone is in the 1 h tier, until it
\* expires there.
Kept(r) == \A s \in r[2] \ r[1] : s \in r[3] \/ Expired(3, s)

\* A sample is not older than the clock's start, but for its agent's skew.
Dated(S) == \A s \in S : s.at >= -Width[1]
AllRows(r) == r[1] \cup r[2] \cup r[3]

\* A sample in memory is of windows that were open when the last flush and the
\* last 2 m rollup were made.
OpenIsLate ==
    \A i \in Tables : \A s \in open[i] :
        ~Closed(1, s, last[1]) /\ ~Closed(2, s, last[2])

TableInv(i) ==
    /\ Follows(rows[i], last) /\ Kept(rows[i])
    /\ Dated(AllRows(rows[i])) /\ Dated(open[i])

WaitingInv == OpenIsLate /\ \A i \in Tables : TableInv(i)

\* What PrunedWhenRolledUp says of a step of a table, from r to r2.
GoesUp(r, r2) ==
    \A t \in {1, 2} : \A s \in r[t] \ r2[t] :
        s \in r2[t + 1] \/ Expired(t + 1, s)

\* A window is closed two widths after its start.
LEMMA ClosedWhen ==
    ASSUME NEW t \in Tiers, NEW s \in Sample, NEW now \in Int
    PROVE  /\ now <= s.at + Width[t] => ~Closed(t, s, now)
           /\ ~Closed(t, s, now) => now < s.at + Width[t] + Width[t]
<1>1. /\ StartOf(t, s) \in Int /\ s.at \in Int
      /\ StartOf(t, s) <= s.at /\ s.at < StartOf(t, s) + Width[t]
  BY WindowStart DEF Sample
<1>2. Width[t] \in Nat
  BY TierTypes
<1> QED BY <1>1, <1>2 DEF Closed

\* A window that was open at a later time was open before.
LEMMA OpenBefore ==
    ASSUME NEW t \in Tiers, NEW s \in Sample, NEW now \in Int, NEW later \in Int,
           now <= later, ~Closed(t, s, later)
    PROVE  ~Closed(t, s, now)
<1>1. StartOf(t, s) \in Int /\ Width[t] \in Nat
  BY WindowStart, TierTypes
<1> QED BY <1>1 DEF Closed

\* A rollup replaces rows by others of the same windows, and what it reads is
\* in it.
LEMMA UpsertParts ==
    ASSUME NEW t \in Tiers, NEW now, NEW stored, NEW below,
           stored \subseteq Sample, below \subseteq Sample
    PROVE  LET new == {s \in below : Closed(t, s, now)}
               after == Upsert(t, stored, new)
           IN /\ new \subseteq after /\ after \subseteq stored \cup new
              /\ \A s \in stored : s \in below => s \in after
<1> DEFINE new == {s \in below : Closed(t, s, now)}
           after == Upsert(t, stored, new)
<1>1. new \subseteq after /\ after \subseteq stored \cup new
  BY DEF Upsert
<1>2. ASSUME NEW s \in stored, s \in below
      PROVE  s \in after
  <2>1. CASE \E u \in new : SameBucket(t, s, u)
    <3>1. PICK u \in new : SameBucket(t, s, u)
      BY <2>1
    <3>2. Closed(t, s, now)
      BY <3>1 DEF SameBucket, Closed
    <3> QED BY <1>1, <1>2, <3>2
  <2>2. CASE \A u \in new : ~SameBucket(t, s, u)
    BY <2>2 DEF Upsert
  <2> QED BY <2>1, <2>2
<1> QED BY <1>1, <1>2

\* A flush adds samples to tier 1 whose 2 m windows were open.
LEMMA FlushedTable ==
    ASSUME NEW r \in TableRows, NEW r2 \in TableRows, NEW d, Follows(r, d), Kept(r),
           r[1] \subseteq r2[1], r2[2] = r[2], r2[3] = r[3],
           \A s \in r2[1] \ r[1] : ~Closed(2, s, d[2])
    PROVE  Follows(r2, d) /\ Kept(r2) /\ GoesUp(r, r2)
<1>1. Follows(r2, d)
  <2>1. \A s \in r2[1] : s \in r2[2] \/ ~Closed(2, s, d[2])
    BY DEF Follows
  <2>2. \A s \in r2[2] : s \in r2[3] \/ ~Closed(3, s, d[3])
    BY DEF Follows
  <2> QED BY <2>1, <2>2 DEF Follows
<1>2. Kept(r2)
  BY DEF Kept
<1>3. GoesUp(r, r2)
  BY DEF GoesUp
<1> QED BY <1>1, <1>2, <1>3

\* The rollup to 2 m.
LEMMA RolledTo2 ==
    ASSUME TiersLast, NEW r \in TableRows, NEW r2, NEW now \in Int,
           r2 = RollUp(2, r, now), NEW d \in [Steps -> Int],
           Follows(r, d), Kept(r), d[3] <= d[2] + Width[2]
    PROVE  /\ r2 \in TableRows /\ AllRows(r2) \subseteq AllRows(r)
           /\ Follows(r2, d) /\ Follows(r2, [d EXCEPT ![2] = now])
           /\ Kept(r2) /\ GoesUp(r, r2)
<1> DEFINE new == {s \in r[1] : Closed(2, s, now)}
<1>1. /\ r[1] \subseteq Sample /\ r[2] \subseteq Sample /\ r[3] \subseteq Sample
  BY DEF TableRows, Tiers
<1>2. /\ r2 \in TableRows /\ r2[1] = r[1] /\ r2[3] = r[3]
      /\ r2[2] = Upsert(2, r[2], new)
  <2>1. r2 \in TableRows
    BY RollUpType DEF TableRows
  <2>2. 2 - 1 = 1 /\ 1 \in Tiers /\ 2 \in Tiers /\ 3 \in Tiers
    BY DEF Tiers
  <2>3. r2 = [r EXCEPT ![2] = Upsert(2, r[2], new)]
    BY <2>2 DEF RollUp
  <2> HIDE DEF new
  <2> QED BY <2>1, <2>2, <2>3 DEF TableRows
<1>3. /\ new \subseteq r2[2] /\ r2[2] \subseteq r[2] \cup new
      /\ \A s \in r[2] : s \in r[1] => s \in r2[2]
  BY <1>1, <1>2, UpsertParts DEF Tiers
<1>4. 2 \in Steps /\ 3 \in Steps /\ d[2] \in Int /\ d[3] \in Int
  BY StepTypes
<1>5. ASSUME NEW s \in Sample, ~Closed(2, s, d[2])
      PROVE  ~Closed(3, s, d[3])
  <2>1. d[2] < s.at + Width[2] + Width[2]
    BY <1>4, <1>5, ClosedWhen DEF Tiers
  <2>2. s.at \in Int /\ Width[2] \in Nat /\ Width[3] \in Nat
        /\ Width[2] + Width[2] + Width[2] <= Width[3]
    BY TierNumbers DEF Sample, Tiers
  <2>3. d[3] <= s.at + Width[3]
    BY <1>4, <2>1, <2>2
  <2> QED BY <1>4, <2>3, ClosedWhen DEF Tiers
<1>6. \A s \in r2[1] : s \in r2[2] \/ ~Closed(2, s, d[2])
  BY <1>2, <1>3 DEF Follows
<1>7. \A s \in r2[1] : s \in r2[2] \/ ~Closed(2, s, now)
  BY <1>2, <1>3
<1>8. \A s \in r2[2] : s \in r2[3] \/ ~Closed(3, s, d[3])
  <2> SUFFICES ASSUME NEW s \in r2[2] PROVE s \in r2[3] \/ ~Closed(3, s, d[3])
    OBVIOUS
  <2>1. CASE s \in r[2]
    BY <1>2, <2>1 DEF Follows
  <2>2. CASE s \in new /\ s \notin r[2]
    <3>1. s \in Sample /\ ~Closed(2, s, d[2])
      BY <1>1, <2>2 DEF Follows
    <3> QED BY <1>5, <3>1
  <2> QED BY <1>3, <2>1, <2>2
<1>9. /\ [d EXCEPT ![2] = now][2] = now
      /\ [d EXCEPT ![2] = now][3] = d[3]
  BY <1>4
<1> HIDE DEF new
<1>10. Follows(r2, d)
  BY <1>6, <1>8 DEF Follows
<1>11. Follows(r2, [d EXCEPT ![2] = now])
  <2> DEFINE e == [d EXCEPT ![2] = now]
  <2>1. e[2] = now /\ e[3] = d[3]
    BY <1>9
  <2> HIDE DEF e
  <2>2. Follows(r2, e)
    BY <1>7, <1>8, <2>1 DEF Follows
  <2> QED BY <2>2 DEF e
<1>12. Kept(r2)
  <2> SUFFICES ASSUME NEW s \in r2[2], s \notin r2[1]
               PROVE  s \in r2[3] \/ Expired(3, s)
    BY DEF Kept
  <2>1. s \in r[2] /\ s \notin r[1]
    BY <1>2, <1>3 DEF new
  <2> QED BY <1>2, <2>1 DEF Kept
<1>13. GoesUp(r, r2)
  <2>1. ASSUME NEW s \in r[2], s \notin r2[2]
        PROVE  s \in r2[3] \/ Expired(3, s)
    <3>1. s \notin r[1]
      BY <1>3, <2>1
    <3> QED BY <1>2, <2>1, <3>1 DEF Kept
  <2> QED BY <1>2, <2>1 DEF GoesUp
<1>14. AllRows(r2) \subseteq AllRows(r)
  BY <1>2, <1>3 DEF AllRows, new
<1> QED BY <1>2, <1>10, <1>11, <1>12, <1>13, <1>14

\* The rollup to 1 h.
LEMMA RolledTo3 ==
    ASSUME NEW r \in TableRows, NEW r2, NEW now \in Int,
           r2 = RollUp(3, r, now), NEW d \in [Steps -> Int],
           Follows(r, d), Kept(r)
    PROVE  /\ r2 \in TableRows /\ AllRows(r2) \subseteq AllRows(r)
           /\ Follows(r2, d) /\ Follows(r2, [d EXCEPT ![3] = now])
           /\ Kept(r2) /\ GoesUp(r, r2)
<1> DEFINE new == {s \in r[2] : Closed(3, s, now)}
<1>1. /\ r[1] \subseteq Sample /\ r[2] \subseteq Sample /\ r[3] \subseteq Sample
  BY DEF TableRows, Tiers
<1>2. /\ r2 \in TableRows /\ r2[1] = r[1] /\ r2[2] = r[2]
      /\ r2[3] = Upsert(3, r[3], new)
  <2>1. r2 \in TableRows
    BY RollUpType DEF TableRows
  <2>2. 3 - 1 = 2 /\ 1 \in Tiers /\ 2 \in Tiers /\ 3 \in Tiers
    BY DEF Tiers
  <2>3. r2 = [r EXCEPT ![3] = Upsert(3, r[3], new)]
    BY <2>2 DEF RollUp
  <2> HIDE DEF new
  <2> QED BY <2>1, <2>2, <2>3 DEF TableRows
<1>3. /\ new \subseteq r2[3] /\ r2[3] \subseteq r[3] \cup new
      /\ \A s \in r[3] : s \in r[2] => s \in r2[3]
  <2>1. 3 \in Tiers
    BY DEF Tiers
  <2> QED BY <1>1, <1>2, <2>1, UpsertParts
<1>4. 2 \in Steps /\ 3 \in Steps
  BY StepTypes
<1>5. \A s \in r2[2] : s \in r2[3] \/ ~Closed(3, s, d[3])
  BY <1>2, <1>3 DEF Follows
<1>6. \A s \in r2[2] : s \in r2[3] \/ ~Closed(3, s, now)
  BY <1>2, <1>3
<1>7. \A s \in r2[1] : s \in r2[2] \/ ~Closed(2, s, d[2])
  BY <1>2 DEF Follows
<1>8. Follows(r2, d)
  BY <1>5, <1>7 DEF Follows
<1>9. Follows(r2, [d EXCEPT ![3] = now])
  <2> DEFINE e == [d EXCEPT ![3] = now]
  <2>1. e[2] = d[2] /\ e[3] = now
    BY <1>4
  <2> HIDE DEF e
  <2>2. Follows(r2, e)
    BY <1>6, <1>7, <2>1 DEF Follows
  <2> QED BY <2>2 DEF e
<1>10. Kept(r2)
  BY <1>2, <1>3 DEF Kept
<1>11. GoesUp(r, r2)
  BY <1>2 DEF GoesUp
<1>12. AllRows(r2) \subseteq AllRows(r)
  BY <1>2, <1>3 DEF AllRows
<1> QED BY <1>2, <1>8, <1>9, <1>10, <1>11, <1>12

\* Pruning, when the rollups before it in the pass are done.
LEMMA PrunedTable ==
    ASSUME TypeOK, TiersLast, NEW r \in TableRows, NEW r2, NEW now \in Int,
           r2 = Prune(r, now), ReadsClock(now), NEW d \in [Steps -> Int],
           Follows(r, d), Kept(r),
           now - d[2] <= Width[2], now - d[3] <= Width[3]
    PROVE  /\ r2 \in TableRows /\ AllRows(r2) \subseteq AllRows(r)
           /\ Follows(r2, d) /\ Kept(r2) /\ GoesUp(r, r2)
           /\ \A s \in r[1] \ r2[1] : s \in r[2]
<1> DEFINE stays(t, s) == StartOf(t, s) >= now - Retention[t]
<1>1. /\ r2 \in TableRows /\ 1 \in Tiers /\ 2 \in Tiers /\ 3 \in Tiers
      /\ \A t \in Tiers : r2[t] = {s \in r[t] : stays(t, s)}
      /\ \A t \in Tiers : r[t] \subseteq Sample
  BY DEF Prune, Tiers, TableRows
<1>2. \A t \in Tiers, s \in Sample : StartOf(t, s) \in Int /\ s.at \in Int
         /\ StartOf(t, s) <= s.at /\ s.at < StartOf(t, s) + Width[t]
  BY WindowStart DEF Sample
<1>3. \A t \in Tiers : Width[t] \in Nat /\ Retention[t] \in Nat
  BY TierTypes
<1>4. /\ Width[2] + Width[2] + Width[2] + Width[1] <= Retention[1]
      /\ Width[3] + Width[3] + Width[3] + Width[1] <= Retention[1]
      /\ Width[3] + Width[3] + Width[3] + Width[2] <= Retention[2]
      /\ Retention[1] + Width[2] <= Retention[2]
      /\ Retention[2] + Width[3] <= Retention[3]
  BY TierNumbers
<1>5. d[2] \in Int /\ d[3] \in Int
  BY StepTypes
<1>6. ASSUME NEW t \in Tiers, NEW s \in Sample, ~stays(t, s)
      PROVE  Expired(t, s)
  <2>1. PICK a \in Offsets : now <= clock + a
    BY DEF ReadsClock
  <2>2. a \in Int /\ clock \in Int
    BY OffsetTypes DEF TypeOK
  <2>3. StartOf(t, s) < clock + a - Retention[t]
    BY <1>2, <1>3, <1>6, <2>1, <2>2
  <2> QED BY <2>3 DEF Expired
<1>7. ASSUME NEW s \in Sample, stays(1, s) PROVE stays(2, s)
  BY <1>1, <1>2, <1>3, <1>4, <1>7
<1>8. ASSUME NEW s \in Sample, stays(2, s) PROVE stays(3, s)
  BY <1>1, <1>2, <1>3, <1>4, <1>8
<1>9. ASSUME NEW t \in {2, 3}, NEW s \in Sample, ~Closed(t, s, d[t])
      PROVE  now < s.at + Width[t] + Width[t] + Width[t]
  <2>1. d[t] < s.at + Width[t] + Width[t]
    BY <1>1, <1>5, <1>9, ClosedWhen
  <2>2. now - d[t] <= Width[t] /\ d[t] \in Int
    BY <1>5
  <2> QED BY <1>1, <1>2, <1>3, <2>1, <2>2
<1>10. ASSUME NEW s \in Sample, ~stays(1, s)
       PROVE  Closed(2, s, d[2]) /\ Closed(3, s, d[3])
  <2>1. s.at < now - Retention[1] + Width[1]
    BY <1>1, <1>2, <1>3, <1>10
  <2>2. /\ ~(now < s.at + Width[2] + Width[2] + Width[2])
        /\ ~(now < s.at + Width[3] + Width[3] + Width[3])
    BY <1>1, <1>2, <1>3, <1>4, <2>1
  <2> QED BY <1>9, <2>2
<1>11. ASSUME NEW s \in Sample, ~stays(2, s)
       PROVE  Closed(3, s, d[3])
  <2>1. s.at < now - Retention[2] + Width[2]
    BY <1>1, <1>2, <1>3, <1>11
  <2>2. ~(now < s.at + Width[3] + Width[3] + Width[3])
    BY <1>1, <1>2, <1>3, <1>4, <2>1
  <2> QED BY <1>9, <2>2
<1>12. /\ \A s \in r[1] : s \in r[2] \/ ~Closed(2, s, d[2])
       /\ \A s \in r[2] : s \in r[3] \/ ~Closed(3, s, d[3])
       /\ \A s \in r[2] : s \in r[1] \/ s \in r[3] \/ Expired(3, s)
  BY DEF Follows, Kept
<1> HIDE DEF stays
<1>13. Follows(r2, d)
  <2>1. \A s \in r2[1] : s \in r2[2] \/ ~Closed(2, s, d[2])
    BY <1>1, <1>7, <1>12
  <2>2. \A s \in r2[2] : s \in r2[3] \/ ~Closed(3, s, d[3])
    BY <1>1, <1>8, <1>12
  <2> QED BY <2>1, <2>2 DEF Follows
<1>14. Kept(r2)
  <2> SUFFICES ASSUME NEW s \in r2[2], s \notin r2[1]
               PROVE  s \in r2[3] \/ Expired(3, s)
    BY DEF Kept
  <2>1. s \in r[2] /\ stays(2, s) /\ s \in Sample /\ stays(3, s)
    BY <1>1, <1>8
  <2>2. CASE s \in r[1]
    <3>1. ~stays(1, s)
      BY <1>1, <2>2
    <3>2. s \in r[3]
      BY <1>10, <1>12, <2>1, <3>1
    <3> QED BY <1>1, <2>1, <3>2
  <2>3. CASE s \notin r[1]
    BY <1>1, <1>12, <2>1, <2>3
  <2> QED BY <2>2, <2>3
<1>15. GoesUp(r, r2)
  <2>1. ASSUME NEW s \in r[1], s \notin r2[1]
        PROVE  s \in r2[2] \/ Expired(2, s)
    <3>1. s \in Sample /\ ~stays(1, s)
      BY <1>1, <2>1
    <3>2. s \in r[2]
      BY <1>10, <1>12, <2>1, <3>1
    <3> QED BY <1>1, <1>6, <3>1, <3>2
  <2>2. ASSUME NEW s \in r[2], s \notin r2[2]
        PROVE  s \in r2[3] \/ Expired(3, s)
    <3>1. s \in Sample /\ ~stays(2, s)
      BY <1>1, <2>2
    <3>2. s \in r[3]
      BY <1>11, <1>12, <2>2, <3>1
    <3> QED BY <1>1, <1>6, <3>1, <3>2
  <2> QED BY <2>1, <2>2 DEF GoesUp
<1>16. AllRows(r2) \subseteq AllRows(r)
  BY <1>1 DEF AllRows
<1>17. \A s \in r[1] \ r2[1] : s \in r[2]
  BY <1>1, <1>10, <1>12
<1> QED BY <1>1, <1>13, <1>14, <1>15, <1>16, <1>17

\* Nothing has been closed yet by the dates that a new process begins with.
LEMMA NothingYetClosed ==
    ASSUME TiersLast, NEW t \in {2, 3}, NEW s \in Sample, s.at >= -Width[1]
    PROVE  ~Closed(t, s, NeverDone[t])
<1>1. NeverDone[t] = -Width[t] /\ t \in Tiers
  BY StepTypes DEF NeverDone, Tiers
<1>2. Width[t] \in Nat /\ Width[1] \in Nat /\ Width[1] <= Width[t] /\ s.at \in Int
  BY TierNumbers DEF Tiers, Sample
<1>3. NeverDone[t] \in Int /\ NeverDone[t] <= s.at + Width[t]
  BY <1>1, <1>2
<1> QED BY <1>1, <1>3, ClosedWhen

LEMMA NewProcessFollows ==
    ASSUME TiersLast, NEW r \in TableRows, Dated(AllRows(r))
    PROVE  Follows(r, NeverDone)
<1>1. r[1] \subseteq Sample /\ r[2] \subseteq Sample
  BY DEF TableRows, Tiers
<1>2. /\ \A s \in r[1] : ~Closed(2, s, NeverDone[2])
      /\ \A s \in r[2] : ~Closed(3, s, NeverDone[3])
  BY <1>1, NothingYetClosed DEF Dated, AllRows
<1> QED BY <1>2 DEF Follows

\* Steps that leave the rows alone.
LEMMA NothingGoes ==
    ASSUME NEW r PROVE GoesUp(r, r)
  BY DEF GoesUp

\* What a step may never do: a row leaves its tier before the next one has it.
PrunedStep == \A i \in Tables : GoesUp(rows[i], rows'[i])

\* Only the dates of the rollups matter to what waits for them.
LEMMA FollowsDates ==
    ASSUME NEW r, NEW d, NEW e, Follows(r, d), e[2] = d[2], e[3] = d[3]
    PROVE  Follows(r, e)
  BY DEF Follows

\* At an unchanged clock, it is enough to look at each table and the memory.
LEMMA TablesKeep ==
    ASSUME WaitingInv, clock' = clock,
           \A i \in Tables : open'[i] \subseteq open[i], OpenIsLate',
           \A i \in Tables :
              /\ Follows(rows'[i], last') /\ Kept(rows'[i])
              /\ AllRows(rows'[i]) \subseteq AllRows(rows[i]) \cup open[i]
              /\ GoesUp(rows[i], rows'[i])
    PROVE  WaitingInv' /\ PrunedStep
<1>1. ASSUME NEW i \in Tables PROVE TableInv(i)'
  <2>1. Follows(rows[i], last)'
    BY DEF Follows, Closed, StartOf
  <2>2. Kept(rows[i])'
    BY DEF Kept, Expired, StartOf
  <2>3. Dated(AllRows(rows[i])) /\ Dated(open[i])
    BY DEF WaitingInv, TableInv
  <2>4. Dated(AllRows(rows'[i])) /\ Dated(open'[i])
    BY <2>3 DEF Dated
  <2>5. Dated(AllRows(rows[i]))' /\ Dated(open[i])'
    BY <2>4 DEF Dated, AllRows
  <2> QED BY <2>1, <2>2, <2>5 DEF TableInv
<1> QED BY <1>1 DEF WaitingInv, PrunedStep

\* Steps that leave rows, memory and dates alone.
LEMMA QuietKeeps ==
    ASSUME WaitingInv, UNCHANGED <<clock, rows, open, last>>
    PROVE  WaitingInv' /\ PrunedStep
<1>1. OpenIsLate'
  BY DEF WaitingInv, OpenIsLate, Closed, StartOf
<1>2. \A i \in Tables : GoesUp(rows[i], rows'[i])
  BY NothingGoes
<1>3. \A i \in Tables : Follows(rows'[i], last') /\ Kept(rows'[i])
  BY DEF WaitingInv, TableInv
<1> QED BY <1>1, <1>2, <1>3, TablesKeep

\* Time passes.
LEMMA TickKeeps ==
    ASSUME TypeOK, WaitingInv, Tick
    PROVE  WaitingInv' /\ PrunedStep
<1>1. clock \in Int /\ clock' = clock + 1 /\ UNCHANGED <<rows, open, last>>
  BY TableTypes DEF Tick
<1>2. ASSUME NEW s \in Sample, Expired(3, s) PROVE Expired(3, s)'
  <2>1. PICK a \in Offsets : StartOf(3, s) < clock + a - Retention[3]
    BY <1>2 DEF Expired
  <2>2. StartOf(3, s) \in Int /\ Retention[3] \in Nat /\ a \in Int
    BY WindowStart, TierTypes, OffsetTypes DEF Tiers
  <2>3. StartOf(3, s) < clock + 1 + a - Retention[3]
    BY <1>1, <2>1, <2>2
  <2> QED BY <1>1, <2>3 DEF Expired, StartOf
<1>3. ASSUME NEW i \in Tables PROVE TableInv(i)'
  <2>1. rows[i][2] \subseteq Sample
    BY DEF TypeOK, Tiers
  <2>2. Kept(rows[i])
    BY DEF WaitingInv, TableInv
  <2>3. Kept(rows[i])'
    BY <1>1, <1>2, <2>1, <2>2 DEF Kept
  <2> QED
    BY <1>1, <2>3 DEF WaitingInv, TableInv, Follows, Closed, StartOf, Dated, AllRows
<1>4. OpenIsLate'
  BY <1>1 DEF WaitingInv, OpenIsLate, Closed, StartOf
<1>5. PrunedStep
  BY <1>1, NothingGoes DEF PrunedStep
<1> QED BY <1>3, <1>4, <1>5 DEF WaitingInv

\* A sample enters the memory: its windows have been open at all dates.
LEMMA TakeKeeps ==
    ASSUME TypeOK, Timely, TiersLast, QueueInTime, LastInTime, WaitingInv, Take
    PROVE  WaitingInv' /\ PrunedStep
<1> DEFINE h == Head(queue)
<1>1. /\ UNCHANGED <<clock, rows, last>>
      /\ \A i \in Tables : open'[i] = open[i] \cup {h}
  BY DEF Take, TypeOK
<1>2. h \in Sample /\ h = queue[1] /\ 1 \in 1..Len(queue)
  BY TakeType DEF Take
<1> HIDE DEF h
<1>3. /\ clock \in Int /\ last[1] \in Int /\ last[2] \in Int
      /\ 1 \in Steps /\ 2 \in Steps /\ 1 \in Tiers /\ 2 \in Tiers
  BY TableTypes DEF Tiers
<1>4. ASSUME NEW a \in Offsets
      PROVE  ~Closed(1, h, clock + a) /\ ~Closed(2, h, clock + a)
  <2>1. ~Closed(1, h, clock + a)
    BY <1>2, QueuedIsOpen
  <2>2. clock + a \in Int /\ h.at \in Int
    BY <1>2, <1>3, OffsetTypes DEF Sample
  <2>3. clock + a < h.at + Width[1] + Width[1]
    BY <1>2, <1>3, <2>1, <2>2, ClosedWhen
  <2>4. /\ Width[1] \in Nat /\ Width[2] \in Nat /\ FlushEvery \in Nat
        /\ Width[1] + Width[1] + FlushEvery <= Width[2]
    BY <1>3, TierNumbers
  <2>5. clock + a <= h.at + Width[2]
    BY <2>2, <2>3, <2>4
  <2> QED BY <1>2, <1>3, <2>1, <2>2, <2>5, ClosedWhen
<1>5. ~Closed(1, h, last[1])
  <2>1. PICK a \in Offsets : last[1] <= clock + a
    BY <1>3 DEF LastInTime, ReadsClock
  <2>2. clock + a \in Int
    BY <1>3, OffsetTypes
  <2> QED BY <1>2, <1>3, <1>4, <2>1, <2>2, OpenBefore
<1>6. ~Closed(2, h, last[2])
  <2>1. PICK a \in Offsets : last[2] <= clock + a
    BY <1>3 DEF LastInTime, ReadsClock
  <2>2. clock + a \in Int
    BY <1>3, OffsetTypes
  <2> QED BY <1>2, <1>3, <1>4, <2>1, <2>2, OpenBefore
<1>7. h.at >= -Width[1]
  <2>1. h.node \in Agents /\ h.at \in Int /\ Skew[h.node] \in Int
    BY <1>2, SinkAssumption DEF SinkAssumption, Sample
  <2>2. clock - MaxBehind <= h.at - Skew[h.node]
    BY <1>2 DEF QueueInTime
  <2>3. 0 - Skew[h.node] + MaxBehind <= Width[1]
    BY <2>1, OffsetTypes DEF Timely
  <2>4. clock \in Nat /\ MaxBehind \in Nat /\ Width[1] \in Nat
    BY TierTypes, SinkAssumption DEF SinkAssumption, TypeOK, Tiers
  <2> DEFINE skew == Skew[h.node]
             at == h.at
  <2>5. /\ at \in Int /\ skew \in Int /\ clock - MaxBehind <= at - skew
        /\ 0 - skew + MaxBehind <= Width[1]
    BY <2>1, <2>2, <2>3
  <2> HIDE DEF skew, at
  <2>6. at >= -Width[1]
    BY <2>4, <2>5
  <2> QED BY <2>6 DEF at
<1>8. OpenIsLate'
  <2>1. \A i \in Tables : \A s \in open'[i] :
           ~Closed(1, s, last[1]) /\ ~Closed(2, s, last[2])
    BY <1>1, <1>5, <1>6 DEF WaitingInv, OpenIsLate
  <2> QED BY <1>1, <2>1 DEF OpenIsLate, Closed, StartOf
<1>9. ASSUME NEW i \in Tables PROVE TableInv(i)'
  <2>1. TableInv(i)
    BY DEF WaitingInv
  <2>2. Dated(open'[i])
    BY <1>1, <1>7, <2>1 DEF TableInv, Dated
  <2> QED
    BY <1>1, <2>1, <2>2 DEF TableInv, Dated, Follows, Kept, Expired, Closed, StartOf, AllRows
<1>10. PrunedStep
  BY <1>1, NothingGoes DEF PrunedStep
<1> QED BY <1>8, <1>9, <1>10 DEF WaitingInv

\* Any part of a flush.
LEMMA FlushedTables ==
    ASSUME TypeOK, FlushedIsWhole, WaitingInv, NEW k \in 0..TableCount,
           NEW now \in Int, FlushRows(k, now), NEW i \in Tables
    PROVE  /\ rows'[i] \in TableRows
           /\ Follows(rows'[i], last) /\ Kept(rows'[i])
           /\ AllRows(rows'[i]) \subseteq AllRows(rows[i]) \cup open[i]
           /\ GoesUp(rows[i], rows'[i])
<1>1. rows[i] \in TableRows /\ rows'[i] \in TableRows
  BY TableTypes, FlushRowsType DEF TypeOK, TableRows
<1>2. rows'[i][1] \in {rows[i][1], rows[i][1] \cup Ready(i, now)}
  BY FlushParts
<1>3. rows'[i][2] = rows[i][2] /\ rows'[i][3] = rows[i][3]
  <2> DEFINE flushed == Upsert(1, rows[i][1], Ready(i, now))
  <2>1. rows'[i] = rows[i] \/ rows'[i] = [rows[i] EXCEPT ![1] = flushed]
    BY DEF FlushRows
  <2> HIDE DEF flushed
  <2> QED BY <1>1, <2>1 DEF TableRows, Tiers
<1>4. Ready(i, now) \subseteq open[i]
  BY DEF Ready
<1>5. \A s \in rows'[i][1] \ rows[i][1] : ~Closed(2, s, last[2])
  BY <1>2, <1>4 DEF WaitingInv, OpenIsLate
<1>6. Follows(rows[i], last) /\ Kept(rows[i])
  BY DEF WaitingInv, TableInv
<1>7. AllRows(rows'[i]) \subseteq AllRows(rows[i]) \cup open[i]
  BY <1>2, <1>3, <1>4 DEF AllRows
<1>8. rows[i][1] \subseteq rows'[i][1]
  BY <1>2
<1> QED BY <1>1, <1>3, <1>5, <1>6, <1>7, <1>8, FlushedTable

\* A step of maintenance.
LEMMA MaintenanceKeeps ==
    ASSUME TypeOK, TiersLast, TaskInTime, ScheduleInv, FlushedIsWhole, WaitingInv,
           Maintenance
    PROVE  WaitingInv' /\ PrunedStep
<1> DEFINE now == task.now
<1>1. /\ now \in Int /\ ReadsClock(now) /\ clock' = clock
      /\ last \in [Steps -> Int]
      /\ 1 \in Steps /\ 2 \in Steps /\ 3 \in Steps /\ 4 \in Steps
      /\ last[1] \in Int /\ last[2] \in Int /\ last[3] \in Int
  BY TableTypes DEF TaskInTime, Maintenance
<1>2. /\ Every[1] = FlushEvery /\ Every[2] = Width[2] /\ Every[3] = Width[3]
      /\ Steps = {1, 2, 3, 4}
  BY StepTypes
<1>3. \A i \in Tables :
         /\ rows[i] \in TableRows /\ open[i] \subseteq Sample
         /\ Follows(rows[i], last) /\ Kept(rows[i])
  BY TableTypes DEF WaitingInv, TableInv
<1>4. \A i \in Tables : \A s \in open[i] :
         ~Closed(1, s, last[1]) /\ ~Closed(2, s, last[2])
  BY DEF WaitingInv, OpenIsLate
<1>5. ASSUME NEW k \in Steps, task.step = k, StepDone
      PROVE  /\ last' \in [Steps -> Int] /\ last'[k] = now
             /\ \A u \in Steps : u # k => last'[u] = last[u]
             /\ last' = [last EXCEPT ![k] = now]
             /\ \A u \in Steps : u < k => now - last[u] <= Every[u]
  <2>1. task.step \in FlushStep..SessionStep
    BY <1>2, <1>5 DEF FlushStep, SessionStep
  <2> QED
    BY <1>5, <2>1, StepDoneDates DEF StepDone, ScheduleInv, OnSchedule
<1>6. ASSUME UNCHANGED <<open, last>> PROVE OpenIsLate'
  BY <1>6 DEF WaitingInv, OpenIsLate, Closed, StartOf
<1>7. ASSUME \A i \in Tables : open'[i] \subseteq open[i],
             \A i \in Tables : \A s \in open'[i] :
                ~Closed(1, s, last'[1]) /\ ~Closed(2, s, last'[2])
      PROVE  OpenIsLate'
  BY <1>7 DEF OpenIsLate, Closed, StartOf
<1>8. StepFails => UNCHANGED last
  BY DEF StepFails
<1> HIDE DEF now
<1>9. CASE Flush
  <2>1. CASE FlushRows(TableCount, now) /\ ForgetReady(now) /\ StepDone
    <3>1. TableCount \in 0..TableCount
      BY SinkAssumption DEF SinkAssumption
    <3>2. /\ last'[1] = now /\ last'[2] = last[2] /\ last'[3] = last[3]
      BY <1>1, <1>5, <1>9, <2>1 DEF Flush, FlushStep
    <3>3. \A i \in Tables : open'[i] = open[i] \ Ready(i, now)
      BY <2>1 DEF ForgetReady
    <3>4. \A i \in Tables : \A s \in open'[i] :
             ~Closed(1, s, last'[1]) /\ ~Closed(2, s, last'[2])
      BY <1>4, <3>2, <3>3 DEF Ready
    <3>5. \A i \in Tables : open'[i] \subseteq open[i]
      BY <3>3
    <3>6. OpenIsLate'
      BY <1>7, <3>4, <3>5
    <3>7. \A i \in Tables :
             /\ Follows(rows'[i], last') /\ Kept(rows'[i])
             /\ AllRows(rows'[i]) \subseteq AllRows(rows[i]) \cup open[i]
             /\ GoesUp(rows[i], rows'[i])
      BY <1>1, <2>1, <3>1, <3>2, FlushedTables, FollowsDates
    <3> QED BY <1>1, <3>5, <3>6, <3>7, TablesKeep
  <2>2. CASE /\ \E k \in 0..TableCount - 1 : FlushRows(k, now)
             /\ UNCHANGED open /\ StepFails
    <3>1. PICK k \in 0..TableCount - 1 : FlushRows(k, now)
      BY <2>2
    <3>2. k \in 0..TableCount
      BY SinkAssumption DEF SinkAssumption
    <3>3. UNCHANGED <<open, last>>
      BY <1>8, <2>2
    <3>4. \A i \in Tables :
             /\ Follows(rows'[i], last') /\ Kept(rows'[i])
             /\ AllRows(rows'[i]) \subseteq AllRows(rows[i]) \cup open[i]
             /\ GoesUp(rows[i], rows'[i])
      BY <1>1, <3>1, <3>2, <3>3, FlushedTables
    <3>5. OpenIsLate' /\ \A i \in Tables : open'[i] \subseteq open[i]
      BY <1>6, <3>3
    <3> QED BY <1>1, <3>4, <3>5, TablesKeep
  <2> QED BY <1>9, <2>1, <2>2 DEF Flush, now
<1>10. CASE RollUpTo(2)
  <2>1. task.step = 2 /\ UNCHANGED open
    BY <1>10 DEF RollUpTo
  <2>2. PICK k \in 0..TableCount :
          /\ rows' = [i \in Tables |-> IF i <= k THEN RollUp(2, rows[i], now) ELSE rows[i]]
          /\ IF k = TableCount THEN StepDone ELSE StepFails
    BY <1>10 DEF RollUpTo, now
  <2>3. last[3] <= last[2] + Width[2]
    BY DEF ScheduleInv, HourlyFollows
  <2>4. ASSUME NEW i \in Tables
        PROVE  LET r2 == RollUp(2, rows[i], now)
               IN /\ Follows(r2, last) /\ Follows(r2, [last EXCEPT ![2] = now])
                  /\ Kept(r2) /\ AllRows(r2) \subseteq AllRows(rows[i])
                  /\ GoesUp(rows[i], r2)
    <3>1. rows[i] \in TableRows /\ Follows(rows[i], last) /\ Kept(rows[i])
      BY <1>3
    <3> DEFINE r2 == RollUp(2, rows[i], now)
    <3>2. r2 = RollUp(2, rows[i], now)
      OBVIOUS
    <3> HIDE DEF r2
    <3>3. /\ Follows(r2, last) /\ Follows(r2, [last EXCEPT ![2] = now])
          /\ Kept(r2) /\ AllRows(r2) \subseteq AllRows(rows[i])
          /\ GoesUp(rows[i], r2)
      BY <1>1, <2>3, <3>1, <3>2, RolledTo2
    <3> QED BY <3>3 DEF r2
  <2>5. CASE k = TableCount
    <3>1. StepDone /\ \A i \in Tables : rows'[i] = RollUp(2, rows[i], now)
      BY <2>2, <2>5 DEF Tables
    <3>2. /\ last' = [last EXCEPT ![2] = now]
          /\ last'[1] = last[1] /\ last'[2] = now /\ now - last[1] <= FlushEvery
      BY <1>1, <1>2, <1>5, <2>1, <3>1
    <3>3. ASSUME NEW i \in Tables, NEW s \in open[i]
          PROVE  ~Closed(2, s, now)
      <4>1. s \in Sample /\ ~Closed(1, s, last[1]) /\ s.at \in Int
        BY <1>3, <1>4 DEF Sample
      <4>2. last[1] < s.at + Width[1] + Width[1]
        BY <1>1, <4>1, ClosedWhen DEF Tiers
      <4>3. /\ Width[1] \in Nat /\ Width[2] \in Nat /\ FlushEvery \in Nat
            /\ Width[1] + Width[1] + FlushEvery <= Width[2]
        BY TierNumbers DEF Tiers
      <4>4. now <= s.at + Width[2]
        BY <1>1, <3>2, <4>1, <4>2, <4>3
      <4> QED BY <1>1, <4>1, <4>4, ClosedWhen DEF Tiers
    <3>4. OpenIsLate'
      BY <1>4, <1>7, <2>1, <3>2, <3>3
    <3>5. \A i \in Tables :
             /\ Follows(rows'[i], last') /\ Kept(rows'[i])
             /\ AllRows(rows'[i]) \subseteq AllRows(rows[i]) \cup open[i]
             /\ GoesUp(rows[i], rows'[i])
      BY <2>4, <3>1, <3>2
    <3> QED BY <1>1, <2>1, <3>4, <3>5, TablesKeep
  <2>6. CASE k # TableCount
    <3>1. UNCHANGED <<open, last>>
      BY <1>8, <2>1, <2>2, <2>6
    <3>2. \A i \in Tables : rows'[i] \in {rows[i], RollUp(2, rows[i], now)}
      BY <2>2
    <3>3. \A i \in Tables :
             /\ Follows(rows'[i], last') /\ Kept(rows'[i])
             /\ AllRows(rows'[i]) \subseteq AllRows(rows[i]) \cup open[i]
             /\ GoesUp(rows[i], rows'[i])
      BY <1>3, <2>4, <3>1, <3>2, NothingGoes
    <3> QED BY <1>1, <1>6, <3>1, <3>3, TablesKeep
  <2> QED BY <2>5, <2>6
<1>11. CASE RollUpTo(3)
  <2>1. task.step = 3 /\ UNCHANGED open
    BY <1>11 DEF RollUpTo
  <2>2. PICK k \in 0..TableCount :
          /\ rows' = [i \in Tables |-> IF i <= k THEN RollUp(3, rows[i], now) ELSE rows[i]]
          /\ IF k = TableCount THEN StepDone ELSE StepFails
    BY <1>11 DEF RollUpTo, now
  <2>3. ASSUME NEW i \in Tables
        PROVE  LET r2 == RollUp(3, rows[i], now)
               IN /\ Follows(r2, last) /\ Follows(r2, [last EXCEPT ![3] = now])
                  /\ Kept(r2) /\ AllRows(r2) \subseteq AllRows(rows[i])
                  /\ GoesUp(rows[i], r2)
    <3>1. rows[i] \in TableRows /\ Follows(rows[i], last) /\ Kept(rows[i])
      BY <1>3
    <3> DEFINE r2 == RollUp(3, rows[i], now)
    <3>2. r2 = RollUp(3, rows[i], now)
      OBVIOUS
    <3> HIDE DEF r2
    <3>3. /\ Follows(r2, last) /\ Follows(r2, [last EXCEPT ![3] = now])
          /\ Kept(r2) /\ AllRows(r2) \subseteq AllRows(rows[i])
          /\ GoesUp(rows[i], r2)
      BY <1>1, <3>1, <3>2, RolledTo3
    <3> QED BY <3>3 DEF r2
  <2>4. CASE k = TableCount
    <3>1. StepDone /\ \A i \in Tables : rows'[i] = RollUp(3, rows[i], now)
      BY <2>2, <2>4 DEF Tables
    <3>2. /\ last' = [last EXCEPT ![3] = now]
          /\ last'[1] = last[1] /\ last'[2] = last[2]
      BY <1>1, <1>5, <2>1, <3>1
    <3>3. OpenIsLate'
      BY <1>4, <1>7, <2>1, <3>2
    <3>4. \A i \in Tables :
             /\ Follows(rows'[i], last') /\ Kept(rows'[i])
             /\ AllRows(rows'[i]) \subseteq AllRows(rows[i]) \cup open[i]
             /\ GoesUp(rows[i], rows'[i])
      BY <2>3, <3>1, <3>2
    <3> QED BY <1>1, <2>1, <3>3, <3>4, TablesKeep
  <2>5. CASE k # TableCount
    <3>1. UNCHANGED <<open, last>>
      BY <1>8, <2>1, <2>2, <2>5
    <3>2. \A i \in Tables : rows'[i] \in {rows[i], RollUp(3, rows[i], now)}
      BY <2>2
    <3>3. \A i \in Tables :
             /\ Follows(rows'[i], last') /\ Kept(rows'[i])
             /\ AllRows(rows'[i]) \subseteq AllRows(rows[i]) \cup open[i]
             /\ GoesUp(rows[i], rows'[i])
      BY <1>3, <2>3, <3>1, <3>2, NothingGoes
    <3> QED BY <1>1, <1>6, <3>1, <3>3, TablesKeep
  <2> QED BY <2>4, <2>5
<1>12. CASE PruneRows
  <2>1. task.step = 4 /\ UNCHANGED open /\ (StepDone \/ StepFails)
    BY <1>12 DEF PruneRows, PruneStep
  <2>2. CASE UNCHANGED rows /\ StepFails
    BY <1>1, <1>8, <2>1, <2>2, QuietKeeps
  <2>3. CASE rows' = [i \in Tables |-> Prune(rows[i], now)]
    <3>1. last'[1] = last[1] /\ last'[2] = last[2] /\ last'[3] = last[3]
      BY <1>1, <1>5, <1>8, <2>1
    <3>2. now - last[2] <= Width[2] /\ now - last[3] <= Width[3]
      <4>1. task.step \in FlushStep..SessionStep /\ 2 < 4 /\ 3 < 4
        BY <2>1 DEF FlushStep, SessionStep
      <4> QED BY <1>1, <1>2, <2>1, <4>1 DEF ScheduleInv, OnSchedule, now
    <3>3. ASSUME NEW i \in Tables
          PROVE  /\ Follows(rows'[i], last) /\ Kept(rows'[i])
                 /\ AllRows(rows'[i]) \subseteq AllRows(rows[i])
                 /\ GoesUp(rows[i], rows'[i])
      <4>1. rows'[i] = Prune(rows[i], now)
        BY <2>3
      <4> QED BY <1>1, <1>3, <3>2, <4>1, PrunedTable
    <3>4. \A i \in Tables :
             /\ Follows(rows'[i], last') /\ Kept(rows'[i])
             /\ AllRows(rows'[i]) \subseteq AllRows(rows[i]) \cup open[i]
             /\ GoesUp(rows[i], rows'[i])
      BY <3>1, <3>3, FollowsDates
    <3>5. OpenIsLate'
      BY <1>4, <1>7, <2>1, <3>1
    <3> QED BY <1>1, <2>1, <3>4, <3>5, TablesKeep
  <2> QED BY <1>12, <2>2, <2>3 DEF PruneRows, now
<1>13. CASE CloseSessions
  <2>1. UNCHANGED <<clock, rows, open, last>>
    BY <1>1, <1>8, <1>13 DEF CloseSessions
  <2> QED BY <2>1, QuietKeeps
<1> QED BY <1>9, <1>10, <1>11, <1>12, <1>13 DEF Maintenance

\* A process ends, with or without a last flush.
LEMMA EndKeeps ==
    ASSUME TypeOK, TiersLast, FlushedIsWhole, WaitingInv, Halt \/ Crash
    PROVE  WaitingInv' /\ PrunedStep
<1>1. /\ clock' = clock /\ last' = NeverDone
      /\ \A i \in Tables : open'[i] = {}
  BY DEF Halt, Crash, Down
<1>2. OpenIsLate'
  BY <1>1 DEF OpenIsLate
<1>3. ASSUME NEW i \in Tables
      PROVE  /\ rows'[i] \in TableRows /\ Kept(rows'[i])
             /\ AllRows(rows'[i]) \subseteq AllRows(rows[i]) \cup open[i]
             /\ GoesUp(rows[i], rows'[i])
  <2>1. CASE UNCHANGED rows
    BY <2>1, NothingGoes, TableTypes DEF WaitingInv, TableInv
  <2>2. CASE \E k \in 0..TableCount : FlushRows(k, clock)
    <3>1. PICK k \in 0..TableCount : FlushRows(k, clock)
      BY <2>2
    <3>2. clock \in Int
      BY TableTypes
    <3> QED BY <3>1, <3>2, FlushedTables
  <2>3. UNCHANGED rows \/ \E k \in 0..TableCount : FlushRows(k, clock)
    <3>1. TableCount \in 0..TableCount /\ 0..TableCount - 1 \subseteq 0..TableCount
      BY SinkAssumption DEF SinkAssumption
    <3>2. CASE Crash
      BY <3>2 DEF Crash
    <3>3. CASE Halt
      BY <3>1, <3>3 DEF Halt
    <3> QED BY <3>2, <3>3
  <2> QED BY <2>1, <2>2, <2>3
<1>4. ASSUME NEW i \in Tables
      PROVE  Follows(rows'[i], NeverDone)
  <2>1. Dated(AllRows(rows[i])) /\ Dated(open[i])
    BY DEF WaitingInv, TableInv
  <2>2. Dated(AllRows(rows'[i]))
    BY <1>3, <2>1 DEF Dated
  <2> QED BY <1>3, <2>2, NewProcessFollows
<1> QED BY <1>1, <1>2, <1>3, <1>4, TablesKeep

\* Every step keeps what waits for the next tier, and prunes nothing else.
LEMMA WaitingNext ==
    ASSUME TypeOK, Timely, TiersLast, SinkInv, ScheduleInv, WaitingInv, [Next]_vars
    PROVE  WaitingInv' /\ PrunedStep
<1>1. TaskInTime /\ QueueInTime /\ FlushedIsWhole /\ LastInTime
  BY DEF SinkInv, ScheduleInv
<1>2. CASE UNCHANGED <<clock, rows, open, last>>
  BY <1>2, QuietKeeps
<1>3. CASE UNCHANGED vars \/ (\E n \in Agents : Submit(n)) \/ IdleMaintenance
           \/ WriteNode \/ Stop \/ Cancel \/ Start
  BY <1>2, <1>3 DEF vars, Submit, IdleMaintenance, WriteNode, Stop, Cancel, Start
<1> QED
  BY <1>1, <1>3, TickKeeps, TakeKeeps, MaintenanceKeeps, EndKeeps DEF Next

\* The invariant holds of an empty database and a schedule without dates.
LEMMA WaitingInit ==
    ASSUME TiersLast, Init
    PROVE  ScheduleInv /\ WaitingInv
<1>1. /\ task.step = -1 /\ last = NeverDone /\ clock = 0
      /\ \A i \in Tables : open[i] = {} /\ rows[i][1] = {} /\ rows[i][2] = {}
                           /\ rows[i][3] = {}
  BY DEF Init, Idle, IdleStep, Tiers
<1>2. task.step \notin FlushStep..SessionStep /\ task.step \notin Steps
  BY <1>1, StepTypes DEF FlushStep, SessionStep
<1>3. \A u \in Steps : last[u] = -Every[u] /\ Every[u] \in Nat
  BY <1>1, StepTypes DEF NeverDone
<1>4. LastInTime
  <2>1. \A u \in Steps : last[u] <= clock + 0
    BY <1>1, <1>3
  <2> QED BY <2>1, OffsetTypes DEF LastInTime, ReadsClock
<1>5. HourlyFollows
  <2>1. last[2] = -Width[2] /\ last[3] = -Width[3]
    BY <1>3, StepTypes
  <2>2. Width[2] \in Nat /\ Width[3] \in Nat
    BY TierTypes DEF Tiers
  <2> QED BY <2>1, <2>2 DEF HourlyFollows
<1>6. WaitingInv
  BY <1>1 DEF WaitingInv, OpenIsLate, TableInv, Follows, Kept, Dated, AllRows
<1> QED BY <1>2, <1>4, <1>5, <1>6 DEF ScheduleInv, OnSchedule

\* The schedule and what waits for it, through failed passes and restarts: the
\* rows that the next tier has not got are of windows that were open when it
\* was last made.
THEOREM WaitingInvariant ==
    ASSUME Timely, TiersLast
    PROVE  Spec => [](TypeOK /\ SinkInv /\ ScheduleInv /\ WaitingInv)
<1> DEFINE Inv == TypeOK /\ SinkInv /\ ScheduleInv /\ WaitingInv
<1>1. Init => Inv
  BY TypeInit, SinkInit, WaitingInit DEF SinkInv, RowsInv
<1>2. Inv /\ [Next]_vars => Inv'
  <2> SUFFICES ASSUME Inv, [Next]_vars PROVE Inv'
    OBVIOUS
  <2>1. TypeOK' /\ SinkInv'
    BY TypeNext, TaskNext, QueueNext, RowsNext DEF SinkInv, RowsInv
  <2>2. ScheduleInv'
    BY ScheduleNext DEF SinkInv
  <2> QED BY <2>1, <2>2, WaitingNext
<1> QED
  BY <1>1, <1>2, PTL DEF Spec

\* A row leaves its tier, by pruning or by a rollup of what is left of its
\* window, only when the next tier has its samples or let them expire.
THEOREM PrunedWhenRolledUpAlways ==
    ASSUME Timely, TiersLast
    PROVE  Spec => PrunedWhenRolledUp
<1>1. TypeOK /\ SinkInv /\ ScheduleInv /\ WaitingInv /\ [Next]_vars => PrunedStep
  BY WaitingNext
<1>2. PrunedStep =>
        \A i \in Tables, t \in {1, 2} : \A s \in rows[i][t] \ rows'[i][t] :
            s \in rows'[i][t + 1] \/ Expired(t + 1, s)
  BY DEF PrunedStep, GoesUp
<1> QED
  BY <1>1, <1>2, WaitingInvariant, PTL DEF Spec, PrunedWhenRolledUp

-----------------------------------------------------------------------------
(* What a reader finds *)

\* A bucket of the 2 m or 1 h tier stays once it has a row, until it expires:
\* a row may be replaced by part of itself, but it is replaced.  And a 20 s row
\* is pruned only when the 2 m tier has it, expired there or not.
BucketsStay(r, r2) ==
    \A t \in {2, 3} : \A u \in r[t] : HasBucketOf(t, r2[t], u) \/ Expired(t, u)
TableMoves(r, r2) == BucketsStay(r, r2) /\ \A s \in r[1] \ r2[1] : s \in r[2]

LEMMA BucketItself == \A t, s : SameBucket(t, s, s)
  BY DEF SameBucket

LEMMA NothingMoves ==
    ASSUME NEW r, NEW r2, r[1] \subseteq r2[1], r2[2] = r[2], r2[3] = r[3]
    PROVE  TableMoves(r, r2)
<1>1. \A t \in {2, 3} : \A u \in r[t] : HasBucketOf(t, r2[t], u)
  BY BucketItself DEF HasBucketOf
<1> QED BY <1>1 DEF TableMoves, BucketsStay

\* A rollup replaces a row by a row of the same bucket.
LEMMA RolledMoves ==
    ASSUME NEW t \in {2, 3}, NEW r \in TableRows, NEW now
    PROVE  TableMoves(r, RollUp(t, r, now))
<1> DEFINE new == {s \in r[t - 1] : Closed(t, s, now)}
           r2 == RollUp(t, r, now)
<1>1. r2 = [r EXCEPT ![t] = Upsert(t, r[t], new)]
  BY DEF RollUp
<1>2. /\ DOMAIN r = {1, 2, 3} /\ r2[1] = r[1]
      /\ r2[t] = Upsert(t, r[t], new)
      /\ \A u \in {2, 3} \ {t} : r2[u] = r[u]
  <2> HIDE DEF new, r2
  <2> QED BY <1>1 DEF TableRows, Tiers
<1>3. ASSUME NEW s \in r[t] PROVE HasBucketOf(t, Upsert(t, r[t], new), s)
  <2> HIDE DEF new
  <2>1. CASE \A u \in new : ~SameBucket(t, s, u)
    <3>1. s \in Upsert(t, r[t], new)
      BY <2>1 DEF Upsert
    <3> QED BY <3>1, BucketItself DEF HasBucketOf
  <2>2. CASE \E u \in new : SameBucket(t, s, u)
    <3>1. PICK u \in new : SameBucket(t, s, u)
      BY <2>2
    <3>2. u \in Upsert(t, r[t], new)
      BY DEF Upsert
    <3> QED BY <3>1, <3>2 DEF HasBucketOf
  <2> QED BY <2>1, <2>2
<1> HIDE DEF new, r2
<1>4. \A u \in {2, 3} : \A s \in r[u] : HasBucketOf(u, r2[u], s)
  <2>1. \A u \in {2, 3} \ {t} : \A s \in r[u] : HasBucketOf(u, r2[u], s)
    BY <1>2, BucketItself DEF HasBucketOf
  <2>2. \A s \in r[t] : HasBucketOf(t, r2[t], s)
    BY <1>2, <1>3
  <2> QED BY <2>1, <2>2
<1>5. TableMoves(r, r2)
  BY <1>2, <1>4 DEF TableMoves, BucketsStay
<1> QED BY <1>5 DEF r2

\* Pruning takes a bucket as a whole, when it expires.
LEMMA PrunedMoves ==
    ASSUME TypeOK, TiersLast, NEW r \in TableRows, NEW r2, NEW now \in Int,
           r2 = Prune(r, now), ReadsClock(now), NEW d \in [Steps -> Int],
           Follows(r, d), Kept(r),
           now - d[2] <= Width[2], now - d[3] <= Width[3]
    PROVE  TableMoves(r, r2)
<1>1. \A s \in r[1] \ r2[1] : s \in r[2]
  BY PrunedTable
<1>2. ASSUME NEW t \in {2, 3}, NEW u \in r[t]
      PROVE  HasBucketOf(t, r2[t], u) \/ Expired(t, u)
  <2>1. t \in Tiers /\ u \in Sample /\ r2[t] = {s \in r[t] : StartOf(t, s) >= now - Retention[t]}
    BY DEF Prune, Tiers, TableRows
  <2>2. CASE StartOf(t, u) >= now - Retention[t]
    <3>1. u \in r2[t]
      BY <2>1, <2>2
    <3> QED BY <3>1, BucketItself DEF HasBucketOf
  <2>3. CASE ~(StartOf(t, u) >= now - Retention[t])
    <3>1. PICK a \in Offsets : now <= clock + a
      BY DEF ReadsClock
    <3>2. a \in Int /\ clock \in Int /\ StartOf(t, u) \in Int /\ Retention[t] \in Nat
      BY <2>1, OffsetTypes, WindowStart, TierTypes DEF TypeOK
    <3>3. StartOf(t, u) < clock + a - Retention[t]
      BY <2>3, <3>1, <3>2
    <3> QED BY <3>3 DEF Expired
  <2> QED BY <2>2, <2>3
<1> QED BY <1>1, <1>2 DEF TableMoves, BucketsStay

LEMMA FlushMoves ==
    ASSUME TypeOK, FlushedIsWhole, NEW k \in 0..TableCount, NEW now,
           FlushRows(k, now), NEW i \in Tables
    PROVE  TableMoves(rows[i], rows'[i])
<1>1. rows[i][1] \subseteq rows'[i][1]
  BY FlushParts
<1>2. rows'[i][2] = rows[i][2] /\ rows'[i][3] = rows[i][3]
  <2> DEFINE flushed == Upsert(1, rows[i][1], Ready(i, now))
  <2>1. rows'[i] = rows[i] \/ rows'[i] = [rows[i] EXCEPT ![1] = flushed]
    BY DEF FlushRows
  <2>2. rows[i] \in TableRows
    BY TableTypes
  <2> HIDE DEF flushed
  <2> QED BY <2>1, <2>2 DEF TableRows, Tiers
<1> QED BY <1>1, <1>2, NothingMoves

\* So it is with every step, for each table.
LEMMA TablesMove ==
    ASSUME TypeOK, TiersLast, TaskInTime, ScheduleInv, FlushedIsWhole, WaitingInv,
           [Next]_vars, NEW i \in Tables
    PROVE  TableMoves(rows[i], rows'[i])
<1> DEFINE now == task.now
<1>1. now \in Int /\ clock \in Int /\ rows[i] \in TableRows /\ ReadsClock(now)
  BY TableTypes DEF TaskInTime
<1>2. TableMoves(rows[i], rows[i])
  BY NothingMoves
<1>3. TableCount \in 0..TableCount /\ 0..TableCount - 1 \subseteq 0..TableCount
  BY SinkAssumption DEF SinkAssumption
<1>4. CASE Flush
  <2>1. \E k \in 0..TableCount : FlushRows(k, task.now)
    BY <1>3, <1>4 DEF Flush
  <2> QED BY <2>1, FlushMoves
<1>5. CASE \E t \in {2, 3} : RollUpTo(t)
  <2>1. PICK t \in {2, 3} : rows'[i] \in {rows[i], RollUp(t, rows[i], now)}
    BY <1>5 DEF RollUpTo
  <2> QED BY <1>1, <1>2, <2>1, RolledMoves
<1>6. CASE PruneRows
  <2>1. CASE UNCHANGED rows
    BY <1>2, <2>1
  <2>2. CASE rows' = [j \in Tables |-> Prune(rows[j], now)]
    <3>1. rows'[i] = Prune(rows[i], now)
      BY <2>2
    <3>2. now - last[2] <= Width[2] /\ now - last[3] <= Width[3]
      <4>1. task.step \in FlushStep..SessionStep /\ 2 < task.step /\ 3 < task.step
        BY <1>6 DEF PruneRows, PruneStep, FlushStep, SessionStep
      <4> QED BY <4>1, StepTypes DEF ScheduleInv, OnSchedule
    <3>3. last \in [Steps -> Int] /\ Follows(rows[i], last) /\ Kept(rows[i])
      BY TableTypes DEF WaitingInv, TableInv
    <3> HIDE DEF now
    <3> QED BY <1>1, <3>1, <3>2, <3>3, PrunedMoves
  <2> QED BY <1>6, <2>1, <2>2 DEF PruneRows
<1>7. CASE Halt
  <2>1. \E k \in 0..TableCount : FlushRows(k, clock)
    BY <1>3, <1>7 DEF Halt
  <2> QED BY <2>1, FlushMoves
<1>8. CASE UNCHANGED rows
  BY <1>2, <1>8
<1>9. UNCHANGED rows \/ Flush \/ (\E t \in {2, 3} : RollUpTo(t)) \/ PruneRows \/ Halt
  BY DEF Next, vars, Tick, Submit, Take, IdleMaintenance, WriteNode, Maintenance,
         CloseSessions, Stop, Cancel, Crash, Start
<1> QED BY <1>4, <1>5, <1>6, <1>7, <1>8, <1>9

\* What leaves the memory without a process is in a 20 s row.
LEMMA MemoryMoves ==
    ASSUME TypeOK, FlushedIsWhole, [Next]_vars, NEW i \in Tables, NEW s \in kept'
    PROVE  s \in open'[i] \/ s \in rows'[i][1] \/ (s \in kept /\ s \notin open[i])
<1>1. TableCount \in 0..TableCount
  BY SinkAssumption DEF SinkAssumption
<1>2. CASE UNCHANGED <<open, kept>>
  BY <1>2
<1>3. CASE Take
  BY <1>3 DEF Take
<1>4. CASE Maintenance /\ Flush
  <2>1. kept' = kept
    BY <1>4 DEF Maintenance
  <2>2. CASE UNCHANGED open
    BY <2>1, <2>2
  <2>3. CASE FlushRows(TableCount, task.now) /\ ForgetReady(task.now)
    <3>1. rows'[i][1] = rows[i][1] \cup Ready(i, task.now)
      BY <1>1, <2>3, FlushParts
    <3>2. open'[i] = open[i] \ Ready(i, task.now)
      BY <2>3 DEF ForgetReady
    <3> QED BY <2>1, <3>1, <3>2
  <2> QED BY <1>4, <2>2, <2>3 DEF Flush
<1>5. CASE Halt \/ Crash
  <2>1. CASE Down(open)
    BY <2>1 DEF Down
  <2>2. CASE FlushRows(TableCount, clock) /\ Down([j \in Tables |-> open[j] \ Ready(j, clock)])
    <3>1. rows'[i][1] = rows[i][1] \cup Ready(i, clock)
      BY <1>1, <2>2, FlushParts
    <3>2. s \in kept /\ s \notin open[i] \ Ready(i, clock)
      BY <2>2 DEF Down
    <3> QED BY <3>1, <3>2
  <2> QED BY <1>5, <2>1, <2>2 DEF Halt, Crash
<1> QED BY <1>2, <1>3, <1>4, <1>5 DEF Next, vars, Tick, Submit, IdleMaintenance,
           WriteNode, Maintenance, RollUpTo, PruneRows, CloseSessions, Stop, Cancel, Start

\* What history has of a sample, for a reader of tier t.
Reached(i, t, s) ==
    StillComing(i, t, s) \/ HasBucketOf(t, rows[i][t], s) \/ Expired(t, s)

ReachedInv == \A s \in kept, i \in Tables, t \in {2, 3} : Reached(i, t, s)

LEMMA ExpiredStays ==
    ASSUME TypeOK, [Next]_vars, NEW t \in Tiers, NEW s \in Sample, Expired(t, s)
    PROVE  Expired(t, s)'
<1>1. clock \in Int /\ clock' \in {clock, clock + 1}
  BY TableTypes DEF Next, vars, Tick, Submit, Take, IdleMaintenance, WriteNode,
                    Maintenance, Stop, Cancel, Halt, Crash, Start
<1>2. PICK a \in Offsets : StartOf(t, s) < clock + a - Retention[t]
  BY DEF Expired
<1>3. StartOf(t, s) \in Int /\ Retention[t] \in Nat /\ a \in Int
  BY WindowStart, TierTypes, OffsetTypes
<1>4. StartOf(t, s) < clock' + a - Retention[t]
  BY <1>1, <1>2, <1>3
<1> QED BY <1>4 DEF Expired, StartOf

LEMMA ReachedNext ==
    ASSUME TypeOK, TiersLast, SinkInv, ScheduleInv, WaitingInv, ReachedInv,
           [Next]_vars, PrunedStep
    PROVE  ReachedInv'
<1> SUFFICES ASSUME NEW s \in kept', NEW i \in Tables, NEW t \in {2, 3}
             PROVE  Reached(i, t, s)'
  BY DEF ReachedInv
<1>1. CASE s \in open'[i] \/ s \in rows'[i][1]
  BY <1>1 DEF Reached, StillComing
<1>2. CASE s \in kept /\ s \notin open[i]
  <2>1. Reached(i, t, s) /\ s \in Sample
    BY <1>2 DEF ReachedInv, TypeOK
  <2>2. TableMoves(rows[i], rows'[i])
    BY TablesMove DEF SinkInv
  <2>3. GoesUp(rows[i], rows'[i])
    BY DEF PrunedStep
  <2>4. \A u \in Tiers : Expired(u, s) => Expired(u, s)'
    BY <2>1, ExpiredStays
  <2>5. 1 \in Tiers /\ 2 \in Tiers /\ 3 \in Tiers
    BY DEF Tiers
  <2>6. ASSUME s \in rows'[i][t] \/ Expired(t, s)
        PROVE  Reached(i, t, s)'
    <3>1. CASE s \in rows'[i][t]
      <4>1. HasBucketOf(t, rows'[i][t], s)
        BY <3>1, BucketItself DEF HasBucketOf
      <4> QED BY <4>1 DEF Reached, HasBucketOf, SameBucket, StartOf
    <3>2. CASE Expired(t, s)
      BY <2>4, <2>5, <3>2 DEF Reached
    <3> QED BY <2>6, <3>1, <3>2
  <2>7. CASE s \in rows[i][2]
    <3>1. CASE t = 2
      <4>1. HasBucketOf(2, rows'[i][2], s) \/ Expired(2, s)
        BY <2>2, <2>7 DEF TableMoves, BucketsStay
      <4> QED BY <2>6, <3>1, <4>1 DEF Reached, HasBucketOf, SameBucket, StartOf
    <3>2. CASE t = 3
      <4>1. s \in rows'[i][2] \/ s \in rows'[i][3] \/ Expired(3, s)
        BY <2>3, <2>7 DEF GoesUp
      <4>2. s \in rows'[i][2] => Reached(i, 3, s)'
        BY DEF Reached, StillComing
      <4> QED BY <2>6, <3>2, <4>1, <4>2
    <3> QED BY <3>1, <3>2
  <2>8. CASE s \in rows[i][1]
    <3>1. CASE s \in rows'[i][1]
      BY <1>1, <3>1
    <3>2. CASE s \notin rows'[i][1]
      <4>1. s \in rows[i][2]
        BY <2>2, <2>8, <3>2 DEF TableMoves
      <4> QED BY <2>7, <4>1
    <3> QED BY <3>1, <3>2
  <2>9. CASE HasBucketOf(t, rows[i][t], s)
    <3>1. PICK u \in rows[i][t] : SameBucket(t, s, u)
      BY <2>9 DEF HasBucketOf
    <3>2. HasBucketOf(t, rows'[i][t], u) \/ Expired(t, u)
      BY <2>2 DEF TableMoves, BucketsStay
    <3>3. HasBucketOf(t, rows'[i][t], s) \/ Expired(t, s)
      BY <3>1, <3>2 DEF HasBucketOf, SameBucket, Expired
    <3> QED BY <2>6, <3>3 DEF Reached, HasBucketOf, SameBucket, StartOf
  <2>10. CASE Expired(t, s)
    BY <2>6, <2>10
  <2>11. StillComing(i, t, s) => s \in rows[i][1] \/ s \in rows[i][2]
    <3>1. \A u \in 1 .. t - 1 : u = 1 \/ u = 2
      OBVIOUS
    <3> QED BY <1>2, <3>1 DEF StillComing
  <2> QED BY <2>1, <2>7, <2>8, <2>9, <2>10, <2>11 DEF Reached
<1> QED BY <1>1, <1>2, MemoryMoves DEF SinkInv

\* Every kept sample is, for a reader of any tier, in memory, in a finer tier,
\* in a row of that tier, or expired there.
THEOREM ReachedInvariant ==
    ASSUME Timely, TiersLast
    PROVE  Spec => [](TypeOK /\ SinkInv /\ ReachedInv)
<1> DEFINE Inv == TypeOK /\ SinkInv /\ ScheduleInv /\ WaitingInv
<1>1. Init => ReachedInv
  BY DEF Init, ReachedInv
<1>2. Inv /\ ReachedInv /\ [Next]_vars => ReachedInv'
  BY WaitingNext, ReachedNext
<1>3. Inv => TypeOK /\ SinkInv
  OBVIOUS
<1>4. Spec => []Inv
  BY WaitingInvariant
<1> HIDE DEF Inv
<1> QED BY <1>1, <1>2, <1>3, <1>4, PTL DEF Spec

-----------------------------------------------------------------------------
(* The readers *)

\* An agent whose clock is ahead makes the manager prune that much early, and
\* then the oldest jobs are read from rows that are gone: JobLookback is the
\* retention of the finest tier, to the second.
NobodyAhead == \A n \in Agents : Skew[n] <= 0

LEMMA NotExpired ==
    ASSUME NobodyAhead, TypeOK, NEW t \in Tiers, NEW s \in Sample,
           StartOf(t, s) >= clock - Retention[t]
    PROVE  ~Expired(t, s)
<1>1. ASSUME NEW a \in Offsets
      PROVE  a \in Int /\ a <= 0
  BY SinkAssumption DEF Offsets, NobodyAhead, SinkAssumption
<1>2. clock \in Int /\ StartOf(t, s) \in Int /\ Retention[t] \in Nat
  BY WindowStart, TierTypes DEF TypeOK
<1>3. ASSUME NEW a \in Offsets
      PROVE  ~(StartOf(t, s) < clock + a - Retention[t])
  BY <1>1, <1>2
<1> QED BY <1>3 DEF Expired

\* What the readers rely on: the tier that they ask has the sample's bucket.
LEMMA Found ==
    ASSUME NobodyAhead, TypeOK, SinkInv, ReachedInv,
           NEW s \in kept, NEW i \in Tables, NEW t \in Tiers, s \notin open[i],
           ~StillComing(i, t, s), StartOf(t, s) >= clock - Retention[t]
    PROVE  HasBucketOf(t, rows[i][t], s)
<1>1. s \in Sample
  BY DEF TypeOK
<1>2. ~Expired(t, s)
  BY <1>1, NotExpired
<1>3. CASE t = 1
  <2>1. s \in rows[i][1]
    BY <1>2, <1>3 DEF SinkInv, NothingForgotten
  <2> QED BY <1>3, <2>1, BucketItself DEF HasBucketOf
<1>4. CASE t \in {2, 3}
  BY <1>2, <1>4 DEF ReachedInv, Reached
<1> QED BY <1>3, <1>4 DEF Tiers

LEMMA RangeFinds ==
    ASSUME NobodyAhead, TypeOK, SinkInv, ReachedInv,
           NEW s \in kept, NEW i \in Tables, NEW t \in Tiers, s \notin open[i],
           ~StillComing(i, t, s), StartOf(t, s) >= clock - Retention[t],
           NEW since \in Int, NEW until \in Int,
           StartOf(t, s) >= since, StartOf(t, s) <= until
    PROVE  HasBucketOf(t, InRange(i, t, s.node, since, until), s)
<1>1. PICK u \in rows[i][t] : SameBucket(t, s, u)
  BY Found DEF HasBucketOf
<1>2. StartOf(t, s) \in Int
  BY WindowStart DEF TypeOK
<1>3. u.node = s.node /\ StartOf(t, u) \in since..until
  BY <1>1, <1>2 DEF SameBucket
<1> QED BY <1>1, <1>3 DEF HasBucketOf, InRange, Within

\* TierForSpan asks a tier that is kept for as long as the span.
LEMMA TierOfSpan ==
    ASSUME NEW span \in Nat, span <= Retention[3]
    PROVE  /\ TierForSpan(span) \in Tiers
           /\ span <= Retention[TierForSpan(span)]
<1>1. Retention[1] \in Nat /\ Retention[2] \in Nat
  BY TierTypes DEF Tiers
<1> QED BY <1>1 DEF TierForSpan, Tiers

\* A multiple of the width that is not after a date is not after its window.
LEMMA WindowNotBefore ==
    ASSUME NEW x \in Nat, NEW y \in Nat, x <= y, NEW d \in Nat \ {0}
    PROVE  x - (x % d) <= y - (y % d)
<1> DEFINE q == x \div d  p == y \div d
<1>1. /\ q \in Nat /\ p \in Nat
      /\ x % d \in 0..d-1 /\ y % d \in 0..d-1
      /\ x = d * q + (x % d) /\ y = d * p + (y % d)
  OBVIOUS
<1>2. q <= p
  <2>1. SUFFICES ASSUME q >= p + 1 PROVE FALSE
    BY <1>1
  <2> HIDE DEF q, p
  <2>2. d * q >= d * (p + 1)
    BY <1>1, <2>1
  <2>3. d * (p + 1) = d * p + d
    BY <1>1
  <2> DEFINE A == d * q  B == d * p
  <2>4. A \in Int /\ B \in Int
    BY <1>1
  <2>5. A >= B + d
    BY <2>2, <2>3
  <2>6. x % d \in Int /\ y % d \in Int
    BY <1>1
  <2>7. x = A + (x % d) /\ y = B + (y % d)
    BY <1>1
  <2>8. x % d >= 0 /\ y % d < d
    BY <1>1
  <2> DEFINE m == x % d  n == y % d
  <2> HIDE DEF A, B, m, n
  <2> QED BY <2>4, <2>5, <2>6, <2>7, <2>8 DEF m, n
<1>3. d * q <= d * p
  <2> HIDE DEF q, p
  <2> QED BY <1>1, <1>2
<1> DEFINE A == d * q  B == d * p  m == x % d  n == y % d
<1>4. A <= B /\ x = A + m /\ y = B + n /\ m \in Int /\ n \in Int /\ A \in Int /\ B \in Int
  BY <1>1, <1>3
<1>5. x - m = A /\ y - n = B
  <2> HIDE DEF A, B, m, n
  <2> QED BY <1>4
<1> QED BY <1>4, <1>5

\* The types of the dates of a sample's bucket.
LEMMA ReaderTypes ==
    ASSUME TypeOK, NEW s \in kept, NEW t \in Tiers
    PROVE  /\ clock \in Nat /\ s \in Sample /\ s.at \in Int
           /\ StartOf(t, s) \in Int
           /\ Width[t] \in Nat /\ Width[t] > 0 /\ Retention[t] \in Nat
           /\ StartOf(t, s) <= s.at /\ s.at < StartOf(t, s) + Width[t]
<1>1. s \in Sample /\ clock \in Nat
  BY SinkAssumption DEF TypeOK, SinkAssumption
<1>2. s.at \in Int
  BY <1>1 DEF Sample
<1> QED BY <1>1, <1>2, WindowStart, TierTypes

\* A date is a number of widths, and less than one more.
LEMMA Divides ==
    ASSUME NEW x \in Int, NEW d \in Nat \ {0}
    PROVE  /\ x \div d \in Int /\ x % d \in 0..d-1
           /\ x = d * (x \div d) + (x % d)
  OBVIOUS

\* The starts of what is in a range are dates of the range, and finitely many.
LEMMA RangeStarts ==
    ASSUME TypeOK, NEW i \in Tables, NEW t \in Tiers, NEW node,
           NEW since \in Int, NEW until \in Int
    PROVE  /\ InRange(i, t, node, since, until) \subseteq Sample
           /\ Starts(t, InRange(i, t, node, since, until)) \subseteq since..until
<1>1. rows[i][t] \subseteq Sample
  BY DEF TypeOK
<1> QED BY <1>1 DEF InRange, Within, Starts

\* Of what is in a range, the rows with fewer than `limit` starts before them
\* have `limit` starts if a row is left out, and all of them are before it.
LEMMA OldestFirst ==
    ASSUME NEW t \in Tiers, NEW found \in SUBSET Sample, NEW s \in Sample,
           NEW since \in Int, NEW until \in Int, Starts(t, found) \subseteq since..until,
           NEW limit \in Nat, Cardinality(Before(t, found, s)) >= limit
    PROVE  LET read == {u \in found : Cardinality(Before(t, found, u)) < limit}
           IN /\ Cardinality(Starts(t, read)) >= limit
              /\ \A b \in Starts(t, read) : b < StartOf(t, s)
<1> DEFINE read == {u \in found : Cardinality(Before(t, found, u)) < limit}
           before(u) == Before(t, found, u)
<1>1. \A u \in Sample : StartOf(t, u) \in Int
  BY WindowStart
<1>2. IsFiniteSet(Starts(t, found))
  <2>1. IsFiniteSet(since..until)
    BY FS_Interval
  <2> QED BY <2>1, FS_Subset
<1>3. ASSUME NEW X \in SUBSET Starts(t, found)
      PROVE  IsFiniteSet(X) /\ Cardinality(X) \in Nat
  BY <1>2, FS_Subset, FS_CardinalityType
<1>4. \A u \in Sample : before(u) \subseteq Starts(t, found)
  BY DEF Before
<1>5. ASSUME NEW u \in read, StartOf(t, u) >= StartOf(t, s) PROVE FALSE
  <2>1. u \in Sample /\ Cardinality(before(u)) < limit
    OBVIOUS
  <2>2. \A b \in Starts(t, found) : b \in Int
    OBVIOUS
  <2>3. before(s) \subseteq before(u)
    BY <1>1, <1>5, <2>1, <2>2 DEF Before
  <2>4. IsFiniteSet(before(u)) /\ Cardinality(before(u)) \in Nat
    BY <1>3, <1>4, <2>1
  <2> HIDE DEF before
  <2>5. Cardinality(before(s)) <= Cardinality(before(u))
    BY <2>3, <2>4, FS_Subset
  <2>6. Cardinality(before(s)) \in Nat /\ Cardinality(before(s)) >= limit
    BY <1>3, <1>4 DEF before
  <2> QED BY <2>1, <2>4, <2>5, <2>6
<1>6. \A b \in Starts(t, read) : b < StartOf(t, s)
  <2> SUFFICES ASSUME NEW u \in read PROVE StartOf(t, u) < StartOf(t, s)
    BY DEF Starts
  <2>1. StartOf(t, u) \in Int /\ StartOf(t, s) \in Int
    BY <1>1
  <2> HIDE DEF read
  <2> QED BY <1>5, <2>1
<1>7. Starts(t, read) \subseteq Starts(t, found)
  BY DEF Starts
<1>8. SUFFICES ASSUME Cardinality(Starts(t, read)) < limit PROVE FALSE
  <2>1. Cardinality(Starts(t, read)) \in Nat
    BY <1>3, <1>7
  <2> QED BY <1>6, <1>8, <2>1
\* The oldest row that is not read has only read ones before it.
<1> DEFINE Skipped == {u \in found : StartOf(t, u) \notin Starts(t, read)}
           Befores == {before(u) : u \in Skipped}
<1>9. Skipped # {}
  <2> SUFFICES ASSUME Skipped = {} PROVE FALSE
    OBVIOUS
  <2>1. before(s) \subseteq Starts(t, read)
    <3>1. Starts(t, found) \subseteq Starts(t, read)
      <4> HIDE DEF read
      <4> QED BY DEF Starts
    <3> QED BY <1>4, <3>1
  <2>2. /\ IsFiniteSet(Starts(t, read)) /\ Cardinality(Starts(t, read)) \in Nat
        /\ Cardinality(before(s)) \in Nat
    BY <1>3, <1>4, <1>7
  <2>3. Cardinality(before(s)) <= Cardinality(Starts(t, read))
    <3> HIDE DEF before, read
    <3> QED BY <2>1, <2>2, FS_Subset
  <2> QED BY <1>8, <2>2, <2>3
<1>10. Befores \subseteq FiniteSubsetsOf(Int) /\ Befores # {}
  <2>1. ASSUME NEW u \in Skipped PROVE before(u) \in SUBSET Int /\ IsFiniteSet(before(u))
    <3>1. u \in Sample
      OBVIOUS
    <3>2. before(u) \subseteq Starts(t, found)
      BY <1>4, <3>1
    <3>3. Starts(t, found) \subseteq Int
      OBVIOUS
    <3> HIDE DEF before
    <3> QED BY <1>3, <3>2, <3>3
  <2> HIDE DEF before, Skipped
  <2> QED BY <1>9, <2>1 DEF FiniteSubsetsOf
<1>11. PICK x \in Befores : \A y \in Befores : ~(<<y, x>> \in StrictSubsetOrdering(Int))
  <2> HIDE DEF Befores
  <2> QED BY <1>10, FS_StrictSubsetOrderingWellFounded, WFMin
<1>12. PICK g \in Skipped : x = before(g)
  BY <1>11
<1>13. g \in Sample /\ g \in found /\ StartOf(t, g) \notin Starts(t, read)
  OBVIOUS
<1>14. before(g) \subseteq Starts(t, read)
  <2> SUFFICES ASSUME NEW b \in before(g), b \notin Starts(t, read) PROVE FALSE
    OBVIOUS
  <2>1. b \in Starts(t, found) /\ b < StartOf(t, g)
    BY DEF Before
  <2>2. PICK u \in found : StartOf(t, u) = b
    BY <2>1 DEF Starts
  <2>3. u \in Skipped /\ u \in Sample
    BY <2>2
  <2>4. \A c \in Starts(t, found) : c \in Int
    OBVIOUS
  <2>5. before(u) \subseteq before(g) /\ b \in before(g) /\ b \notin before(u)
    BY <1>1, <1>13, <2>1, <2>2, <2>3, <2>4 DEF Before
  <2>6. before(u) \in Befores /\ before(g) \in Befores
    BY <2>3
  <2> HIDE DEF before, Skipped, Befores
  <2>7. before(u) \in SUBSET Int /\ before(g) \in SUBSET Int
    BY <1>10, <2>6 DEF FiniteSubsetsOf
  <2>8. <<before(u), before(g)>> \in StrictSubsetOrdering(Int)
    BY <2>5, <2>7 DEF StrictSubsetOrdering
  <2> QED BY <1>11, <1>12, <2>6, <2>8
<1>15. Cardinality(before(g)) < limit
  <2>1. /\ IsFiniteSet(Starts(t, read)) /\ Cardinality(Starts(t, read)) \in Nat
        /\ Cardinality(before(g)) \in Nat
    BY <1>3, <1>4, <1>7, <1>13
  <2>2. Cardinality(before(g)) <= Cardinality(Starts(t, read))
    <3> HIDE DEF before, read
    <3> QED BY <1>14, <2>1, FS_Subset
  <2> QED BY <1>8, <2>1, <2>2
<1>16. g \in read
  BY <1>13, <1>15
<1> HIDE DEF read
<1> QED BY <1>13, <1>16 DEF Starts

\* A sample's bucket begins a number of widths after 0.
LEMMA StartIsMultiple ==
    ASSUME NEW t \in Tiers, NEW s \in Sample
    PROVE  /\ Width[t] \in Nat \ {0} /\ s.at \div Width[t] \in Int
           /\ StartOf(t, s) = Width[t] * (s.at \div Width[t])
<1>1. Width[t] \in Nat \ {0} /\ s.at \in Int
  BY TierTypes DEF Sample
<1> DEFINE k == s.at \div Width[t]  m == s.at % Width[t]  p == Width[t] * k
<1>2. k \in Int /\ m \in 0..Width[t]-1 /\ s.at = p + m
  BY <1>1, Divides
<1>3. p \in Int
  BY <1>1, <1>2
<1>4. StartOf(t, s) = s.at - m
  BY DEF StartOf
<1>5. s.at - m = p
  <2> HIDE DEF m, p
  <2> QED BY <1>2, <1>3
<1> QED BY <1>1, <1>2, <1>4, <1>5

\* Numbers whose multiples are as far apart as d are at most CeilDiv(d, W)
\* apart.
LEMMA WidthsBetween ==
    ASSUME NEW W \in Nat \ {0}, NEW q \in Int, NEW k \in Int,
           NEW from \in Int, NEW until \in Int,
           from < W * (q + 1), W * k <= until
    PROVE  CeilDiv(until - from, W) \in Int /\ k - q <= CeilDiv(until - from, W)
<1> DEFINE e == until - from + W - 1  c == e \div W
<1>1. e \in Int
  OBVIOUS
<1>2. c \in Int /\ e % W \in 0..W-1 /\ e = W * c + (e % W)
  <2> HIDE DEF e
  <2> QED BY <1>1, Divides
<1> HIDE DEF c
<1>3. W * (q + 1) = W * q + W /\ W * (k - q) = W * k - W * q /\ W * (c + 1) = W * c + W
  BY <1>2
<1>4. W * q \in Int /\ W * k \in Int /\ W * c \in Int /\ e % W \in Int /\ e % W < W
  BY <1>1, <1>2
<1>5. W * (k - q) < W * (c + 1)
  <2> DEFINE A == W * q  B == W * k  C == W * c  m == e % W
             D == W * (k - q)  E == W * (c + 1)  F == W * (q + 1)
  <2>1. /\ A \in Int /\ B \in Int /\ C \in Int /\ m \in Int /\ m < W
        /\ e = C + m /\ e = until - from + W - 1
        /\ F = A + W /\ D = B - A /\ E = C + W /\ from < F /\ B <= until
    BY <1>2, <1>3, <1>4
  <2> HIDE DEF A, B, C, D, E, F, m, e
  <2>2. D < E
    BY <2>1
  <2> QED BY <2>2 DEF D, E
<1>6. k - q <= c
  <2>1. SUFFICES ASSUME k - q >= c + 1 PROVE FALSE
    BY <1>2
  <2>2. W * (k - q) >= W * (c + 1)
    BY <1>2, <2>1
  <2> QED BY <1>2, <1>5, <2>2
<1> QED BY <1>2, <1>6 DEF CeilDiv, c, e

\* A range that begins no earlier than the bucket of `from` has fewer starts
\* before one of its own than are wanted.
LEMMA PointsSuffice ==
    ASSUME NEW t \in Tiers, NEW found \in SUBSET Sample, NEW s \in Sample,
           NEW from \in Nat, NEW until \in Int, NEW since \in Int,
           since >= from - (from % Width[t]),
           Starts(t, found) \subseteq since..until,
           StartOf(t, s) >= since, StartOf(t, s) <= until
    PROVE  /\ PointsWanted(from, until, t) \in Nat
           /\ Cardinality(Before(t, found, s)) \in Nat
           /\ Cardinality(Before(t, found, s)) < PointsWanted(from, until, t)
<1> DEFINE W == Width[t]  q == from \div W  k == s.at \div W
           c == CeilDiv(until - from, W)  before == Before(t, found, s)
<1>1. W \in Nat \ {0} /\ from = W * q + (from % W) /\ from % W \in 0..W-1 /\ q \in Int
  <2>1. W \in Nat \ {0}
    BY TierTypes
  <2> HIDE DEF W
  <2> QED BY <2>1, Divides
<1>2. k \in Int /\ StartOf(t, s) = W * k
  BY StartIsMultiple
<1> HIDE DEF k, q
<1>3. W * q \in Int /\ W * (q + 1) = W * q + W /\ W * k \in Int
  <2> HIDE DEF W
  <2> QED BY <1>1, <1>2
<1>4. /\ since >= W * q /\ from < W * (q + 1)
  <2> DEFINE A == W * q  m == from % W  F == W * (q + 1)
  <2>1. A \in Int /\ F = A + W /\ m \in Int /\ m < W /\ from = A + m /\ since >= from - m
    BY <1>1, <1>3
  <2> HIDE DEF A, m, F
  <2>2. since >= A /\ from < F
    BY <1>1, <2>1
  <2> QED BY <2>2 DEF A, F
<1>5. W * k <= until
  BY <1>2
<1>6. c \in Int /\ k - q <= c
  <2>1. W \in Nat \ {0} /\ q \in Int /\ k \in Int /\ from \in Int /\ until \in Int
    BY <1>1, <1>2
  <2>2. from < W * (q + 1) /\ W * k <= until
    BY <1>4, <1>5
  <2> HIDE DEF W
  <2> QED BY <2>1, <2>2, WidthsBetween
<1>7. q <= k
  <2>1. SUFFICES ASSUME q >= k + 1 PROVE FALSE
    BY <1>1, <1>2
  <2>2. W * q >= W * (k + 1) /\ W * (k + 1) = W * k + W
    <3> HIDE DEF W
    <3> QED BY <1>1, <1>2, <2>1
  <2> DEFINE A == W * q  B == W * k  C == W * (k + 1)
  <2>3. A \in Int /\ B \in Int /\ A >= C /\ C = B + W /\ B >= A
    <3>1. StartOf(t, s) \in Int
      BY WindowStart
    <3> HIDE DEF W
    <3> QED BY <1>2, <1>3, <1>4, <2>2, <3>1
  <2> HIDE DEF A, B, C
  <2> QED BY <1>1, <2>3
\* Each start before that of s is a number of widths from q to k - 1.
<1> DEFINE number == [b \in before |-> b \div W]
<1>8. ASSUME NEW b \in before
      PROVE  b \in Int /\ b \div W \in q..k-1 /\ b = W * (b \div W)
  <2>1. b \in Starts(t, found) /\ b < StartOf(t, s)
    BY DEF Before
  <2>2. PICK u \in found : b = StartOf(t, u)
    BY <2>1 DEF Starts
  <2> DEFINE n == u.at \div W
  <2>3. n \in Int /\ b = W * n
    BY <2>2, StartIsMultiple
  <2> HIDE DEF n
  <2>4. b \in Int /\ b >= since
    BY <2>1
  <2>5. b \div W = n
    <3> HIDE DEF W
    <3>1. W * n = n * W /\ b \in Int
      BY <1>1, <2>3
    <3> QED BY <1>1, <2>3, <3>1, SMTT(30)
  <2>6. n < k
    <3>1. SUFFICES ASSUME n >= k PROVE FALSE
      BY <1>2, <2>3
    <3>2. W * n >= W * k
      <4> HIDE DEF W
      <4> QED BY <1>1, <1>2, <2>3, <3>1
    <3> QED BY <1>2, <1>3, <2>1, <2>3, <2>4, <3>2
  <2>7. q <= n
    <3>1. SUFFICES ASSUME q >= n + 1 PROVE FALSE
      BY <1>1, <2>3
    <3>2. W * q >= W * (n + 1) /\ W * (n + 1) = W * n + W
      <4> HIDE DEF W
      <4> QED BY <1>1, <2>3, <3>1
    <3> DEFINE A == W * q  B == W * (n + 1)
    <3>3. A \in Int /\ B = b + W /\ A >= B /\ b >= since /\ since >= A
      BY <1>3, <1>4, <2>3, <2>4, <3>2
    <3> HIDE DEF A, B
    <3> QED BY <1>1, <2>4, <3>3
  <2>8. b \div W \in q..k-1
    <3>1. n \in q..k-1
      BY <1>1, <1>2, <2>3, <2>6, <2>7
    <3> QED BY <2>5, <3>1
  <2>9. b = W * (b \div W)
    BY <2>3, <2>5
  <2> QED BY <2>4, <2>8, <2>9
<1>9. number \in Injection(before, q..k-1)
  <2>1. number \in [before -> q..k-1]
    <3> HIDE DEF before, W
    <3> QED BY <1>8
  <2>2. \A a, b \in before : number[a] = number[b] => a = b
    <3> SUFFICES ASSUME NEW a \in before, NEW b \in before, a \div W = b \div W
                 PROVE  a = b
      OBVIOUS
    <3>1. a = W * (a \div W) /\ b = W * (b \div W)
      BY <1>8
    <3> QED BY <3>1
  <2> HIDE DEF number
  <2> QED BY <2>1, <2>2 DEF Injection, IsInjective
<1>10. Cardinality(before) \in Nat /\ Cardinality(before) <= k - q
  <2>1. k - 1 \in Int
    BY <1>2
  <2>2. IsFiniteSet(q..k-1) /\ Cardinality(q..k-1) = k - q
    <3>1. IsFiniteSet(q..k-1) /\ Cardinality(q..k-1) = IF q > k - 1 THEN 0 ELSE k - 1 - q + 1
      BY <1>1, <2>1, FS_Interval
    <3> QED BY <1>1, <1>2, <1>7, <3>1
  <2> HIDE DEF before, number
  <2> QED BY <1>9, <2>2, FS_Injection, FS_CardinalityType
<1>11. PointSlack \in Nat \ {0}
  BY ReadersAssumption DEF ReadersAssumption
<1> HIDE DEF c, before
<1>12. Cardinality(before) < c + PointSlack /\ c + PointSlack \in Nat
  <2> DEFINE n == Cardinality(before)
  <2>1. n \in Nat /\ n <= k - q /\ k - q <= c /\ c \in Int /\ k \in Int /\ q \in Int
    BY <1>1, <1>2, <1>6, <1>10
  <2> HIDE DEF n
  <2>2. n < c + PointSlack /\ c + PointSlack \in Nat
    BY <1>11, <2>1
  <2> QED BY <2>2 DEF n
<1> QED BY <1>10, <1>12 DEF PointsWanted, c, before

\* A job's curve has a point of each sample's bucket, but for the newest ones
\* of a curve that wants more points than the cap.
LEMMA JobCurveFinds ==
    ASSUME NobodyAhead, TiersLast, TypeOK, SinkInv, ReachedInv,
           NEW s \in kept, NEW i \in Tables, s \notin open[i]
    PROVE  JobCurveHasItsPoints(s, i)
<1> SUFFICES ASSUME NEW start \in 0..s.at, NEW end \in {s.at, clock},
                    NEW resolution \in Resolutions,
                    start >= clock - MaxJobLookback, s.at <= end,
                    InReach(CurveOf(start, end, resolution, clock).tier, s, start),
                    ~StillComing(i, CurveOf(start, end, resolution, clock).tier, s),
                    NEW cap \in CurveCaps
             PROVE  LET curve == CurveOf(start, end, resolution, clock)
                        samples == RollupCurve(i, s.node, curve, cap)
                    IN \/ HasBucketOf(curve.tier, samples, s)
                       \/ CutOff(curve, samples, s, cap)
  BY DEF JobCurveHasItsPoints
<1> DEFINE from == IF start > Padding THEN start - Padding ELSE 0
           until == end + Padding
           t == JobTier(resolution, start, from, until, clock)
           since == IF t = 3 THEN from - (from % Width[3]) ELSE from
           found == InRange(i, t, s.node, since, until)
           curve == CurveOf(start, end, resolution, clock)
           wanted == PointsWanted(from, until, t)
           limit == PointLimit(wanted, cap)
           samples == RollupCurve(i, s.node, curve, cap)
<1>1. /\ Padding \in Nat /\ JobLookback \in Nat /\ MaxJobLookback \in Nat
      /\ JobLookback <= Retention[1] /\ MaxJobLookback + Width[3] <= Retention[3]
  BY ReadersAssumption DEF ReadersAssumption
<1>2. 1 \in Tiers /\ 2 \in Tiers /\ 3 \in Tiers
  BY DEF Tiers
<1>3. /\ clock \in Nat /\ s \in Sample /\ s.at \in Int /\ start \in Nat /\ end \in Int
      /\ start <= s.at
  BY <1>2, ReaderTypes
<1>4. from \in Nat /\ from <= start /\ until \in Int /\ s.at <= until
  BY <1>1, <1>3
<1>5. /\ t \in Tiers
      /\ t = 3 \/ start >= clock - JobLookback
  <2>1. resolution \in {0, 1, 2, 3}
    BY DEF Resolutions, Automatic, Tiers
  <2>2. AutoTier(from, until) \in {1, 2}
    BY DEF AutoTier
  <2> HIDE DEF from, until
  <2> QED BY <1>1, <1>3, <2>1, <2>2 DEF JobTier, Automatic, Tiers
<1>6. /\ StartOf(t, s) \in Int /\ Width[t] \in Nat /\ Width[t] > 0
      /\ Retention[t] \in Nat
      /\ StartOf(t, s) <= s.at /\ s.at < StartOf(t, s) + Width[t]
  <2> HIDE DEF t
  <2> QED BY <1>5, ReaderTypes
<1>7. curve = [from |-> from, until |-> until, tier |-> t]
  BY DEF CurveOf
<1>8. /\ curve.from = from /\ curve.until = until /\ curve.tier = t
      /\ ~StillComing(i, t, s) /\ InReach(t, s, start)
  BY <1>7
<1>9. /\ since \in Int /\ StartOf(t, s) >= since
      /\ StartOf(t, s) >= clock - Retention[t]
      /\ since >= from - (from % Width[t])
  <2>1. CASE t = 3
    <3>1. s.at \in Nat /\ from <= s.at /\ Width[3] \in Nat \ {0}
      BY <1>2, <1>3, <1>4, TierTypes
    <3>2. from - (from % Width[3]) <= s.at - (s.at % Width[3])
      <4> HIDE DEF from
      <4> QED BY <1>4, <3>1, WindowNotBefore
    <3>3. from - (from % Width[3]) \in Int
      <4> HIDE DEF from
      <4> QED BY <1>4, <3>1
    <3>4. since = from - (from % Width[3])
      BY <2>1
    <3>5. StartOf(t, s) >= since
      <4> HIDE DEF since, from
      <4> QED BY <2>1, <3>2, <3>4 DEF StartOf
    <3>6. StartOf(t, s) >= clock - Retention[t]
      <4> HIDE DEF t, since, from, curve
      <4> QED BY <1>1, <1>3, <1>6, <2>1
    <3>7. since >= from - (from % Width[t])
      <4> HIDE DEF t, since, from
      <4> QED BY <2>1, <3>3, <3>4
    <3> QED BY <3>3, <3>4, <3>5, <3>6, <3>7
  <2>2. CASE t # 3
    <3>1. s.at >= start + Width[t]
      BY <1>8, <2>2 DEF InReach
    <3>2. since = from
      BY <2>2
    <3>3. Retention[t] >= Retention[1]
      <4>1. /\ Retention[1] \in Nat /\ Retention[2] \in Nat
            /\ Width[2] \in Nat /\ Retention[1] + Width[2] <= Retention[2]
        BY <1>2, TierTypes DEF TiersLast
      <4> HIDE DEF t
      <4> QED BY <1>5, <2>2, <4>1 DEF Tiers
    <3>4. StartOf(t, s) >= start
      <4> HIDE DEF t, since, from
      <4> QED BY <1>3, <1>6, <3>1
    <3>5. start >= clock - JobLookback /\ Retention[1] \in Nat
      BY <1>2, <1>5, <2>2, TierTypes
    <3>6. from % Width[t] >= 0 /\ from % Width[t] \in Int
      <4> HIDE DEF t, from
      <4> QED BY <1>4, <1>6
    <3> DEFINE m == from % Width[t]
    <3> HIDE DEF t, since, from, m, curve
    <3>7. since >= from - m
      BY <1>4, <3>2, <3>6 DEF m
    <3> QED BY <1>1, <1>3, <1>4, <1>6, <3>2, <3>3, <3>4, <3>5, <3>7 DEF m
  <2> QED BY <2>1, <2>2
<1>10. StartOf(t, s) <= until
  <2> HIDE DEF t, until
  <2> QED BY <1>3, <1>4, <1>6
<1>11. samples = {u \in found : Cardinality(Before(t, found, u)) < limit}
  <2>1. samples = Query(i, t, s.node, since, until, limit)
    BY <1>8 DEF RollupCurve
  <2> QED BY <2>1 DEF Query
<1> HIDE DEF t, since, until, from, curve
<1>12. PICK u \in found : SameBucket(t, s, u)
  BY <1>4, <1>5, <1>8, <1>9, <1>10, RangeFinds DEF HasBucketOf
<1>13. found \subseteq Sample /\ Starts(t, found) \subseteq since..until
  BY <1>4, <1>5, <1>9, RangeStarts
<1>14. StartOf(t, u) = StartOf(t, s)
  BY <1>12 DEF SameBucket
<1>15. Before(t, found, u) = Before(t, found, s)
  BY <1>14 DEF Before
<1>16. /\ wanted \in Nat /\ Cardinality(Before(t, found, s)) \in Nat
       /\ Cardinality(Before(t, found, s)) < wanted
  <2> HIDE DEF found
  <2> QED BY <1>3, <1>4, <1>5, <1>9, <1>10, <1>13, PointsSuffice
<1>17. cap \in Nat /\ LeastLimit \in Nat /\ cap >= LeastLimit
  BY ReadersAssumption DEF ReadersAssumption
<1> HIDE DEF found, wanted
<1>18. limit \in Nat /\ (wanted <= cap => limit >= wanted) /\ (wanted > cap => limit = cap)
  BY <1>16, <1>17 DEF PointLimit
<1> HIDE DEF limit
<1>19. CASE Cardinality(Before(t, found, s)) < limit
  <2>1. u \in samples
    BY <1>11, <1>12, <1>15, <1>19
  <2>2. HasBucketOf(curve.tier, samples, s)
    <3> HIDE DEF samples
    <3> QED BY <1>8, <1>12, <2>1 DEF HasBucketOf
  <2> QED BY <2>2 DEF curve
<1>20. CASE ~(Cardinality(Before(t, found, s)) < limit)
  <2>1. wanted > cap /\ limit = cap
    BY <1>16, <1>17, <1>18, <1>20
  <2>2. Cardinality(Before(t, found, s)) >= cap
    BY <1>16, <1>17, <1>20, <2>1
  <2>3. /\ Cardinality(Starts(t, samples)) >= cap
        /\ \A b \in Starts(t, samples) : b < StartOf(t, s)
    BY <1>3, <1>4, <1>5, <1>9, <1>11, <1>13, <1>17, <2>1, <2>2, OldestFirst
  <2>4. CutOff(curve, samples, s, cap)
    BY <1>8, <2>1, <2>3 DEF CutOff, wanted
  <2> QED BY <2>4 DEF curve
<1> QED BY <1>19, <1>20

\* A window of whole buckets holds each bucket that begins in it.
LEMMA WindowHolds ==
    ASSUME NEW k \in Int, NEW W \in Nat \ {0}, NEW c \in Nat \ {0},
           NEW x, x = W * k, NEW width \in Nat \ {0}, width = W * c
    PROVE  /\ (x \div width) * width \in Int
           /\ (x \div width) * width <= x
           /\ x + W <= (x \div width) * width + width
<1> DEFINE q == x \div width  r == x % width
<1>1. x \in Int
  OBVIOUS
<1>2. q \in Int /\ r \in Int /\ 0 <= r /\ r < width /\ x = width * q + r
  <2>1. q \in Int /\ r \in 0..width-1 /\ x = width * q + r
    BY <1>1, Divides, Zenon
  <2> HIDE DEF q, r
  <2> QED BY <2>1
<1> HIDE DEF q, r
<1> DEFINE w == q * width
<1>3. w \in Int /\ width * q = w
  BY <1>2
<1>4. r = W * (k - c * q)
  <2> DEFINE p == c * q
  <2>1. p \in Int
    BY <1>2
  <2>2. w = W * p
    <3>1. q * (W * c) = W * (c * q)
      BY <1>2
    <3> QED BY <3>1
  <2>3. W * (k - p) = W * k - W * p
    <3> HIDE DEF p
    <3> QED BY <2>1
  <2> DEFINE a == W * k  b == W * p  e == W * (k - p)
  <2>4. x = a /\ w = b /\ e = a - b /\ a \in Int /\ b \in Int
    BY <2>1, <2>2, <2>3
  <2>5. r = e
    <3> HIDE DEF a, b, e, w
    <3> QED BY <1>2, <1>3, <2>4
  <2> QED BY <2>5
<1> DEFINE m == k - c * q
<1>5. m \in Int
  BY <1>2
<1>6. m <= c - 1
  <2>1. SUFFICES ASSUME m >= c PROVE FALSE
    BY <1>5
  <2> HIDE DEF m
  <2>2. W * m >= W * c
    BY <1>5, <2>1
  <2>3. r = W * m
    BY <1>4 DEF m
  <2> DEFINE a == W * m  b == W * c
  <2>4. a >= b /\ r = a /\ width = b /\ b \in Int
    BY <2>2, <2>3
  <2> HIDE DEF a, b
  <2> QED BY <1>2, <2>4
<1>7. r + W <= width
  <2>1. r = W * m
    BY <1>4
  <2> HIDE DEF m
  <2>2. W * m <= W * (c - 1)
    BY <1>5, <1>6
  <2>3. W * (c - 1) = W * c - W
    OBVIOUS
  <2> DEFINE a == W * m  b == W * (c - 1)  e == W * c
  <2>4. a <= b /\ b = e - W /\ r = a /\ width = e /\ a \in Int /\ e \in Int
    BY <1>5, <2>1, <2>2, <2>3
  <2> HIDE DEF a, b, e
  <2> QED BY <2>4
<1>8. w <= x /\ x + W <= w + width
  <2> HIDE DEF w
  <2> QED BY <1>1, <1>2, <1>3, <1>7
<1>9. (x \div width) * width = w
  BY DEF q
<1> HIDE DEF w
<1> QED BY <1>3, <1>8, <1>9

\* So does a window of a chart, whose width is of whole rows.
LEMMA BucketInWindow ==
    ASSUME NEW t \in Tiers, NEW u \in Sample, NEW width \in Nat \ {0},
           width % Width[t] = 0
    PROVE  LET w == (StartOf(t, u) \div width) * width
           IN /\ w \in Int /\ w <= StartOf(t, u)
              /\ StartOf(t, u) + Width[t] <= w + width
<1>1. u.at \in Int /\ Width[t] \in Nat \ {0}
  BY TierTypes DEF Sample
<1> DEFINE W == Width[t]  k == u.at \div W  c == width \div W
<1>2. k \in Int /\ u.at = W * k + (u.at % W) /\ u.at % W \in 0..W-1
  BY <1>1, Divides
<1>3. c \in Int /\ width = W * c
  <2>1. c \in Int /\ width = W * c + (width % W)
    <3>1. width \in Int
      OBVIOUS
    <3> QED BY <1>1, <3>1, Divides, Zenon
  <2> DEFINE e == W * c
  <2>2. e \in Int /\ width = e + 0
    BY <1>1, <2>1
  <2> QED BY <2>1, <2>2
<1>4. c \in Nat \ {0}
  <2>1. SUFFICES ASSUME c <= 0 PROVE FALSE
    BY <1>3
  <2> HIDE DEF c, W
  <2>2. W \in Nat \ {0}
    BY <1>1 DEF W
  <2>3. W * c <= 0
    BY <1>3, <2>1, <2>2
  <2> QED BY <1>3, <2>3
<1> DEFINE x == StartOf(t, u)
<1>5. x = W * k
  <2> DEFINE e == W * k  r == u.at % W
  <2>1. e \in Int /\ r \in Int /\ u.at = e + r /\ x = u.at - r
    BY <1>1, <1>2 DEF StartOf
  <2>2. x = e
    <3> HIDE DEF e, r, x
    <3> QED BY <2>1
  <2> QED BY <2>2
<1>6. W \in Nat \ {0}
  BY <1>1
<1> HIDE DEF W, k, c, x
<1>7. /\ (x \div width) * width \in Int
      /\ (x \div width) * width <= x
      /\ x + W <= (x \div width) * width + width
  BY <1>2, <1>3, <1>4, <1>5, <1>6, WindowHolds
<1> QED BY <1>7 DEF W, x

\* The product of a number and a width is of whole widths.
LEMMA WholeWidths ==
    ASSUME NEW n \in Nat \ {0}, NEW W \in Nat \ {0}
    PROVE  n * W \in Nat \ {0} /\ (n * W) % W = 0
<1> DEFINE x == n * W  q == x \div W  r == x % W
<1>1. x \in Nat \ {0} /\ x \in Int
  OBVIOUS
<1>2. q \in Int /\ r \in 0..W-1 /\ x = W * q + r
  <2> HIDE DEF x
  <2> QED BY <1>1, Divides, Zenon
<1>3. r = 0
  <2> HIDE DEF q, r
  <2>1. W * (n - q) = n * W - W * q
    BY <1>2
  <2> DEFINE m == n - q
  <2>2. m \in Int
    BY <1>2
  <2>3. r = W * m
    <3> DEFINE a == n * W  b == W * q  e == W * (n - q)
    <3>1. a \in Int /\ b \in Int /\ e = a - b /\ a = b + r /\ r \in Int
      BY <1>1, <1>2, <2>1
    <3>2. r = e
      <4> HIDE DEF a, b, e
      <4> QED BY <3>1
    <3> QED BY <3>2
  <2> HIDE DEF m
  <2>4. CASE m >= 1
    <3>1. W * m >= W
      BY <2>2, <2>4
    <3> QED BY <1>2, <2>3, <3>1
  <2>5. CASE m <= 0
    <3>1. W * m <= 0
      BY <2>2, <2>5
    <3> QED BY <1>2, <2>3, <3>1
  <2> QED BY <2>2, <2>4, <2>5
<1> QED BY <1>1, <1>3

\* The quotient of a number that is no less than the divisor.
LEMMA AtLeastOne ==
    ASSUME NEW y \in Nat, NEW d \in Nat \ {0}, y >= d
    PROVE  y \div d \in Nat \ {0}
<1> DEFINE p == y \div d  m == y % d
<1>1. p \in Int /\ m \in 0..d-1 /\ y = d * p + m
  <2>1. y \in Int
    OBVIOUS
  <2> QED BY <2>1, Divides, Zenon
<1>2. p >= 1
  <2>1. SUFFICES ASSUME p <= 0 PROVE FALSE
    BY <1>1
  <2> HIDE DEF p, m
  <2>2. d * p <= 0
    BY <1>1, <2>1
  <2> DEFINE e == d * p
  <2>3. e \in Int /\ e <= 0 /\ y = e + m /\ m \in Int /\ m < d
    BY <1>1, <2>2
  <2> HIDE DEF e
  <2> QED BY <2>3
<1> QED BY <1>1, <1>2

\* A series has points of whole rows.
LEMMA SeriesHasWholeRows ==
    ASSUME NEW t \in Tiers, NEW span \in Nat
    PROVE  /\ SeriesWidth(span, t) \in Nat \ {0}
           /\ SeriesWidth(span, t) % Width[t] = 0
<1> DEFINE W == Width[t]
           points == CeilDiv(span, TargetPoints)
           wanted == IF points > W THEN points ELSE W
<1>1. W \in Nat \ {0} /\ TargetPoints \in Nat \ {0}
  BY TierTypes, ReadersAssumption DEF ReadersAssumption
<1>2. points \in Int
  BY <1>1 DEF CeilDiv
<1>3. wanted \in Nat /\ wanted >= W
  <2> HIDE DEF points, W
  <2> QED BY <1>1, <1>2
<1>4. CeilDiv(wanted, W) \in Nat \ {0}
  <2> HIDE DEF wanted, W
  <2> DEFINE y == wanted + W - 1
  <2>1. y \in Nat /\ y >= W
    BY <1>1, <1>3
  <2>2. CeilDiv(wanted, W) = y \div W
    BY DEF CeilDiv
  <2> HIDE DEF y
  <2> QED BY <1>1, <2>1, <2>2, AtLeastOne
<1>5. SeriesWidth(span, t) = CeilDiv(wanted, W) * W
  BY DEF SeriesWidth
<1> DEFINE n == CeilDiv(wanted, W)
<1>6. n * W \in Nat \ {0} /\ (n * W) % W = 0
  <2> HIDE DEF n, W
  <2> QED BY <1>1, <1>4, WholeWidths DEF n
<1> QED BY <1>5, <1>6

\* A chart whose points are of whole rows counts each row in one point, and has
\* a point of each sample's bucket.
LEMMA ChartFinds ==
    ASSUME NobodyAhead, TypeOK, SinkInv, ReachedInv,
           NEW s \in kept, s \notin open[1],
           NEW t \in Tiers, NEW span \in Nat, span <= Retention[t],
           NEW width \in Nat \ {0}, width % Width[t] = 0
    PROVE  ChartHasItsPoints(s, Chart(s.node, span, clock, t, width), span)
<1> DEFINE chart == Chart(s.node, span, clock, t, width)
           read == InRange(1, t, s.node, clock - span, clock)
           windowOf(u) == (StartOf(t, u) \div width) * width
<1>1. /\ chart.tier = t /\ chart.width = width
      /\ chart.points = [w \in {windowOf(u) : u \in read} |->
                             {u \in read : windowOf(u) = w}]
  BY DEF Chart, GroupedRollups
<1>2. 1 \in Tables
  BY SinkAssumption DEF Tables, SinkAssumption
<1>3. read \subseteq Sample
  BY <1>2 DEF InRange, TypeOK
<1>4. /\ clock \in Nat /\ s \in Sample /\ s.at \in Int
      /\ StartOf(t, s) \in Int
      /\ Width[t] \in Nat /\ Width[t] > 0 /\ Retention[t] \in Nat
      /\ StartOf(t, s) <= s.at /\ s.at < StartOf(t, s) + Width[t]
  BY ReaderTypes
<1>5. DOMAIN chart.points = {windowOf(u) : u \in read}
  BY <1>1
<1>6. ASSUME NEW w \in DOMAIN chart.points
      PROVE  chart.points[w] = {u \in read : windowOf(u) = w}
  <2>1. w \in {windowOf(u) : u \in read}
    BY <1>5, <1>6
  <2> HIDE DEF windowOf, read, chart
  <2> QED BY <1>1, <2>1
<1>7. ASSUME NEW w \in DOMAIN chart.points, NEW u \in chart.points[w]
      PROVE  StartOf(t, u) + Width[t] <= w + width
  <2>1. u \in read /\ windowOf(u) = w
    BY <1>6, <1>7
  <2> QED BY <1>3, <2>1, BucketInWindow
<1>8. ASSUME s.at \in clock - span + Width[t] .. clock, ~StillComing(1, t, s)
      PROVE  \E w \in DOMAIN chart.points :
                s.at \in w .. w + width - 1 /\ HasBucketOf(t, chart.points[w], s)
  <2>1. s.at >= clock - span + Width[t] /\ s.at <= clock
    BY <1>4, <1>8
  <2>2. StartOf(t, s) >= clock - span /\ StartOf(t, s) <= clock
    BY <1>4, <2>1
  <2>3. StartOf(t, s) >= clock - Retention[t]
    BY <1>4, <2>2
  <2>4. clock - span \in Int /\ clock \in Int
    BY <1>4
  <2>5. HasBucketOf(t, read, s)
    BY <1>2, <1>8, <2>2, <2>3, <2>4, RangeFinds
  <2>6. PICK u \in read : SameBucket(t, s, u)
    BY <2>5 DEF HasBucketOf
  <2> DEFINE w == windowOf(s)
  <2>7. windowOf(u) = w
    BY <2>6 DEF SameBucket
  <2>8. w \in DOMAIN chart.points
    BY <1>5, <2>6, <2>7
  <2>9. u \in chart.points[w]
    BY <1>6, <2>6, <2>7, <2>8
  <2>10. w \in Int /\ w <= StartOf(t, s) /\ StartOf(t, s) + Width[t] <= w + width
    BY <1>4, BucketInWindow
  <2>11. HasBucketOf(t, chart.points[w], s)
    BY <2>6, <2>9 DEF HasBucketOf
  <2>12. s.at \in w .. w + width - 1
    <3> HIDE DEF w
    <3> QED BY <1>4, <2>10
  <2> QED BY <2>8, <2>11, <2>12
<1> HIDE DEF chart
<1> QED BY <1>1, <1>7, <1>8, Zenon DEF ChartHasItsPoints, chart

\* A node's page has the charts of a range that the tier it is read from lasts.
LEMMA PageFinds ==
    ASSUME NobodyAhead, TypeOK, SinkInv, ReachedInv,
           NEW s \in kept, s \notin open[1], NEW span \in DOMAIN HeatmapWidths,
           NEW chart \in NodePage(s.node, span, clock)
    PROVE  ChartHasItsPoints(s, chart, span)
<1> DEFINE t == TierForSpan(span)
<1>1. /\ span \in 0..Retention[3] /\ HeatmapWidths[span] \in Nat \ {0}
      /\ HeatmapWidths[span] % Width[t] = 0
  BY ReadersAssumption DEF ReadersAssumption
<1>2. span \in Nat /\ span <= Retention[3]
  <2>1. Retention[3] \in Nat
    BY TierTypes DEF Tiers
  <2> QED BY <1>1, <2>1
<1>3. t \in Tiers /\ span <= Retention[t]
  BY <1>2, TierOfSpan
<1>4. /\ SeriesWidth(span, t) \in Nat \ {0}
      /\ SeriesWidth(span, t) % Width[t] = 0
  BY <1>2, <1>3, SeriesHasWholeRows
<1>5. \/ chart = Chart(s.node, span, clock, t, SeriesWidth(span, t))
      \/ chart = Chart(s.node, span, clock, t, HeatmapWidths[span])
  BY DEF NodePage, Series, Heatmap
<1> HIDE DEF t
<1> DEFINE series == SeriesWidth(span, t)  heatmap == HeatmapWidths[span]
<1>6. /\ series \in Nat \ {0} /\ series % Width[t] = 0
      /\ heatmap \in Nat \ {0} /\ heatmap % Width[t] = 0
  BY <1>1, <1>4 DEF t
<1>7. \/ chart = Chart(s.node, span, clock, t, series)
      \/ chart = Chart(s.node, span, clock, t, heatmap)
  BY <1>5
<1> HIDE DEF series, heatmap
<1> QED BY <1>2, <1>3, <1>6, <1>7, ChartFinds

\* A long job is judged by rows of the last hour.
LEMMA LastHourFinds ==
    ASSUME NobodyAhead, TypeOK, SinkInv, ReachedInv,
           NEW s \in kept, s \notin open[1]
    PROVE  JudgedByTheLastHour(s)
<1> SUFFICES ASSUME s.at \in clock - RecentSpan + Width[1] .. clock,
                    ~StillComing(1, 1, s), NEW start \in 0..s.at
             PROVE  LET judged == Judged(s.node, start, s.at, clock)
                    IN judged # {} /\ \A u \in judged : u.at >= clock - RecentSpan
  BY DEF JudgedByTheLastHour
<1> DEFINE since == clock - RecentSpan
           recent == InRange(1, 1, s.node, since, clock)
<1>1. 1 \in Tiers /\ 1 \in Tables /\ RecentSpan \in Nat /\ RecentSpan <= Retention[1]
  BY SinkAssumption, ReadersAssumption
  DEF Tiers, Tables, SinkAssumption, ReadersAssumption
<1>2. /\ clock \in Nat /\ s.at \in Int /\ StartOf(1, s) \in Int
      /\ Width[1] \in Nat /\ Width[1] > 0 /\ Retention[1] \in Nat
      /\ StartOf(1, s) <= s.at /\ s.at < StartOf(1, s) + Width[1]
  BY <1>1, ReaderTypes
<1>3. /\ since \in Int /\ clock \in Int /\ since < clock /\ clock - since = RecentSpan
      /\ StartOf(1, s) >= since /\ StartOf(1, s) <= clock
      /\ StartOf(1, s) >= clock - Retention[1]
  BY <1>1, <1>2
<1>4. HasBucketOf(1, recent, s)
  <2> HIDE DEF since
  <2> QED BY <1>1, <1>3, RangeFinds
<1>5. AverageOf(s.node, clock - RecentSpan, clock) = recent
  <2>1. TierForSpan(clock - since) = 1
    BY <1>1, <1>3 DEF TierForSpan
  <2>2. ~(clock <= since)
    <3> HIDE DEF since
    <3> QED BY <1>3
  <2> QED BY <2>1, <2>2 DEF AverageOf
<1>6. recent # {}
  BY <1>4 DEF HasBucketOf
<1>7. Judged(s.node, start, s.at, clock) = recent
  <2> HIDE DEF recent
  <2> QED BY <1>5, <1>6 DEF Judged
<1>8. ASSUME NEW u \in recent
      PROVE  u.at >= clock - RecentSpan
  <2>1. u \in Sample /\ StartOf(1, u) \in since..clock
    BY <1>1 DEF InRange, Within, TypeOK
  <2>2. StartOf(1, u) <= u.at /\ u.at \in Int /\ StartOf(1, u) \in Int
    BY <1>1, <2>1, WindowStart DEF Sample
  <2> QED BY <1>3, <2>1, <2>2
<1> HIDE DEF recent
<1> QED BY <1>6, <1>7, <1>8

\* The curves of jobs up to 30 days old at every resolution, the charts of a
\* node at every range and the last hour by which a long job is judged find
\* what history has of a sample, through failed flushes, restarts, late
\* rollups and pruning, if no agent's clock is ahead; and what is cut of a
\* curve is the newest of more points than its cap.
THEOREM HistoryIsReadableAlways ==
    ASSUME Timely, TiersLast, NobodyAhead
    PROVE  Spec => []HistoryIsReadable
<1>1. ASSUME TypeOK, SinkInv, ReachedInv
      PROVE  HistoryIsReadable
  BY <1>1, JobCurveFinds, LastHourFinds, PageFinds DEF HistoryIsReadable
<1> QED
  BY <1>1, ReachedInvariant, PTL
==============================================================================
