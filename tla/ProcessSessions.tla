--------------------------- MODULE ProcessSessions ---------------------------
(***************************************************************************)
(* The tables process_sessions and process_gpu_usages of one node (db.py): *)
(* snapshots of its agent wait in the sink's queue, are written one by     *)
(* one, and sessions that were not seen for a while are closed; meanwhile  *)
(* readers compute jobs and activity from the tables (UsageAccounting).    *)
(*                                                                         *)
(* A snapshot is [at, seen]: which processes use which GPUs.  The agent's  *)
(* clock and the manager's agree, and do not go back.                      *)
(***************************************************************************)
EXTENDS UsageAccounting

CONSTANTS Uses,           \* <<process, GPU>> as a snapshot can show them
          Histories,      \* histories of the account's bindings
          Stale,          \* of close_stale_sessions, 300 s
          QueueSize,
          MaxSnapshots,   \* bound
          MaxUses,        \* bound: uses of GPUs that all snapshots show
          FirstAt, MaxClock   \* bound: the clock's range

\* An account is bound to one user after the other: of two bindings of one uid,
\* or of one name, of a node, one began before the other.  None is no job.
ASSUME SessionsAssumption ==
    /\ Uses \subseteq {use[1] : use \in Uses} \X Gpus
    /\ Stale \in Nat /\ FirstAt \in Nat /\ None \notin Nat
    /\ None \notin [ids : SUBSET {SessionId(use[1]) : use \in Uses}, gpus : SUBSET Gpus,
                    started : Nat, last : Nat, status : {"running", "ended"}]
    /\ \A bindings \in Histories :
         /\ IsFiniteSet(bindings)
         /\ \A b \in bindings :
              /\ b = [account |-> b.account, uid |-> b.uid, user |-> b.user,
                      from |-> b.from, to |-> b.to]
              /\ b.from \in Nat /\ b.to \in Nat \cup {None}
         /\ \A b, c \in bindings :
              (b.uid = c.uid \/ b.account = c.account) /\ b.from = c.from => b = c

VARIABLES clock,
          waiting,     \* the sink's queue of snapshots
          sessions,    \* process_sessions, by session id
          usages,      \* process_gpu_usages, by session id and GPU
          sampled,     \* history: when snapshots were taken
          shown,       \* history: how many uses of GPUs they showed
          observed     \* history: <<at, process, GPU>> that were written

tables == [sessions |-> sessions, usages |-> usages]
vars == <<clock, waiting, sessions, usages, sampled, shown, observed>>

Init ==
    /\ clock = FirstAt
    /\ waiting = <<>>
    /\ sessions = [id \in {} |-> None]
    /\ usages = [row \in {} |-> None]
    /\ sampled = {}
    /\ shown = 0
    /\ observed = {}

\* A process may be described in other words later, but not in one snapshot.
Consistent(seen) ==
    \A x, y \in seen : x[1].pid = y[1].pid => x[1] = y[1]

\* The manager accepts a snapshot and the sink queues it.
Sample(seen) ==
    /\ Cardinality(sampled) < MaxSnapshots
    /\ clock \notin sampled
    /\ Len(waiting) < QueueSize
    /\ IsFiniteSet(seen) /\ Consistent(seen)
    /\ sampled' = sampled \cup {clock}
    /\ shown' = shown + Cardinality(seen)
    /\ waiting' = Append(waiting, [at |-> clock, seen |-> seen])
    /\ UNCHANGED <<clock, sessions, usages, observed>>

\* Mutation: a session that was closed stays so.
SeenAgainAsIs(old, p, at) ==
    [old EXCEPT !.ppid = Else(p.ppid, @),
                !.parentStart = Else(p.parentStart, @),
                !.user = Else(p.user, @),
                !.uid = Else(p.uid, @),
                !.last = at,
                !.duration = at - old.first,
                !.count = @ + 1]

\* The row of a session whose process p a snapshot shows, after `old`.
SeenAgain(old, p, at) ==
    [old EXCEPT !.ppid = Else(p.ppid, @),
                !.parentStart = Else(p.parentStart, @),
                !.user = Else(p.user, @),
                !.uid = Else(p.uid, @),
                !.last = at,
                !.duration = at - old.first,
                !.status = "running",
                !.count = @ + 1]

NewSession(p, at) ==
    [pid |-> p.pid, start |-> p.start, ppid |-> p.ppid, parentStart |-> p.parentStart,
     user |-> p.user, uid |-> p.uid, first |-> at, last |-> at, duration |-> 0,
     status |-> "running", count |-> 1]

\* write_node_snapshot and _write_process, in one transaction: each session
\* once, whatever number of GPUs its process uses.
WriteSessions(old, snapshot) ==
    LET seen == {use[1] : use \in snapshot.seen}
        process(id) == CHOOSE p \in seen : SessionId(p) = id
        ids == {SessionId(p) : p \in seen}
    IN [id \in DOMAIN old \cup ids |->
          IF id \notin ids THEN old[id]
          ELSE IF id \in DOMAIN old THEN SeenAgain(old[id], process(id), snapshot.at)
          ELSE NewSession(process(id), snapshot.at)]

WriteUsages(old, snapshot) ==
    LET rows == {<<SessionId(use[1]), use[2]>> : use \in snapshot.seen}
    IN [row \in DOMAIN old \cup rows |->
          IF row \notin rows THEN old[row]
          ELSE IF row \in DOMAIN old THEN [old[row] EXCEPT !.last = snapshot.at, !.count = @ + 1]
          ELSE [first |-> snapshot.at, last |-> snapshot.at, count |-> 1]]

Write ==
    /\ waiting # <<>>
    /\ sessions' = WriteSessions(sessions, Head(waiting))
    /\ usages' = WriteUsages(usages, Head(waiting))
    /\ observed' = observed \cup {<<Head(waiting).at, use[1], use[2]>> : use \in Head(waiting).seen}
    /\ waiting' = Tail(waiting)
    /\ UNCHANGED <<clock, sampled, shown>>

\* Mutation: the stale time counts twice.
StaleSessionsLate(now) ==
    {id \in DOMAIN sessions : /\ sessions[id].status = "running"
                              /\ sessions[id].last < now - 2 * Stale}

\* Sessions that the maintenance at `now` finds stale.
StaleSessions(now) ==
    {id \in DOMAIN sessions : /\ sessions[id].status = "running"
                              /\ sessions[id].last < now - Stale}

\* close_stale_sessions, of the sink's maintenance or of `constella db maintain`.
CloseStale ==
    /\ StaleSessions(clock) # {}
    /\ sessions' = [id \in DOMAIN sessions |->
                      IF id \in StaleSessions(clock)
                      THEN [sessions[id] EXCEPT !.status = "ended",
                                                !.duration = sessions[id].last - sessions[id].first]
                      ELSE sessions[id]]
    /\ UNCHANGED <<clock, waiting, usages, sampled, shown, observed>>

Tick ==
    /\ clock < MaxClock
    /\ clock' = clock + 1
    /\ UNCHANGED <<waiting, sessions, usages, sampled, shown, observed>>

Next ==
    \/ \E n \in 1 .. MaxUses - shown : \E seen \in kSubset(n, Uses) : Sample(seen)
    \/ Write
    \/ CloseStale
    \/ Tick

Spec == Init /\ [][Next]_vars

\* The sink's thread takes what is queued and does its maintenance on time.
FairSpec == Spec /\ WF_vars(Write) /\ WF_vars(CloseStale)

-----------------------------------------------------------------------------
(* Properties *)

\* When the written snapshots showed the session, on one of these GPUs.
SeenAt(id, G) == {o[1] : o \in {w \in observed : SessionId(w[2]) = id /\ w[3] \in G}}

TellsOf(row, times) ==
    row.first = Min(times) /\ row.last = Max(times) /\ row.count = Cardinality(times)

\* The two tables are the summary of what the written snapshots showed, and
\* nothing else: of each session and of its use of each GPU the first and the
\* last time, and in how many snapshots; the duration is the time between; and
\* a session that counts as ended was not seen for the stale time, though a
\* snapshot that waited in the queue may have been written after its closing.
TablesTellObserved ==
    /\ DOMAIN sessions = {SessionId(o[2]) : o \in observed}
    /\ DOMAIN usages = {<<SessionId(o[2]), o[3]>> : o \in observed}
    /\ \A id \in DOMAIN sessions :
          /\ TellsOf(sessions[id], SeenAt(id, Gpus))
          /\ sessions[id].duration = sessions[id].last - sessions[id].first
          /\ sessions[id].status = "ended" => sessions[id].last < clock - Stale
    /\ \A row \in DOMAIN usages : TellsOf(usages[row], SeenAt(row[1], {row[2]}))

Times == FirstAt..MaxClock

Shows(job, listed) ==
    /\ job # None
    /\ listed.ids \subseteq job.ids
    /\ listed.gpus \subseteq job.gpus
    /\ job.started <= listed.started
    /\ listed.last <= job.last

\* A job that the job list shows, for whatever range or pid, is found by its
\* key, with all that the list showed of it, although get_job reads only the
\* rows of sessions that it can tell belong to the key; and so is a job that a
\* user's activity page shows.  If such a job is said to have had its GPUs to
\* itself, no written snapshot showed another session on one of them meanwhile.
JobFoundByItsKey ==
    /\ \A start, end \in Times : \A pid \in {None} \cup {x[1].pid : x \in Uses} :
          start >= clock - Lookback =>
              LET jobs == QueryJobs(tables, start, end, None, pid)
              IN \A key \in DOMAIN jobs : Shows(GetJob(tables, key, clock), jobs[key])
    /\ \A bindings \in Histories : \A user \in {b.user : b \in bindings} :
          LET jobs == ActivityJobs(ReadActivity(tables, bindings, user, clock))
          IN \A key \in DOMAIN jobs :
                /\ GetJob(tables, key, clock) # None
                /\ jobs[key].ids \subseteq GetJob(tables, key, clock).ids
    /\ \A key \in {KeyOf(tables, row[1]) : row \in DOMAIN usages} :
          LET job == GetJob(tables, key, clock)
          IN job # None /\ ConcurrentSessions(tables, job) = {} =>
                ~ \E o \in observed : /\ o[3] \in job.gpus
                                      /\ o[1] \in job.started..job.last
                                      /\ SessionId(o[2]) \notin job.ids

\* Who the account belonged to at an instant: the latest of its bindings that
\* had begun and not ended, a name's first binding reaching back.
OwnerAt(bindings, s, t, start) ==
    LET reaches(b) == s.uid = None /\ t >= start
                        /\ \A c \in bindings : c.account = b.account => b.from <= c.from
        held == {b \in bindings :
                   /\ IF s.uid = None THEN b.account = s.user ELSE b.uid = s.uid
                   /\ b.from <= t \/ reaches(b)
                   /\ b.to # None => t < b.to}
        latest == {b \in held : \A c \in held : c.from <= b.from}
    IN IF held = {} THEN <<"account", Else(s.uid, s.user)>>
       ELSE <<"user", (CHOOSE b \in latest : TRUE).user>>

\* Every instant of a session's use of a GPU, within the range asked for,
\* counts for exactly one owner, the one who held the account then, whatever
\* bindings began and ended meanwhile.
OneOwnerPerInstant ==
    \A bindings \in Histories, start \in Times, row \in DOMAIN usages :
        LET usage == ResolveRow(tables, row, bindings, start, clock)
            left == AtLeast(start, usages[row].first)
            right == AtMost(clock, usages[row].last)
        IN /\ \A t \in left .. right - 1 :
                \E r \in usage : /\ r.start <= t /\ t < r.end
                                 /\ r.owner = OwnerAt(bindings, sessions[row[1]], t, start)
                                 /\ \A q \in usage : q.start <= t /\ t < q.end => q = r
           /\ left = right => {r.owner : r \in usage}
                                = {OwnerAt(bindings, sessions[row[1]], left, start)}
           /\ \A r \in usage : left <= r.start /\ r.end <= right

\* The cards in use in the unit of time that begins at t.
CardsAt(records, t) == {r.card : r \in {q \in records : q.start <= t /\ t < q.end}}

\* What a user's page shows is what the account's uses of GPUs come to, unit
\* by unit of time: each physical card once, however many sessions and dies
\* use it, in segments that are as long as they can be; the models' shares add
\* up to the whole; and a page that reads the rows of the user's uids only
\* shows what one that reads all rows would.
ActivityIsExact ==
    \A bindings \in Histories :
        LET now == clock
            start == PageStart(now)
            units == start .. now - 1
            all == ResolveUsage(tables, DOMAIN usages, bindings, start, now)
            statistics == UserStatistics(tables, DOMAIN usages, bindings, start, now)
        IN \A owner \in DOMAIN statistics :
            LET records == {r \in all : r.owner = owner}
                segments == Segments(records, start, now)
                sum == statistics[owner].summary
                busy == {t \in units : CardsAt(records, t) # {}}
            IN /\ owner[1] = "user" => ReadActivity(tables, bindings, owner[2], now) = records
               /\ \A t \in units :
                    Total([i \in {j \in DOMAIN segments : /\ segments[j].start <= t
                                                          /\ t < segments[j].end}
                             |-> segments[i].count])
                      = Cardinality(CardsAt(records, t))
               /\ \A i \in 1 .. Len(segments) - 1 :
                    /\ segments[i].end <= segments[i + 1].start
                    /\ segments[i].end = segments[i + 1].start
                         => segments[i].count # segments[i + 1].count
               /\ sum.gpu = Total([t \in units |-> Cardinality(CardsAt(records, t))])
               /\ sum.active = Cardinality(busy)
               /\ Total(statistics[owner].models) = sum.gpu
               /\ {t \div DayLength : t \in busy} \subseteq sum.days

\* The parts of a user's page, which are computed each in its own way, agree:
\* the days add up to the period; a day counts as used if and only if it has
\* jobs; and no hour has usage without the user having had an account then, so
\* that none is left out of the busiest hours.
PagePartsAgree ==
    \A bindings \in Histories : \A user \in {b.user : b \in bindings} :
        LET now == clock
            records == ReadActivity(tables, bindings, user, now)
            eligible == Eligible(bindings, user, now)
            whole == Summary(records, PageStart(now), now)
            page == [day \in Days(now) |-> DayPage(records, day)]
        IN /\ Total([day \in Days(now) |-> page[day].summary.gpu]) = whole.gpu
           /\ whole.days = {day.start \div DayLength :
                              day \in {d \in Days(now) : page[d].jobs # {}}}
           /\ \A hour \in 0 .. DayLength \div HourLength - 1 :
                 HourUsage(records, now, hour) > 0 => HourExposure(eligible, now, hour) > 0

\* The manager's latest snapshot of the node: the last that was accepted,
\* whether it has been written or waits.
Latest ==
    LET at == Max(sampled)
        seen == {<<o[2], o[3]>> : o \in {w \in observed : w[1] = at}}
    IN IF sampled = {} THEN None
       ELSE [at |-> at, seen |-> seen \cup UNION {waiting[i].seen : i \in {j \in DOMAIN waiting :
                                                              waiting[j].at = at}}]

\* A session that is not seen any more is closed at last: it does not stay
\* "running" for ever because its last snapshot was written late; and a job
\* without other sessions is shown as ended, whether or not the node stays
\* connected.  (Where the latest snapshot's listing of the processes is not
\* complete, the job is shown as unknown: that case is not covered.)
StaleSessionsEnd ==
    <>[](LET gone == {id \in DOMAIN sessions : sessions[id].last < clock - Stale}
             jobs == GroupJobs(tables, DOMAIN usages)
         IN /\ \A id \in gone : sessions[id].status = "ended"
            /\ \A key \in DOMAIN jobs, connected \in BOOLEAN :
                  jobs[key].ids \subseteq gone =>
                      JobStatus(jobs[key], jobs[key].status, Latest, connected, TRUE, clock)
                        = "ended")

\* The overview's rankings know the jobs by the keys under which the job list
\* shows them.
RankedJobsAreListed ==
    LET jobs == GroupJobs(tables, JobRows(tables, FirstAt, clock))
        ranked == RankedJobs(tables, FirstAt, clock)
    IN \A key \in DOMAIN ranked : key \in DOMAIN jobs
=============================================================================
