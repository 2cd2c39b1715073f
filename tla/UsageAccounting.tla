--------------------------- MODULE UsageAccounting ---------------------------
(***************************************************************************)
(* What the manager computes from the two tables of process sessions, of   *)
(* one node: jobs (highres.py, analytics.py) and, with the history of the  *)
(* Lab's bindings, the activity of its users (activity_usage.py).          *)
(*                                                                         *)
(* A process is [pid, start, ppid, parentStart, user, uid]; a session is a *)
(* process with first, last, duration, status and count; a usage is        *)
(* [first, last, count], of a session on a GPU.  `tables` is               *)
(* [sessions, usages]: functions on session ids, and on <<id, GPU>>.       *)
(***************************************************************************)
EXTENDS Integers, Sequences, FiniteSetsExt, SequencesExt

CONSTANTS Gpus,        \* their UUIDs
          CardOf,      \* the physical card of a GPU: dies share one
          ModelOf,     \* the GPU's model
          None,
          MaxParentAge,   \* JOB_PARENT_GROUP_MAX_AGE_SECONDS
          Lookback,    \* JOB_MAX_LOOKBACK_SECONDS
          DayLength,
          HourLength,
          FreshFor,    \* how long a node's latest snapshot tells what runs
          Period       \* of the activity page, in days

\* The activity page reaches back 7 or 30 days, and a job is found for 30; the
\* dies of a card are of one model.
ASSUME AccountingAssumption ==
    /\ DayLength \in Nat \ {0} /\ HourLength \in Nat \ {0}
    /\ Period \in Nat /\ Lookback \in Nat
    /\ Period * DayLength <= Lookback
    /\ \A g, h \in Gpus : CardOf[g] = CardOf[h] => ModelOf[g] = ModelOf[h]

AtLeast(x, y) == IF x < y THEN y ELSE x
AtMost(x, y) == IF x < y THEN x ELSE y

Else(x, y) == IF x = None THEN y ELSE x

\* The total of the natural numbers f[x]: there are f[x] pairs with each x.
Total(f) == Cardinality(UNION {{x} \X (1..f[x]) : x \in DOMAIN f})

\* The elements of S in an order of them, a set of pairs.
InOrder(S, order) ==
    [k \in 1..Cardinality(S) |->
        CHOOSE x \in S : Cardinality({y \in S : <<y, x>> \in order}) = k]

-----------------------------------------------------------------------------
(* Jobs *)

SessionId(p) == <<p.pid, p.start>>

\* A process that started soon after its parent belongs to the parent's job.
ByParent(p, firstSeen) ==
    /\ p.parentStart # None
    /\ p.ppid # None
    /\ Else(p.start, firstSeen) - p.parentStart \in 0..MaxParentAge

JobKey(p, firstSeen) ==
    IF ByParent(p, firstSeen)
    THEN [user |-> p.user, start |-> p.parentStart, owner |-> p.ppid]
    ELSE [user |-> p.user, start |-> Else(p.start, firstSeen), owner |-> p.pid]

\* The job of a session as the job pages see it.
KeyOf(tables, id) == JobKey(tables.sessions[id], tables.sessions[id].first)

\* The rows of _job_rows are <<session id, GPU>>.
JobRows(tables, start, end) ==
    {row \in DOMAIN tables.usages : /\ tables.sessions[row[1]].last >= start
                                    /\ tables.sessions[row[1]].first <= end}

JobOf(tables, rows) ==
    LET sessions == {tables.sessions[row[1]] : row \in rows}
    IN [ids |-> {row[1] : row \in rows},
        gpus |-> {row[2] : row \in rows},
        started |-> Min({s.first : s \in sessions}),
        last |-> Max({s.last : s \in sessions}),
        status |-> IF \E s \in sessions : s.status = "running" THEN "running" ELSE "ended"]

GroupJobs(tables, rows) ==
    [key \in {KeyOf(tables, row[1]) : row \in rows} |->
        JobOf(tables, {row \in rows : KeyOf(tables, row[1]) = key})]

\* Of the filters those that select jobs by what they are: a status, a pid.
JobMatches(tables, job, status, pid) ==
    /\ status # None => job.status = status
    /\ pid # None => \E id \in job.ids : tables.sessions[id].pid = pid

QueryJobs(tables, start, end, status, pid) ==
    LET jobs == GroupJobs(tables, JobRows(tables, start, end))
    IN [key \in {k \in DOMAIN jobs : JobMatches(tables, jobs[k], status, pid)} |-> jobs[key]]

\* Mutation: a job's key names a process, never a parent.
OwnedByPid(s, owner) == s.pid = owner

\* Whether the job's owner is the session's process or its parent.
OwnedBy(s, owner) == s.pid = owner \/ s.ppid = owner

\* get_job reads only what may belong to the key, and groups it again.
GetJob(tables, key, now) ==
    LET rows == {row \in JobRows(tables, now - Lookback, now) :
                    /\ tables.sessions[row[1]].user = key.user
                    /\ OwnedBy(tables.sessions[row[1]], key.owner)}
        jobs == GroupJobs(tables, rows)
    IN IF key \in DOMAIN jobs THEN jobs[key] ELSE None

\* _concurrent_session_count: others on the job's GPUs between its ends.
ConcurrentSessions(tables, job) ==
    {row \in DOMAIN tables.usages : /\ row[2] \in job.gpus
                                    /\ row[1] \notin job.ids
                                    /\ tables.usages[row].first <= job.last
                                    /\ tables.usages[row].last >= job.started}

-----------------------------------------------------------------------------
(* The overview's rankings (analytics.py) *)

Overlap(usage, start, end) ==
    AtLeast(0, AtMost(usage.last, end) - AtLeast(usage.first, start))

\* _roll_up_usage looks at the session through a row of its usage on a GPU:
\* the row's first_seen_at is the usage's.
KeyOfRow(tables, row) == JobKey(tables.sessions[row[1]], tables.usages[row].first)

RankedRows(tables, start, end) ==
    {row \in DOMAIN tables.usages : Overlap(tables.usages[row], start, end) > 0}

RankedJobs(tables, start, end) ==
    [key \in {KeyOfRow(tables, row) : row \in RankedRows(tables, start, end)} |->
        {row[1] : row \in {r \in RankedRows(tables, start, end) : KeyOfRow(tables, r) = key}}]

-----------------------------------------------------------------------------
(* Who used a GPU when: a binding is [account, uid, user, from, to]. *)

\* legacy_bindings: the first owner of a name has it from the range's start.
LegacyBindings(bindings, account, start) ==
    LET history == {b \in bindings : b.account = account}
        first == Min({b.from : b \in history})
    IN {IF b.from = first THEN [b EXCEPT !.from = AtMost(start, @)] ELSE b : b \in history}

\* Samples without a uid are matched by the account's name.
Matches(bindings, s, start) ==
    IF s.uid = None THEN LegacyBindings(bindings, s.user, start)
    ELSE {b \in bindings : b.uid = s.uid}

\* Mutation: a binding's end is no edge.
EdgesAtStarts(left, right, bindings) ==
    {left, right} \cup {AtLeast(left, AtMost(right, b.from)) : b \in bindings}

Edges(left, right, bindings) ==
    {left, right}
      \cup {AtLeast(left, AtMost(right, t)) :
              t \in {b.from : b \in bindings} \cup ({b.to : b \in bindings} \ {None})}

\* The stretches between neighbouring edges; a single instant is one.
Stretches(left, right, bindings) ==
    LET edges == Edges(left, right, bindings)
    IN IF left = right THEN {<<left, right>>}
       ELSE {ab \in edges \X edges :
               ab[1] < ab[2] /\ ~ \E e \in edges : ab[1] < e /\ e < ab[2]}

Applicable(bindings, t) == {b \in bindings : b.from <= t /\ (b.to = None \/ t < b.to)}

Owner(bindings, s, t) ==
    LET applicable == Applicable(bindings, t)
    IN IF applicable = {} THEN <<"account", Else(s.uid, s.user)>>
       ELSE <<"user", (CHOOSE b \in applicable :
                         \A c \in applicable : c.from <= b.from).user>>

\* The usages that resolve_usage makes of one row.
ResolveRow(tables, row, bindings, start, end) ==
    LET s == tables.sessions[row[1]]
        left == AtLeast(start, tables.usages[row].first)
        right == AtMost(end, tables.usages[row].last)
        matches == Matches(bindings, s, start)
    IN IF right < left THEN {}
       ELSE {[owner |-> Owner(matches, s, ab[1]), start |-> ab[1], end |-> ab[2], row |-> row,
              card |-> CardOf[row[2]], model |-> ModelOf[row[2]], key |-> KeyOf(tables, row[1])] :
                ab \in Stretches(left, right, matches)}

ResolveUsage(tables, rows, bindings, start, end) ==
    UNION {ResolveRow(tables, row, bindings, start, end) : row \in rows}

\* The activity page begins with the day that is Period - 1 days ago.
PageStart(now) == ((now \div DayLength) - (Period - 1)) * DayLength

\* read_activity: the rows of the user's own uids, and those without a uid.
ReadActivity(tables, bindings, user, now) ==
    LET uids == {b.uid : b \in {c \in bindings : c.user = user}}
        rows == {row \in DOMAIN tables.usages :
                    /\ tables.usages[row].first <= now
                    /\ tables.usages[row].last >= PageStart(now)
                    /\ tables.sessions[row[1]].uid \in uids \cup {None}}
    IN IF uids = {} THEN {}
       ELSE {r \in ResolveUsage(tables, rows, bindings, PageStart(now), now) :
                r.owner = <<"user", user>>}

-----------------------------------------------------------------------------
(* Interval algebra *)

Earlier(x, y) == x[1] < y[1] \/ (x[1] = y[1] /\ x[2] <= y[2])

Touching(merged, span) == merged # <<>> /\ span[1] <= Last(merged)[2]

\* Mutation: a span within the last one cuts it off.
ExtendedTo(merged, span) == [merged EXCEPT ![Len(merged)] = <<@[1], span[2]>>]

\* The last span is made to reach to the end of this one.
Extended(merged, span) ==
    [merged EXCEPT ![Len(merged)] = <<@[1], AtLeast(span[2], @[2])>>]

\* One turn of union's loop.
Joined(merged, span) ==
    IF Touching(merged, span) THEN Extended(merged, span) ELSE Append(merged, span)

\* The order in which union reads the spans.
SpanOrder(spans) == {p \in spans \X spans : Earlier(p[1], p[2])}

\* union: the spans that are not empty, in order, merged where they touch.
Merged(spans) ==
    LET proper == {span \in spans : span[1] < span[2]}
        sorted == InOrder(proper, SpanOrder(proper))
        merged[k \in 0..Len(sorted)] ==
            IF k = 0 THEN <<>> ELSE Joined(merged[k - 1], sorted[k])
    IN merged[Len(sorted)]

Cut(record, start, end) == <<AtLeast(start, record.start), AtMost(end, record.end)>>

\* Each card with the spans in which it was in use.
InUse(records, start, end) ==
    UNION {{c} \X Range(Merged({Cut(r, start, end) : r \in {q \in records : q.card = c}})) :
             c \in {r.card : r \in records}}

\* The times at which spans begin or end, and by how much the number of cards
\* in use changes then.
Events(inUse) == {s[2][1] : s \in inUse} \cup {s[2][2] : s \in inUse}

Delta(inUse, t) ==
    Cardinality({s \in inUse : s[2][1] = t}) - Cardinality({s \in inUse : s[2][2] = t})

TimeOrder(times) == {p \in times \X times : p[1] <= p[2]}

\* One turn of the loop over the events: what has been in use until t.
Swept(acc, inUse, t) ==
    [active |-> acc.active + Delta(inUse, t),
     at |-> t,
     out |-> IF ~(acc.active # 0 /\ t > acc.at) THEN acc.out
             ELSE IF acc.out # <<>> /\ Last(acc.out).end = acc.at
                                    /\ Last(acc.out).count = acc.active
             THEN [acc.out EXCEPT ![Len(acc.out)].end = t]
             ELSE Append(acc.out, [start |-> acc.at, end |-> t, count |-> acc.active])]

\* How many cards were in use, from one event to the next.
Segments(records, start, end) ==
    LET inUse == InUse(records, start, end)
        sorted == InOrder(Events(inUse), TimeOrder(Events(inUse)))
        sweep[k \in 0..Len(sorted)] ==
            IF k = 0 THEN [active |-> 0, at |-> start, out |-> <<>>]
            ELSE Swept(sweep[k - 1], inUse, sorted[k])
    IN sweep[Len(sorted)].out

GpuTime(segments) == Total([i \in DOMAIN segments |->
                              (segments[i].end - segments[i].start) * segments[i].count])

\* The days in which the record has an instant between start and end.
ObservedDays(record, start, end) ==
    LET a == Cut(record, start, end)[1]
        b == Cut(record, start, end)[2]
    IN IF b < a \/ a >= end \/ (b = a /\ record.start # record.end) THEN {}
       ELSE {a \div DayLength}
              \cup {d \in (a \div DayLength) + 1 .. b \div DayLength : d * DayLength < b}

Summary(records, start, end) ==
    [gpu |-> GpuTime(Segments(records, start, end)),
     active |-> Total([i \in DOMAIN Segments(records, start, end) |->
                         Segments(records, start, end)[i].end
                           - Segments(records, start, end)[i].start]),
     days |-> UNION {ObservedDays(r, start, end) : r \in records}]

ModelStatistics(records, start, end) ==
    [m \in {r.model : r \in records} |->
        Summary({r \in records : r.model = m}, start, end).gpu]

\* user_statistics, of one range; the order and the cut at twenty are left out.
UserStatistics(tables, rows, bindings, start, end) ==
    LET usage == ResolveUsage(tables, rows, bindings, start, end)
        of(owner) == {r \in usage : r.owner = owner}
    IN [owner \in {r.owner : r \in usage} |->
          [summary |-> Summary(of(owner), start, end),
           models |-> ModelStatistics(of(owner), start, end),
           tasks |-> {r.row[1] : r \in of(owner)},
           jobs |-> {r.key : r \in of(owner)}]]

\* activity_jobs: the same records by job.
ActivityJobs(records) ==
    [key \in {r.key : r \in records} |->
        LET items == {r \in records : r.key = key}
        IN [ids |-> {r.row[1] : r \in items},
            cards |-> {r.card : r \in items},
            segments |-> Segments(items, Min({r.start : r \in items}),
                                  Max({r.end : r \in items}))]]

-----------------------------------------------------------------------------
(* The activity page *)

\* current_status: by the latest snapshot [at, seen] of a node that is
\* connected, or by the tables.  A snapshot whose list of processes is not
\* complete tells nothing of those that it does not have.
JobStatus(job, status, latest, connected, complete, now) ==
    IF ~(latest # None /\ connected /\ now - latest.at < FreshFor)
    THEN IF status = "ended" THEN "ended" ELSE "unknown"
    ELSE IF \E use \in latest.seen : SessionId(use[1]) \in job.ids THEN "running"
    ELSE IF complete THEN "ended"
    ELSE "unknown"

Days(now) ==
    {[start |-> d * DayLength, end |-> AtMost(now, (d + 1) * DayLength)] :
        d \in PageStart(now) \div DayLength .. now \div DayLength}

Held(bindings, user, now) ==
    Merged({<<AtLeast(PageStart(now), b.from), AtMost(now, Else(b.to, now))>> :
              b \in {c \in bindings : c.user = user}})

\* Mutation: names are not taken to have been held before they were recorded.
EligibleAsRecorded(bindings, user, now) == Held(bindings, user, now)

\* When the user had an account, by uid or by name.
Eligible(bindings, user, now) ==
    LET names == {b.account : b \in bindings}
        history == UNION {LegacyBindings(bindings, account, PageStart(now)) : account \in names}
    IN Held(bindings \cup history, user, now)

Common(a, b, c, d) == AtLeast(0, AtMost(b, d) - AtLeast(a, c))

\* busiest_hours: the GPU time of each hour of the day, and for how long the
\* user had an account then; their quotient is what counts.
HourUsage(records, now, hour) ==
    LET spans == Segments(records, PageStart(now), now)
    IN Total([x \in Days(now) \X DOMAIN spans |->
                LET a == x[1].start + hour * HourLength
                    b == AtMost(x[1].end, a + HourLength)
                IN Common(a, b, spans[x[2]].start, spans[x[2]].end) * spans[x[2]].count])

HourExposure(eligible, now, hour) ==
    Total([x \in Days(now) \X DOMAIN eligible |->
             LET a == x[1].start + hour * HourLength
                 b == AtMost(x[1].end, a + HourLength)
             IN Common(a, b, eligible[x[2]][1], eligible[x[2]][2])])

InDay(r, day) ==
    r.start < day.end /\ (r.end > day.start \/ (r.start = day.start /\ r.end = day.start))

\* payload, for each day of the period and all models: the day's summary, and
\* its jobs.
DayPage(records, day) ==
    [summary |-> Summary(records, day.start, day.end),
     jobs |-> DOMAIN ActivityJobs({r \in records : InDay(r, day)})]
=============================================================================
