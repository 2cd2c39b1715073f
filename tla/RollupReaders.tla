---------------------------- MODULE RollupReaders ----------------------------
(***************************************************************************)
(* What reads the rows that the sink (HistorySink) writes: the curves of   *)
(* jobs (highres.py, by the history queries of db.py), and the series, the *)
(* heatmap and the anomalies of a node (analytics.py).  A reader opens a   *)
(* connection of its own (app.py read_database), so a query sees what is   *)
(* committed: `rows`, in any state, with `clock` for time.time().          *)
(*                                                                         *)
(* A curve is the samples that the rows it is made of account for; its     *)
(* points are their buckets.                                               *)
(***************************************************************************)
EXTENDS HistorySink, FiniteSets

CONSTANTS JobLookback,      \* HIGHRES_JOB_LOOKBACK_SECONDS, 7 days
          MaxJobLookback,   \* JOB_MAX_LOOKBACK_SECONDS, 30 days
          LongSpan,         \* JOB_AUTO_2M_THRESHOLD_SECONDS
          Padding,          \* padding_seconds of a job curve
          CurveCaps,        \* the most points of a curve: the code has 20000
          LeastLimit,       \* 1000 points are never too many
          PointSlack,       \* 4 points more than the range has widths
          TargetPoints,     \* of a series, 560
          RecentSpan, AnomalySpan,   \* an hour, a day
          HeatmapWidths     \* of each range of a node page, in multiples of
                            \* every tier the range may be read from

Automatic == 0
Resolutions == {Automatic} \cup Tiers

-----------------------------------------------------------------------------
\* _rollup_filters: a row belongs to a range by the start of its bucket.
Within(t, s, node, since, until) == s.node = node /\ StartOf(t, s) \in since..until

InRange(i, t, node, since, until) ==
    {s \in rows[i][t] : Within(t, s, node, since, until)}

Starts(t, samples) == {StartOf(t, s) : s \in samples}
Before(t, samples, s) == {b \in Starts(t, samples) : b < StartOf(t, s)}

\* query_gpu_history and query_nvidia_gpm_history, of table i: ORDER BY
\* bucket_start ASC LIMIT, so that the oldest rows are read.
Query(i, t, node, since, until, limit) ==
    LET found == InRange(i, t, node, since, until)
    IN {s \in found : Cardinality(Before(t, found, s)) < limit}

\* _select_rollup_bucket, and _select_history_bucket: by the range's length.
TierForSpan(span) ==
    IF span <= Retention[1] THEN 1
    ELSE IF span <= Retention[2] THEN 2
    ELSE 3

\* Jobs of 7 days are read from the finest tier, which is kept for 7 days, and
\* those of 30 days from the last, kept for 365; the recent hour is in the
\* finest; a heatmap has whole rows of the tier of its range.
ASSUME ReadersAssumption ==
    /\ {JobLookback, MaxJobLookback, LongSpan, Padding, RecentSpan, AnomalySpan} \subseteq Nat
    /\ TargetPoints \in Nat \ {0} /\ PointSlack \in Nat \ {0} /\ LeastLimit \in Nat
    /\ \A cap \in CurveCaps : cap \in Nat /\ cap >= LeastLimit
    /\ JobLookback <= Retention[1] /\ RecentSpan <= Retention[1]
    /\ MaxJobLookback + Width[3] <= Retention[3]
    /\ \A span \in DOMAIN HeatmapWidths :
          /\ span \in 0..Retention[3] /\ HeatmapWidths[span] \in Nat \ {0}
          /\ HeatmapWidths[span] % Width[TierForSpan(span)] = 0

-----------------------------------------------------------------------------
(* Job curves: a job is of `node`, from `start` to `end`. *)

AutoTier(from, until) == IF until - from <= LongSpan THEN 1 ELSE 2

\* Mutation: an old job is read at the resolution that was asked for.
ResolutionAsked(resolution, start, from, until, now) ==
    IF resolution = Automatic THEN AutoTier(from, until) ELSE resolution

\* _job_resolution, and _auto_rollup_bucket when it leaves the tier open.
JobTier(resolution, start, from, until, now) ==
    IF start < now - JobLookback THEN 3
    ELSE IF resolution = Automatic THEN AutoTier(from, until)
    ELSE resolution

CeilDiv(x, y) == (x + y - 1) \div y

\* Mutation: the bucket in which the range begins is not counted.
ExactWidths(from, until, t) == (until - from) \div Width[t]

\* _rollup_point_limit: as many points as the range may have, but not above
\* the cap.
PointsWanted(from, until, t) == CeilDiv(until - from, Width[t]) + PointSlack

PointLimit(wanted, cap) ==
    LET capped == IF wanted < cap THEN wanted ELSE cap
    IN IF capped > LeastLimit THEN capped ELSE LeastLimit

\* job_curve: the range of the curve and its tier.
CurveOf(start, end, resolution, now) ==
    LET from == IF start > Padding THEN start - Padding ELSE 0
        until == end + Padding
    IN [from |-> from, until |-> until,
        tier |-> JobTier(resolution, start, from, until, now)]

\* _rollup_curve and _rollup_performance_curve: only an hourly curve begins at
\* the start of a bucket.
RollupCurve(i, node, curve, cap) ==
    LET t == curve.tier
        since == IF t = 3 THEN curve.from - (curve.from % Width[3]) ELSE curve.from
        wanted == PointsWanted(curve.from, curve.until, t)
    IN Query(i, t, node, since, curve.until, PointLimit(wanted, cap))

-----------------------------------------------------------------------------
(* Node pages: of the last `span`, without a limit on the rows *)

\* _target_bucket: enough for the number of points, in whole source buckets.
SeriesWidth(span, t) ==
    LET points == CeilDiv(span, TargetPoints)
        wanted == IF points > Width[t] THEN points ELSE Width[t]
    IN CeilDiv(wanted, Width[t]) * Width[t]

\* _grouped_rollups: the rows of tier t by windows of `width`.
GroupedRollups(i, t, node, since, until, width) ==
    LET read == InRange(i, t, node, since, until)
        windowOf(s) == (StartOf(t, s) \div width) * width
    IN [w \in {windowOf(s) : s \in read} |-> {s \in read : windowOf(s) = w}]

\* A chart of the last `span`, from the rows of tier t.
Chart(node, span, now, t, width) ==
    [tier |-> t, width |-> width,
     points |-> GroupedRollups(1, t, node, now - span, now, width)]

Series(node, span, now, t) == Chart(node, span, now, t, SeriesWidth(span, t))
Heatmap(node, span, now, t) == Chart(node, span, now, t, HeatmapWidths[span])

\* node_analytics
NodePage(node, span, now) ==
    {Series(node, span, now, TierForSpan(span)), Heatmap(node, span, now, TierForSpan(span))}

\* _anomaly_payloads judges a long job that goes on by its GPUs in the last
\* hour, or by its lifetime if history has nothing of that hour.
AverageOf(node, since, until) ==
    IF until <= since THEN {}
    ELSE InRange(1, TierForSpan(until - since), node, since, until)

Judged(node, start, end, now) ==
    LET recent == AverageOf(node, now - RecentSpan, now)
        rangeStart == now - AnomalySpan
        lifetime == AverageOf(node, IF start > rangeStart THEN start ELSE rangeStart,
                              IF end < now THEN end ELSE now)
    IN IF recent # {} THEN recent ELSE lifetime

-----------------------------------------------------------------------------
(* Properties *)

\* A sample that a reader of tier t cannot know of yet: it is in memory, or
\* in a finer tier only.
StillComing(i, t, s) ==
    s \in open[i] \/ \E u \in 1 .. t - 1 : s \in rows[i][u]

\* A finer curve may begin after the bucket with the job's start.
InReach(t, s, start) == s.at >= IF t = 3 THEN start ELSE start + Width[t]

HasBucketOf(t, samples, s) == \E u \in samples : SameBucket(t, s, u)

\* What a curve that is longer than the cap lacks: its newest points.
CutOff(curve, samples, s, cap) ==
    /\ PointsWanted(curve.from, curve.until, curve.tier) > cap
    /\ Cardinality(Starts(curve.tier, samples)) >= cap
    /\ \A b \in Starts(curve.tier, samples) : b < StartOf(curve.tier, s)

\* A job of the last 30 days, however old and at whatever resolution it is
\* looked at, has a point wherever history has something of its node: its
\* curve is not read from a tier whose rows are pruned, and no point is cut
\* but the newest of a curve that wants more of them than the cap.
JobCurveHasItsPoints(s, i) ==
    \A start \in 0..s.at, end \in {s.at, clock}, resolution \in Resolutions :
        start >= clock - MaxJobLookback /\ s.at <= end =>
            LET curve == CurveOf(start, end, resolution, clock)
            IN InReach(curve.tier, s, start) /\ ~StillComing(i, curve.tier, s) =>
                  \A cap \in CurveCaps :
                      LET samples == RollupCurve(i, s.node, curve, cap)
                      IN \/ HasBucketOf(curve.tier, samples, s)
                         \/ CutOff(curve, samples, s, cap)

\* The same of a node's charts; and no row reaches beyond the point that
\* counts it.
ChartHasItsPoints(s, chart, span) ==
    /\ s.at \in clock - span + Width[chart.tier] .. clock =>
          \/ \E w \in DOMAIN chart.points :
                s.at \in w .. w + chart.width - 1
                   /\ HasBucketOf(chart.tier, chart.points[w], s)
          \/ StillComing(1, chart.tier, s)
    /\ \A w \in DOMAIN chart.points : \A u \in chart.points[w] :
          StartOf(chart.tier, u) + Width[chart.tier] <= w + chart.width

\* A job that history has seen in the last hour is not judged by what it did
\* before.
JudgedByTheLastHour(s) ==
    s.at \in clock - RecentSpan + Width[1] .. clock =>
        \/ \A start \in 0..s.at :
              LET judged == Judged(s.node, start, s.at, clock)
              IN judged # {} /\ \A u \in judged : u.at >= clock - RecentSpan
        \/ StillComing(1, 1, s)

\* The curves of jobs, the charts of node pages and the anomalies find what the
\* history has of their time, through flushes, rollups and pruning at clocks
\* that differ from the reader's; but for the newest points of a curve that is
\* longer than the cap. (A query of /api/history/gpu, which names its tier, may
\* well ask for what was pruned.)
HistoryIsReadable ==
    \A s \in kept :
        /\ \A i \in Tables : s \notin open[i] => JobCurveHasItsPoints(s, i)
        /\ s \notin open[1] => JudgedByTheLastHour(s)
        /\ s \notin open[1] =>
              \A span \in DOMAIN HeatmapWidths :
                  \A chart \in NodePage(s.node, span, clock) : ChartHasItsPoints(s, chart, span)
=============================================================================
