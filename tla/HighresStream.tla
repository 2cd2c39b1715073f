---------------------------- MODULE HighresStream ----------------------------
(***************************************************************************)
(* The high-resolution cache of GPU readings (highres.py), in the manager  *)
(* itself and in a sidecar process that follows the manager's stream       *)
(* (app.py highres_stream, highres_sidecar.py).                            *)
(*                                                                         *)
(* A snapshot that the manager accepted is [at, gpus]: its sampled_at and, *)
(* of each GPU in it, whether its basic metrics are valid, whether it has  *)
(* performance readings of the NVIDIA profile, and one metric of these     *)
(* (Blank: unavailable).  Its position in `accepted` is its identity.      *)
(***************************************************************************)
EXTENDS SampleRing

CONSTANTS Gpus,          \* those of one node
          MaxConnections,   \* bound: websockets of the stream
          None,
          QueueSize,     \* of a subscriber, 256
          MaxWire,       \* what a websocket buffers before send blocks
          Padding,       \* padding_seconds of a job curve
          MaxJob,        \* HIGHRES_MAX_JOB_SECONDS
          MaxPoints,     \* of a chart and of a performance curve, 5000
          FirstAt,       \* bound: the clock when the manager starts
          MaxSnapshots,  \* bound, in each deployment
          MaxOdd,        \* bound: snapshots that are not regular, likewise
          MaxBreaks      \* bound: websockets that fail

\* A request may ask for fewer points, but for 10 at least (performance_curves).
ASSUME StreamAssumption ==
    /\ MaxConnections \in Nat /\ QueueSize \in Nat /\ FirstAt \in Nat
    /\ None \notin 1..MaxConnections
    /\ Padding \in Nat
    /\ MaxPoints \in Nat /\ MaxPoints >= 5

\* Websockets are numbered in the order in which they are made.
Connections == 1..MaxConnections

VARIABLES deployment,   \* "manager": its own cache; "sidecar": both
          accepted,     \* history: what the manager accepted, in order
          odd,          \* history: how many of these were not regular
          cache,        \* the manager's HighresGpuCache
          streams,      \* of each websocket: its handler, queue and link
          sidecar,      \* the sidecar process
          breaks        \* history: websockets that failed

cacheVars == <<accepted, odd, cache>>
vars == <<deployment, accepted, odd, cache, streams, sidecar, breaks>>

-----------------------------------------------------------------------------
(* HighresGpuCache *)

EmptyCache == [basic |-> [g \in {} |-> EmptyRing], gpm |-> [g \in {} |-> EmptyRing]]

RingOf(rings, g) == IF g \in DOMAIN rings THEN rings[g] ELSE EmptyRing

Taken(id, snapshot, g) == [at |-> snapshot.at, id |-> id, value |-> snapshot.gpus[g].value]

\* GpuSampleRing for each GPU that is seen; it takes what is valid.
AddBasic(rings, id, snapshot) ==
    LET seen == DOMAIN snapshot.gpus
    IN [g \in DOMAIN rings \cup seen |->
          IF g \in seen /\ snapshot.gpus[g].valid
          THEN Write(RingOf(rings, g), Taken(id, snapshot, g))
          ELSE RingOf(rings, g)]

\* NvidiaGpmHighresCache.append: a ring for each GPU with performance readings
\* of the profile, which takes them even when they are unavailable.
AddPerformance(rings, id, snapshot) ==
    LET measured == {g \in DOMAIN snapshot.gpus : snapshot.gpus[g].gpm}
    IN [g \in DOMAIN rings \cup measured |->
          IF g \in measured THEN WriteOrdered(RingOf(rings, g), Taken(id, snapshot, g))
          ELSE rings[g]]

AddSnapshot(c, id, snapshot) ==
    [basic |-> AddBasic(c.basic, id, snapshot),
     gpm |-> AddPerformance(c.gpm, id, snapshot)]

\* The sidecar decodes the message that gpu_sample_message made of a snapshot.
AddSampleMessage(c, id, snapshot) == AddSnapshot(c, id, snapshot)

\* A job is [gpus, start, end]: its GPUs, started_at and last_seen_at.
NoCurve == [g \in {} |-> <<>>]

\* Mutation: only the newest reading is looked at.
CoversEnd(ring, job) == ring.count > 0 /\ NewestAt(ring) >= job.end

\* The ring has readings from the job's start or earlier to its end or later.
Covers(ring, job) ==
    ring.count > 0 /\ OldestAt(ring) <= job.start /\ NewestAt(ring) >= job.end

SeriesFor(c, g, since, until) == Points(RingOf(c.basic, g), since, until)

\* _highres_curve: every GPU of the job must be covered.
HighresCurve(c, job, since, until) ==
    IF \A g \in job.gpus : /\ g \in DOMAIN c.basic /\ Covers(c.basic[g], job)
                           /\ SeriesFor(c, g, since, until) # <<>>
    THEN [g \in job.gpus |-> SeriesFor(c, g, since, until)]
    ELSE NoCurve

\* NvidiaGpmHighresCache.query and metric_series_many, of one metric: the GPUs
\* asked for that have a ring, and the points that are drawn of each window.
PerformanceSeries(c, gpus, since, until) ==
    [g \in gpus \cap DOMAIN c.gpm |-> Downsample(Window(c.gpm[g], since, until), MaxPoints)]

\* _highres_performance_curve: likewise.
HighresPerformanceCurve(c, job, since, until) ==
    IF \A g \in job.gpus : g \in DOMAIN c.gpm /\ Covers(c.gpm[g], job)
    THEN PerformanceSeries(c, job.gpus, since, until)
    ELSE NoCurve

PaddedStart(job) == IF job.start > Padding THEN job.start - Padding ELSE 0
PaddedEnd(job) == job.end + Padding
Short(job) == job.end - job.start < MaxJob

\* What is served from memory, at the automatic resolution and for a job of
\* the last 7 days; NoCurve: from the rollups.
JobCurve(c, job) ==
    IF Short(job) THEN HighresCurve(c, job, PaddedStart(job), PaddedEnd(job))
    ELSE NoCurve

JobPerformanceCurve(c, job) ==
    IF Short(job)
    THEN HighresPerformanceCurve(c, job, PaddedStart(job), PaddedEnd(job))
    ELSE NoCurve

-----------------------------------------------------------------------------
(* The manager *)

\* Mutation: the publisher gives up at a subscriber whose queue is full.
PublishUntilFull(id) ==
    streams' =
        [c \in Connections |->
           IF streams[c].phase # "open"
              \/ \E d \in 1..c : streams[d].phase = "open"
                                  /\ Len(streams[d].queue) >= QueueSize
           THEN streams[c]
           ELSE [streams[c] EXCEPT !.queue = Append(@, id)]]

\* publish_snapshot: put_nowait into every queue; a full one loses it.
PublishSnapshot(id) ==
    streams' =
        [c \in Connections |->
           IF streams[c].phase # "open" THEN streams[c]
           ELSE IF Len(streams[c].queue) < QueueSize
           THEN [streams[c] EXCEPT !.queue = Append(@, id)]
           ELSE [streams[c] EXCEPT !.dropped = @ \cup {id}]]

\* agent_ws accepts a sample: its cache first, then the stream.
Accept(snapshot) ==
    LET id == Len(accepted) + 1
    IN /\ Len(accepted) < MaxSnapshots[deployment]
       /\ accepted' = Append(accepted, snapshot)
       /\ cache' = AddSnapshot(cache, id, snapshot)
       /\ PublishSnapshot(id)
       /\ UNCHANGED <<deployment, sidecar, breaks>>

Last == IF accepted = <<>> THEN FirstAt ELSE accepted[Len(accepted)].at

Plain == [valid |-> TRUE, gpm |-> TRUE, value |-> 1]
Regular == [at |-> Last + 1, gpus |-> [g \in Gpus |-> Plain]]

AcceptRegular == Accept(Regular) /\ UNCHANGED odd

\* The agent's clock stands still, is put back or ahead; a GPU has gone, its
\* basic metrics are invalid, or its performance is missing or unavailable.
AcceptOdd ==
    /\ odd < MaxOdd[deployment]
    /\ \/ \E at \in {Last - 1, Last, Last + 2} :
            at > 0 /\ Accept([Regular EXCEPT !.at = at])
       \/ \E g \in Gpus :
            \/ Accept([Regular EXCEPT !.gpus = [h \in Gpus \ {g} |-> Plain]])
            \/ \E r \in {[Plain EXCEPT !.valid = FALSE],
                         [Plain EXCEPT !.gpm = FALSE, !.value = Blank],
                         [Plain EXCEPT !.value = Blank],
                         [Plain EXCEPT !.value = 2]} :
                 Accept([Regular EXCEPT !.gpus[g] = r])
    /\ odd' = odd + 1

\* Mutation: a new subscriber is first given the latest snapshot.
SubscribeWithLatest(c) ==
    /\ streams[c].phase = "accepted"
    /\ streams' = [streams EXCEPT
                     ![c].phase = "open", ![c].first = Len(accepted) + 1,
                     ![c].queue = IF accepted = <<>> THEN <<>> ELSE <<Len(accepted)>>]
    /\ UNCHANGED <<deployment, cacheVars, sidecar, breaks>>

\* highres_stream after websocket.accept().
Subscribe(c) ==
    /\ streams[c].phase = "accepted"
    /\ streams' = [streams EXCEPT ![c].phase = "open", ![c].first = Len(accepted) + 1]
    /\ UNCHANGED <<deployment, cacheVars, sidecar, breaks>>

\* The handler's loop: queue.get(), then send_text, which blocks when the
\* websocket's buffers are full; what is sent into a dead one is gone.
Send(c) ==
    /\ streams[c].phase = "open"
    /\ streams[c].queue # <<>>
    /\ streams[c].link = "up" => Len(streams[c].wire) < MaxWire
    /\ streams' = [streams EXCEPT
                     ![c].queue = Tail(@),
                     ![c].wire = IF streams[c].link = "up"
                                 THEN Append(@, Head(streams[c].queue)) ELSE @]
    /\ UNCHANGED <<deployment, cacheVars, sidecar, breaks>>

\* _wait_for_disconnect or send_text notices; the finally block.
HandlerEnds(c) ==
    /\ streams[c].phase \in {"accepted", "open"}
    /\ streams[c].link # "up"
    /\ streams' = [streams EXCEPT ![c].phase = "ended", ![c].queue = <<>>]
    /\ UNCHANGED <<deployment, cacheVars, sidecar, breaks>>

-----------------------------------------------------------------------------
(* The sidecar and the network *)

\* Mutation: the manager has room for one subscriber.
ConnectAlone(c) ==
    /\ deployment = "sidecar"
    /\ sidecar.connection = None /\ ~sidecar.asleep
    /\ \A d \in Connections : d < c <=> streams[d].phase # "unused"
    /\ \A d \in Connections : streams[d].phase # "open"
    /\ streams' = [streams EXCEPT ![c].phase = "accepted", ![c].link = "up"]
    /\ sidecar' = [sidecar EXCEPT !.connection = c]
    /\ UNCHANGED <<deployment, cacheVars, breaks>>

\* HighresStreamClient._run_once: websockets.connect.
Connect(c) ==
    /\ deployment = "sidecar"
    /\ sidecar.connection = None /\ ~sidecar.asleep
    /\ \A d \in Connections : d < c <=> streams[d].phase # "unused"
    /\ streams' = [streams EXCEPT ![c].phase = "accepted", ![c].link = "up"]
    /\ sidecar' = [sidecar EXCEPT !.connection = c]
    /\ UNCHANGED <<deployment, cacheVars, breaks>>

\* One turn of `async for raw in websocket`.
Receive ==
    LET c == sidecar.connection
    IN /\ c # None
       /\ streams[c].wire # <<>>
       /\ LET id == Head(streams[c].wire)
          IN sidecar' = [sidecar EXCEPT
                           !.cache = AddSampleMessage(@, id, accepted[id]),
                           !.stored = Append(@, id)]
       /\ streams' = [streams EXCEPT ![c].wire = Tail(@)]
       /\ UNCHANGED <<deployment, cacheVars, breaks>>

\* The loop ends: without an exception after a normal close, so run_forever
\* connects at once; with one otherwise, and it sleeps first.
Disconnected ==
    LET c == sidecar.connection
    IN /\ c # None
       /\ streams[c].link # "up" /\ streams[c].wire = <<>>
       /\ sidecar' = [sidecar EXCEPT !.connection = None,
                                     !.asleep = streams[c].link = "broken"]
       /\ UNCHANGED <<deployment, cacheVars, streams, breaks>>

Wake ==
    /\ sidecar.asleep
    /\ sidecar' = [sidecar EXCEPT !.asleep = FALSE]
    /\ UNCHANGED <<deployment, cacheVars, streams, breaks>>

\* A websocket fails, or is closed, with some of its messages still to read.
Break(c) ==
    /\ breaks < MaxBreaks
    /\ streams[c].link = "up"
    /\ \E how \in {"broken", "closed"}, n \in 0..Len(streams[c].wire) :
         streams' = [streams EXCEPT ![c].link = how, ![c].wire = SubSeq(@, 1, n)]
    /\ breaks' = breaks + 1
    /\ UNCHANGED <<deployment, cacheVars, sidecar>>

NewSidecar == [connection |-> None, asleep |-> FALSE, cache |-> EmptyCache, stored |-> <<>>]

\* The sidecar is restarted: its cache is in memory.
RestartSidecar ==
    LET c == sidecar.connection
    IN /\ c # None /\ streams[c].link = "up" /\ breaks < MaxBreaks
       /\ sidecar' = NewSidecar
       /\ streams' = [streams EXCEPT ![c].link = "broken", ![c].wire = <<>>]
       /\ breaks' = breaks + 1
       /\ UNCHANGED <<deployment, cacheVars>>

-----------------------------------------------------------------------------
Unused == [phase |-> "unused", link |-> "none", queue |-> <<>>, wire |-> <<>>,
           first |-> 0, dropped |-> {}]

Init ==
    /\ deployment \in {"manager", "sidecar"}
    /\ accepted = <<>> /\ odd = 0
    /\ cache = EmptyCache
    /\ streams = [c \in Connections |-> Unused]
    /\ sidecar = NewSidecar
    /\ breaks = 0

Next ==
    \/ AcceptRegular \/ AcceptOdd
    \/ \E c \in Connections :
         Subscribe(c) \/ Send(c) \/ HandlerEnds(c) \/ Connect(c) \/ Break(c)
    \/ Receive \/ Disconnected \/ Wake \/ RestartSidecar

Spec == Init /\ [][Next]_vars

\* The handler's and the sidecar's tasks run when they can; a websocket that
\* has failed is noticed by the client's keepalive.  Nothing is assumed of
\* the manager noticing it, nor of agents or failures.
FairSpec ==
    /\ Spec
    /\ WF_vars(Receive) /\ WF_vars(Disconnected) /\ WF_vars(Wake)
    /\ WF_vars(\E c \in Connections : Connect(c))
    /\ \A c \in Connections : WF_vars(Subscribe(c)) /\ WF_vars(Send(c))

-----------------------------------------------------------------------------
(* Properties *)

Ids == 1..Len(accepted)

Kinds == {"basic", "gpm"}
Recent == INSTANCE RecentSamples WITH
    Series <- Kinds \X Gpus,
    recent <- [k \in Kinds \X Gpus |-> Readings(RingOf(cache[k[1]], k[2]))]

\* A ring is the last Capacity readings of its GPU in the order of their
\* arrival: before, at and after the write index wraps, for the basic and for
\* the performance readings, of which a snapshot may have either.
CacheKeepsRecent == Recent!Recent

\* Those of short jobs.
Windows == {w \in (0 .. Last) \X (1 .. Last + 1) : w[2] - w[1] \in 0 .. MaxJob - 1}

\* The bisected window of a performance ring is what reading all of it from
\* the oldest on would give, wherever the ring has wrapped and also after the
\* clock went back, when bisection would be wrong.
WindowIsExact ==
    \A g \in DOMAIN cache.gpm, w \in Windows :
        LET ring == cache.gpm[g]
        IN Window(ring, w[1], w[2]) = Scan(Readings(ring), w[1], w[2])

Ascending == \A i \in 1 .. Len(accepted) - 1 : accepted[i].at < accepted[i + 1].at

\* Those of a window that have a reading of GPU g; kind: "valid" or "gpm".
Within(w, g, kind) ==
    {i \in Ids : /\ accepted[i].at \in w[1]..w[2]
                 /\ g \in DOMAIN accepted[i].gpus /\ accepted[i].gpus[g][kind]}

IdsOf(curve) == {curve[k].id : k \in 1..Len(curve)}

Job(G, w) == [gpus |-> G, start |-> w[1], end |-> w[2]]

\* The padded window has more readings of GPU g than a curve has points, and
\* those of w are thinned out, but to no other values than they have: every
\* low and high one, and unavailable.
ThinnedOut(w, g, points) ==
    LET padded == <<PaddedStart(Job({g}, w)), PaddedEnd(Job({g}, w))>>
    IN /\ Cardinality(Within(padded, g, "gpm")) > MaxPoints
       /\ {accepted[i].gpus[g].value : i \in Within(w, g, "gpm")} \subseteq
            {r.value : r \in points}

\* If the clock never went back, a curve that is served from the manager's
\* memory has every reading of the job's own time, of each of its GPUs: what
\* the ring has overwritten is not passed over in silence.  A performance
\* curve is thinned out only when it would have too many points.
MemoryCurveIsWhole ==
    Ascending =>
        \A w \in Windows, G \in SUBSET Gpus \ {{}} :
            LET job == Job(G, w)
                curve == JobCurve(cache, job)
                performance == JobPerformanceCurve(cache, job)
            IN \A g \in G :
                 /\ curve # NoCurve =>
                      Within(w, g, "valid") \subseteq IdsOf(curve[g])
                 /\ performance # NoCurve =>
                      /\ Cardinality(performance[g]) <= MaxPoints
                      /\ \/ Within(w, g, "gpm") \subseteq {r.id : r \in performance[g]}
                         \/ ThinnedOut(w, g, performance[g])

\* A chart of a window has at most MaxPoints points, all of them readings of
\* the window, and keeps both its ends, the extremes, and that something is
\* missing: wherever the ring has wrapped, and after the clock went back.
ChartKeepsExtremes ==
    \A g \in DOMAIN cache.gpm, w \in Windows :
        LET since == PaddedStart(Job({g}, w))
            until == PaddedEnd(Job({g}, w))
            timeline == Scan(Readings(cache.gpm[g]), since, until)
            all == {timeline[i] : i \in 1..Len(timeline)}
            chart == PerformanceSeries(cache, {g}, since, until)[g]
            Values(S) == {r.value : r \in S}
        IN /\ Cardinality(chart) <= MaxPoints
           /\ chart \subseteq all
           /\ timeline # <<>> => {timeline[1], timeline[Len(timeline)]} \subseteq chart
           /\ Values(chart) = Values(all)

Increasing(s) == \A i \in 1 .. Len(s) - 1 : s[i] < s[i + 1]

\* Whatever happens to its connections, the sidecar stores no reading twice
\* and none after a later one.
SidecarInOrder == Increasing(sidecar.stored)

\* On a connection that works, a snapshot accepted since the subscription is
\* stored, on its way, or was lost when this subscriber's own queue was full,
\* and what is on its way comes in order, after all that is stored; other
\* subscribers, alive or half-open, have no part in it.
LossIsItsOwn ==
    LET c == sidecar.connection
    IN c # None /\ streams[c].phase = "open" /\ streams[c].link = "up" =>
         LET all == sidecar.stored \o streams[c].wire \o streams[c].queue
         IN /\ Increasing(all)
            /\ {id \in {all[i] : i \in 1..Len(all)} : id >= streams[c].first} =
                 (streams[c].first .. Len(accepted)) \ streams[c].dropped

\* Once websockets stay up, the sidecar is subscribed again and has all that
\* was accepted since and was not lost by its own queue, although the manager
\* may never notice that the old connection is dead.
SidecarCatchesUp ==
    deployment = "sidecar" ~>
        [](LET c == sidecar.connection
           IN /\ c # None
              /\ streams[c].phase = "open" /\ streams[c].link = "up"
              /\ (streams[c].first .. Len(accepted)) \ streams[c].dropped
                   \subseteq {sidecar.stored[i] : i \in 1..Len(sidecar.stored)})
=============================================================================
