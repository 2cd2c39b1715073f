# Constella in TLA+

Constella watches the GPUs of a cluster. A *manager* (FastAPI) holds a websocket
to one *agent* per node, shows the nodes' state to browsers, and writes their
readings to an SQLite history, from which it computes jobs, curves and hours of
use; a *sidecar* process may keep the high-resolution readings; a *lab*
extension adds users, node-account bindings, and requests that the manager makes
of an agent (an account lookup, a restart); scripts and a watchdog start all of
these. This directory models the parts of it whose correctness depends on
order, interleaving, failure or time, checks them with TLC, and proves the core
ones with TLAPS. All paths below are relative to the repository.

Contents: 1 inventory, 2 modules and how they correspond to the code, 3 runs,
bounds and results, 4 fairness and assumptions, 5 proofs, 6 disagreements
found and facts observed, 7 what is not modelled, 8 what is left.

## 1. Inventory

Python packages are under `src/packages/`: `backend/src/constella` (**b/**) and
`lab/src/constella_lab` (**l/**).

| Component | State it keeps | Operations | Hard behaviour | What makes it correct | Module |
|---|---|---|---|---|---|
| Cluster registry, `b/cluster.py` | `latest_by_node`: connection id, connected, last sequence, sample, error, last seen | `register_hello`, `ingest_sample`, `ingest_heartbeat`, `reject_sample`, `disconnect`, `_status`, `wait_for_update` | handlers of a replaced websocket still run; a reconnected agent numbers from 1 again | the last hello owns the node until its own end; readings never go back; a silent node shows offline | `ClusterRegistry` |
| RPC broker, `b/agent_rpc.py` | `_connections`, `_pending` futures | `register`, `unregister`, `account_lookup`, `restart`, the `resolve_*` methods | a connection is replaced while callers wait; an answer races a timeout | a call fails exactly when its own connection does; only a real answer resolves it | `AgentRpcBroker` |
| Manager endpoint, `b/app.py` `agent_ws`, `PATCH /api/settings` | one handler, bounded send queue and sender task per websocket; the settings | accept, first message, message loop, `finally`; `broadcast_config` | two structures updated one after the other; a full queue; a broadcast before the hello | registry and broker agree; agents end up with the settings | `AgentLink` |
| Agent service, `b/agent.py` | websocket, message and snapshot sequence, collector settings | connection loop, sender loop, receiver loop, restart by `execv` | two loops that fail independently; restart acknowledged on a dying websocket | an acknowledged restart happens; a live agent reconnects | `AgentLink` |
| Viewer websocket, `b/app.py` `cluster_ws` | last sequence sent | send on update or after 5 s, reconnect | a node goes offline by time alone, which wakes nobody | a viewer ends up showing what lasts | `ViewerFeed` |
| History sink, `b/db.py` `AsyncDBSink`, `SQLiteStore`, `b/performance_rollup.py` | queue, open 20 s buckets, rows of three tiers in two tables, schedule, retry time | submit, accumulate, flush, roll up, prune, close sessions, stop | several transactions per step; a step fails; crash; clocks of several machines | nothing accumulated is forgotten; a row is final; nothing is pruned before it is rolled up | `HistorySink` |
| History readers, `b/highres.py`, `b/analytics.py`, `b/db.py` | none | curves of jobs, node charts, anomalies | rows move between tiers while a page chooses one | what history has is found | `RollupReaders` |
| Process sessions, `b/db.py` | `process_sessions`, `process_gpu_usages` | open, refresh, close, reopen | late snapshots against `close_stale_sessions` | the tables are the summary of what was seen | `ProcessSessions` |
| Lab activity, analytics, `l/activity*.py`, `b/analytics.py` | none | jobs, owners, union of intervals, days, hours | touching and nested intervals; bindings that change within a use | equals the definition by points; the parts of a page agree | `UsageAccounting` |
| High-resolution cache, stream, sidecar, `b/highres*.py`, `b/performance_highres.py` | ring per GPU, one bounded queue per subscriber | append, query, downsample, broadcast, reconnect | wrap-around; a clock that goes back; a slow or half-open subscriber | a ring is the last readings; a query is exact; a loss is one's own | `SampleRing`, `HighresStream` |
| Lab store, `l/store.py` | users, identities, bindings, audit (SQLite) | log in, disable, promote, bind, end, reassign, migrate | legal calls in unusual orders | an active admin remains; one active owner per account | `LabStore` |
| Lab API, auth, node control, `l/api.py`, `l/auth.py`, `l/node_control.py` | a request's user and lookups; cooldown per node, audit | the store's requests; restart an agent | a user changes while a request waits; timeout after the agent acted | what a request writes still holds of its user; the audit says what is known, no more | `LabStore`, partly |
| Local services, `b/service.py` | pid files | start, stop, status | a command is cut off; an id is given to another process | at most one process per service, and its file tells of it | `ServiceControl` |
| SSH control, `b/cluster_control.py`; watchdog, `src/scripts/service/agent_watchdog.py` | pid file, lock and code of the agent on a node | start, stop, sync of remote agents | decisions on old observations; stale files | no second agent; an agent comes back | `NodeAgents` |
| Maintenance commands, `b/cli.py` `db ...` | none (the same database) | rollup, prune, vacuum | a second process between the sink's transactions | as for the sink | none |
| History reader, `b/history_reader.py` | semaphore of 2 | query | a cancelled query whose thread still runs | at most two threads read | none |
| Collector, `b/collector.py` | sampler, retry deadline, latest snapshot | sample, degrade, rebuild, stop | a thread samples while the task is cancelled | a preferred sampler is retried; handles close after use | none |
| Samplers, `b/nvml*.py`, `b/dcmi.py`, `b/npu.py`, `b/procfs.py` | driver handles | read | none between actors | parsing | none |
| Schema, telemetry, filters, `b/schema.py`, `b/telemetry.py`, `b/process_filter.py` | none | validate, convert | none | field by field | none |
| Browser, `src/frontend/src`; terminal UI, `src/packages/tui` | one socket, timers | connect, probe, retry, hide | events of a retired socket | one live socket | none |

**How they interact.** An agent connects a websocket and sends `hello`, then
samples and heartbeats; `agent_ws` answers each message through the websocket's
send queue, updates the registry, registers the connection with the broker, and
submits each admitted sample to the sink's queue. The sink's thread writes rows
and sessions that the readers serve, and feeds the high-resolution cache, whose
stream the sidecar follows. `PATCH /api/settings` and the broker's callers put
messages into the same send queues. The lab asks the broker. Viewers wait on
the registry's event. Manager code runs on one event loop, so what it does
between two awaits is atomic; threads (sink, reader, collector), agents, the
network and other processes interleave with it.

`PROJECT.json` lists the hazards at their lines, with the properties that cover
them or the reason why none does.

## 2. Modules

### Agent link

`Identities` declares nodes and connection identities. `ClusterRegistry` and
`AgentRpcBroker` are the two classes: one record each, and an operator for each
method that takes the record and returns the new one. They have no actions of
their own, because a websocket handler calls several of their methods between
two awaits; `AgentLink` composes them, in the code's order, into one action per
atomic stretch of the handler.

| `AgentLink` | code |
|---|---|
| `latest`, `broker`, `settings` | `ClusterState.latest_by_node`, `AgentRpcBroker`, the manager's settings (a version number) |
| `handler`, `sendq` | progress of `agent_ws` for one websocket, and its `send_queue` |
| `link`, `up`, `down` | the websocket and what it buffers each way |
| `agent` | the agent process: websocket, `message_seq`, `last_snapshot_seq`, collector sequence, applied settings, which process it is, and whether `AgentRestartRequested` is unwinding it |
| `HandleHello` | first message: `register_hello`, `agent_rpc.register`, the `config` reply |
| `HandleSample`, `HandleHeartbeat`, `HandleAnswer` | one turn of the message loop with its ack; `QueueFull` leaves the handler through `finally` in the same step |
| `HandleDisconnect` | `WebSocketDisconnect` and the `finally` block |
| `Send`, `ChangeSettings` | the sender task; `PATCH` with `broadcast_config` |
| `Request`, `RequestTimeout`, `RequestReturns` | `_request` up to its await, `wait_for` giving up, and the caller waking |
| `Connect`, `SendSample`, `SendHeartbeat`, `ReceiveOther`, `ReceiveAsk`, `Notice`, `Exec`, `Crash` | `agent.py`'s loops, `os.execv`, a crash |
| `Break` | a websocket fails with an arbitrary prefix of its messages still to be read by the manager |

The agent may have given a websocket up while the manager still reads it, so
several handlers of one node coexist. A sample's payload is the pair <process,
collector sequence>, which is all that tells an older reading from a newer one;
whether the manager can decode it is a free Boolean. `served` and `missed` are
history variables: no guard reads them.

`NodeOwnership` is the abstract specification: a session takes its node over
when it begins and frees it when it ends, unless another has taken it over. It
knows neither messages nor sequence numbers. `AgentLink` implements it twice,
through `latest` (`RegistryOwnership`) and through `broker` (`BrokerOwnership`).

`ViewerFeed` puts one browser next to the link: `SendCluster` is one turn of
`cluster_ws`, which is due when the registry's sequence number has changed
(`_bump`, called by whatever tells the registry something) or when five seconds
have passed; a tick of the registry's clock is at least these five seconds.
`Reconnect` is a browser that connects again and keeps what it shows meanwhile.

### History sink

`HistorySink` models `AsyncDBSink` and the rollup and pruning methods of
`SQLiteStore`. A row stores sums and maxima of the samples of one bucket; here a
row *is* the set of samples it accounts for, so that a lost, doubled or replaced
sample shows. A tier of a table is a set of samples, grouped by `StartOf`.

| `HistorySink` | code |
|---|---|
| `queue`, `open` | `AsyncDBSink.queue`; `_rollup_20s` and `_nvidia_gpm_rollup_20s` |
| `rows` | `gpu_metric_rollups` and `nvidia_gpm_rollups`, tiers 20 s, 2 m, 1 h |
| `task`, `last`, `retry`, `phase` | where the thread is and the `now` it was given; `_last_*_at`; failures and retry time; `start` and `stop` |
| `Submit`, `Take`, `WriteNode` | `submit_node_snapshot`, the worker's `get` and accumulation, `write_node_snapshot` |
| `IdleMaintenance`, `Flush`, `RollUpTo`, `PruneRows`, `CloseSessions` | `_maintain` and the steps of `_run_scheduled_maintenance`, each of which may fail after any of its transactions |
| `Stop`, `Cancel`, `Halt` | `stop`: wait for the queue, cancel, wait for the thread, last flush |
| `Crash`, `Start` | the process dies, a new one opens the same database |

`RollupReaders` EXTENDS it with the readers, as operators on its state: a reader
opens a connection of its own and sees committed rows, in any state of the sink.
`RollupCurve` and `JobTier` are the curve of a job and its choice of a tier,
`NodePage` the series and heatmap of a node, `Judged` the averages by which the
anomalies judge a running job. A curve is the set of samples its rows account
for. `Query` reads the oldest rows up to a limit, as `ORDER BY bucket_start ASC
LIMIT ?` does, and `PointLimit` is the limit of a curve: as many points as its
range has widths (`PointsWanted`), but at most the cap of 20 000. With the
code's numbers only a curve that is asked for at 20 s and is of a job of more
than 4.6 days reaches the cap, and then it lacks its newest points:
`HistoryIsReadable` names exactly these as the exception (`CutOff`). The queries
of a node page have no limit.

`Timely` says how far apart the clocks may be for a bucket to be complete when
it is closed; it is a hypothesis of theorems, not an assumption of the module.

### Lab store

`LabStore` models the users and account bindings of `l/store.py` together with
the requests that change them. A transaction (under the store's lock) is one
action. A request is several: `LabAuthMiddleware` looks its user up once, the
handler goes by what it saw, and a handler that binds accounts also waits for
the agents' lookups in between.

| `LabStore` | code |
|---|---|
| `users`, `bindings` | `lab_users`, `lab_account_bindings` (history included) |
| `requests` | what a request in progress remembers: its user and role, the accounts it asked about and those not answered yet |
| `Authenticate` | the middleware with `resolve_identity`: first login, conflicting email, bootstrap admin |
| `AdminUpdate`, `MigrateIdentity`, `ChooseReadonly` | the store's methods of these names |
| `StartBinding`, `LookupAnswer`, `CreateBindings` | the handler up to its `gather`, each answer with `can_bind`, and the transaction |
| `EndBinding`, `StartReassign`, `Reassign` | the rest of the binding requests |
| `Refuse`, `Restart` | whatever ends without a change; the manager stops |
| `PostBindings`, `DeleteBinding`, `PatchUser`, `PostMigration`, `PostReassign` | the endpoints of `l/api.py`, with the ones above as their steps |

An identity is an issuer and a subject; `migrated:<user>`, the issuer that
`migrate_identity` leaves behind, is the user itself. `Conflicts` is both unique
indexes. A binding's `made` and `late` are history fields.

### High-resolution readings

`SampleRing` is the ring of one GPU (`GpuSampleRing`, `NvidiaGpmSampleRing`): the
write index, the order flag that is never reset, bisection or a scan, and the
downsampling of a chart. `RecentSamples` is the abstract specification: each
series is the last `Capacity` readings in the order of their storing, and
nothing is said of indices. `HighresStream` has the rings of a node's GPUs, the
broadcaster, the websocket handler and the sidecar's client.

| `HighresStream` | code |
|---|---|
| `cache` | `HighresGpuCache`: `basic` and `gpm` rings |
| `streams` | per websocket of `highres_stream`: the handler's progress, its subscriber queue, the websocket |
| `sidecar` | `HighresStreamClient`: connection, sleep before reconnecting, its own cache; `stored` is a history |
| `AcceptRegular`, `AcceptOdd` | an accepted sample: `add_snapshot` and `publish`; odd ones have a clock that jumped, a GPU less, invalid or unavailable readings |
| `Subscribe`, `Send`, `HandlerEnds` | the handler up to its subscription, one turn of its loop, its end |
| `Connect`, `Receive`, `Disconnected`, `Wake`, `RestartSidecar` | `run_forever`, `_run_once`, a new process |
| `Break` | a websocket fails or is closed; the manager may keep serving it |

A performance curve and a chart are the window, bisected from the ring, and
thinned out by `Downsample` when it has more than `MaxPoints` (5000) readings: at
the shortest refresh interval of 0.5 s a job of 42 minutes has more. A reading's
value is low, high or unavailable, which is what the thinning tells apart.
`Job`, `PaddedStart` and `PaddedEnd` are the window that a job's curve is asked for;
whether memory covers it is decided by the job's own time.

`deployment` is chosen once: without a sidecar the manager's rings wrap under
irregular snapshots, with one the stream matters, and together the state would
be too large. `CacheKeepsRecent` is the refinement of `RecentSamples`.

### Sessions, jobs and activity

`ProcessSessions` models the two process tables of one node with the queue in
front of them; `Write` is `write_node_snapshot`, `CloseStale` is
`close_stale_sessions`. `UsageAccounting` holds what is computed from the tables,
as operators on them: `job_key`, the job list and `get_job` with its prefilter
(`GetJob`), the overview's rankings (`RankedJobs`), the owners of a use
(`ResolveUsage`: bindings by uid, or by name with a first binding that reaches
back), the union of overlapping sessions and its segments (`Merged`,
`Segments`), and the activity page with its days, jobs and busiest hours.

A snapshot is a time and the set of pairs <process, GPU> that it shows. History
variables (`observed`, `sampled`, `shown`) remember what was written; the
properties define owners, cards in use and totals instant by instant from them,
and compare.

### Operations

`PidFiles` has the processes of one machine, the files with their ids, and the
commands on it; `ServiceControl` adds `constella service` on the manager's host
(`b/service.py`), `NodeAgents` the scripts that `b/cluster_control.py` and the
watchdog run on a node; `Operations` composes them with the faults.

| `Operations` | code |
|---|---|
| `procs`, `pidfile` | live processes (what they run, whether they got SIGTERM, in which copy of the code); `*.pid` files |
| `jobs` | commands in progress, one action per step between two looks at the world |
| `lock`, `runtime` | `agent-watchdog.lock`; the agent's code, `agent.env` and `start_agent.sh` on the node, each absent, in part or whole |
| `CheckPidFile`, `Spawn`, `WritePidFile`, `ManagerAnswers` | `start_process`, `wait_for_manager` |
| `ReadPidFile`, `Kill`, `SeeGone`, `StillStopping` | `stop_process` |
| `ClusterStart`, `RemoveRuntime`, `UnpackRuntime` | `start_node`, which sends the code again or does not; `_sync_agent_runtime`, whose `rm` may fail unnoticed and whose `tar` may fail half way |
| `EmptyRemoteFile`, `FillRemoteFile` | `_write_remote_file`, of `agent.env` and then `start_agent.sh`: `cat >` empties the file first; a failing `cat` is hidden by `chmod`, a failing SSH is not |
| `Script...`, `TruncatePidFile`, `Stop...` | `start_agent.sh`, its `echo $! >` in two steps (as `write_text` of `start_process`), `render_stop_command` |
| `WatchMissing`, `WatchStale`, `WatchNotProvisioned`, `WatchLocks`, `WatchLooks`, `WatchScans` | `check_once`, and the script it runs: nothing to start, lock, pid file with its refusals, `/proc` |
| `Crash`, `Reuse`, `Reboot`, `Abort` | faults: an id goes to a process of the same user (`Other`) or of another (`Stranger`), a loss of power may leave an empty file, a command is cut off |

A pid file that was opened for writing and not yet written is `Torn`. For
`kill -0` in the shell scripts (`MaySignal`) another user's process does not run; for
`pid_running` and `/proc` (`Running`) it does.

`orphaned` (processes that no command came to write down) and `overlapped`
(commands ran at once) are history variables.

## 3. Runs

Every run takes about a minute or less with two workers.

| Run | Question | Result |
|---|---|---|
| `traffic` | One node, two websockets, two agent processes, samples, heartbeats and one settings change: is a fresh sample ever taken for a duplicate, a reading ever replaced by an older one, a served agent left with old settings without a lost broadcast? | no: `TypeOK`, `OwnerIsHeard`, `SettingsReachAgent`, `ReadingsMoveForward` |
| `calls` | Two nodes, three websockets, a restart and a lookup at once: do registry and broker agree and the broker implement `NodeOwnership`; does a call end with its own connection and no other; is an accepted restart real? | yes: `Agreement`, `NoOrphanCall`, `CallFailsWithItsConnection`, `AcceptedRestartIsReal`, `BrokerOwnership` |
| `liveness` | Fair loops, and a browser: `SilenceShowsOffline`, `StableAgentOwnsNode`, `AcknowledgedRestartHappens`, `ViewersSeeWhatLasts` | all hold |
| `lost_config` | Does an agent that stays connected get the last settings? | no, see 6 |
| `history` | Two tables and all tiers, two agents with one clock behind, a failing transaction, a stop or a crash, restarts, and readers at any time: `TypeOK`, `NothingForgotten`, `PrunedWhenRolledUp`, `FlushedBucketsAreFinal`, `HistoryIsReadable` | all hold |
| `cut_window` | Does a rollup row keep its samples until it expires? | no, see 6 |
| `lab_users` | Two users who come with the same email, two accounts of one node, two requests at once: owners, the last admin, identities, history | all hold: `TypeOK`, `OneOwner`, `InactiveHoldOnlyLate`, `AdminRemains`, `IdentityKeepsUser`, `HistoryIsFinal` |
| `lab_stale` | Does a user who is not active hold no binding? | no, see 6 |
| `highres` | Rings that wrap under an irregular clock; a sidecar whose websocket fails while the manager may keep the old one: `CacheKeepsRecent`, `WindowIsExact`, `MemoryCurveIsWhole`, `ChartKeepsExtremes`, `SidecarInOrder`, `LossIsItsOwn`, `SidecarCatchesUp` | all hold |
| `sessions` | Two processes of one shell, late snapshots, stale sessions, bindings that change: `TablesTellObserved`, `JobFoundByItsKey`, `OneOwnerPerInstant`, `ActivityIsExact`, `PagePartsAgree`, `StaleSessionsEnd` | all hold |
| `ranked_jobs` | Do the overview's rankings know jobs by the keys of the job list? | no, see 6 |
| `operations` | Starts, stops, the watchdog, crashes, reboots, reused ids, commands cut off: `OneOnFile`, `WatchdogStartsNoSecond`, `NodeComesBack` | all hold |

**Bounds of the link.** Two websockets of one node are a replaced connection and
its successor; the third of `calls` belongs to the other node and shows that
nodes do not disturb each other. Queues of two hold a reply and a broadcast, so
that full, partly full and empty all occur (128 in the code). Two samples and
two processes are what it takes for a message of an old connection to carry a
sequence number of the new one. `MaxAge` only caps a counter that is compared
with `StaleAfter` and `OfflineAfter`; `liveness` lets it pass both. There,
queues of one are enough for what lasts, and `MaxIncarnation` 0 means that a
process is replaced by an acknowledged restart only (crashes are in `traffic`).
Symmetry of websockets is used in `traffic` alone, which checks no liveness and
has one node. The proofs of section 5 hold without any of these bounds for the
properties they cover, the registry's refinement (`RegistryOwnership`) included.

**Bounds of the sink.** A unit of the clock is 20 s. The upper tiers are two
units wide rather than 6 and 180, and the tiers expire after 4, 5 and 8 units:
what matters is that a window has several rows below it, that a tier is kept
longer than the flush, the rollup and its interval need, and that pruning cuts
through a window; six units of time reach all of these, and `cut_window`, which
has one agent and no faults, goes to nine. Two samples are enough for one row to
replace another, and one agent's clock is behind by as much as `Timely` allows, so
that the manager's idle maintenance closes its bucket at the last moment. (An
agent whose clock is ahead closes the buckets of others, which takes a third
sample to see: the theorems of section 5 about rows cover every skew that `Timely`
allows.) One failure and one
stop or crash hit every step in turn; a queue of one is full as soon as it holds
a sample. The readers' spans (4 and 6 units of lookback, a page of 4 or 5, an
hour of 3) lie around the retentions as the code's do, so that a page asks for
more than the finest tier keeps, and a job is looked at that is older than that.
A curve is read with caps of one and of two points, of which the first cuts
curves of two rows and the second does not.

**Bounds of the lab.** Two users are an admin and one who is demoted, disabled,
reviewed or migrated; they come with one email, so that each login meets the
other's (that a login under a different email changes nothing is covered by the
theorem `IdentityAlwaysKeepsUser`). Two requests are one that waits and one that
changes things meanwhile. Two accounts of one node conflict in both ways (same
account, same user and node), and two transactions make a binding and what would
collide with it. Users, subjects, requests and the two accounts are symmetric.
Batches of several accounts need several nodes: the theorems of section 5 cover
them.

**Bounds of the high-resolution readings.** Without a sidecar: a ring of seven
(86 400 in the code) and eight snapshots, so that it wraps. Jobs are up to two
units long with a padding of two on either side, so that a padded window holds six
or seven readings, more than the five points that a chart or a performance curve
may have: both are thinned out there, before and after the wrap (without the
disjunct `ThinnedOut`, `MemoryCurveIsWhole` is violated). Charts of more buckets are
covered by the theorem.
At most two snapshots are irregular: a jump of the clock and one that the bisection
then has to survive. With a sidecar: four snapshots, two websockets, one break or
restart, queues and wire of one: full and empty occur on either side.

**Bounds of the sessions.** One process has neither a readable start time nor a
uid; the other may lose its parent, which changes its job. Of three GPUs two
are dies of one card. Four snapshots and four uses between times 2 and 6 give
overlapping, touching, nested and separate uses, and a session that is closed
and seen again (stale after one unit, a queue of one). A day is two units, an
hour one, a page two days. The three histories of bindings have a handover
at an instant, a gap, and two uids under one name.

**Bounds of the operations.** Three ids on the host and two on a node, two
commands at once, three commands of an operator on the host and two on a node
(the watchdog's on a node that has no agent are not counted), and two faults: an
id is reused, a command is cut off and another one meets what it left. The manager and the sidecar stand for the services of
`b/service.py`; the local agent is started and stopped as the sidecar is.
`OneOnFile` and `WatchdogStartsNoSecond` are proved without these bounds.

Deadlock is checked in the lab, where nobody can be stuck. In the other runs the
bounded models stop once the bounds on settings, messages, snapshots, commands
and time are used up, and the real system idles in the same way.

## 4. Fairness and assumptions

`FairSpec` asks for weak fairness of: each handler's next message, each sender
task, each agent's reconnection, receiver, sender, noticing a dead websocket
and `execv`, each caller's timeout or return, and the clock. These are tasks of
`asyncio` event loops, which run whatever is ready, loops that retry for ever
(`_connection_loop`), `wait_for`, and time. Nothing is assumed of failures,
crashes, administrators or new readings, nor that the manager ever learns that a
websocket is dead: `HandleDisconnect` has no fairness, so a half-open websocket
may stay served for ever, and the liveness properties hold all the same.
`FeedSpec` adds that the viewer's handler gets its turns.

`HelloInOrder` (a constant) says that the hello of a websocket that the agent
has abandoned reaches the manager before the next connection is made, or never.
With `FALSE`, as in `calls`, every safety property of that run still holds, but
`StableAgentOwnsNode` does not: the late hello takes the node over and keeps it
until the dead websocket is noticed. The agent's backoff between connections
makes the assumption reasonable without guaranteeing it. `OwnerIsHeard` and
`ReadingsMoveForward` are checked with `TRUE`.

So that a late hello costs a node its live agent is a hazard without a property
(`b/cluster.py:126` in `PROJECT.json`): nothing in the code protects against it.
The same holds of two commands that overlap (`b/service.py:273`): `OneOnFile` is
about commands that did not.

`KeepsUp` says that a sample leaves the sink's queue within `MaxBehind` units.
`NothingForgotten` and `FlushedBucketsAreFinal` need the spread of the clocks
plus `MaxBehind` to stay within one 20 s width, the code's safety lag (`Timely`).
The agents' own clocks are not corrected by the manager, so this is an
assumption about the cluster (NTP), not a guarantee of the code. Beyond it a
bucket is flushed before its samples are in, and its row is replaced by the later
part: maintenance runs at `max(time.time(), sampled_at)`, so that one agent whose
clock is ahead by more than the lag closes the open buckets of all nodes, and a
backlog of more than 20 s in the queue does the same. With an
agent that is behind by two units `history` finds `FlushedBucketsAreFinal`
violated. `HistoryIsReadable` is checked and proved for agents that are not ahead
(section 5 says why).

`HighresStream` (`FairSpec`) assumes that the handler's and the sidecar's tasks
run and that the client's keepalive notices a websocket that failed
(`Disconnected`); `HandlerEnds` has no fairness, so the manager may keep a dead
subscriber for ever. `ProcessSessions` assumes that the sink's thread takes what
is queued and closes stale sessions again and again (its timer); no new snapshot
is assumed. `StaleSessionsEnd` is about jobs on GPUs whose latest readings list the processes
completely; where a listing is incomplete, `job_status` says unknown, and the property
says nothing. The agent's clock and the manager's agree there and do not go back.
`Operations` assumes for `NodeComesBack` that processes obey SIGTERM, that the
scripts on a node run to their end unless they are cut off (they are loops with
a bound), and that the watchdog checks again and again; nothing is assumed of
operators or of the manager's host. A node is taken to have a Python of 3.10 or
later. `NodeComesBack` has four exceptions, each of which the code really meets
and which only an operator's start mends: the code, `agent.env` or
`start_agent.sh` is incomplete, because a start failed or was cut off on the way
or there never was one; the pid file is empty, because the script that wrote it was
cut off or the power was lost, and the watchdog refuses such a file on every
check; or the id in the file is now another process's.

## 5. Proofs

`AgentLinkProofs` proves, for all nodes, websockets, calls, capacities and
bounds:

- `TypeCorrect`: `Spec => []TypeOK`.
- `LinkInvariant`: the inductive invariant. A runtime names only a connection of
  its own node whose handler was served; it is connected exactly while that
  handler is serving; the broker names that same connection and no other; a
  waiting call is on the connection registered for its node. None of the
  properties below is inductive alone: to see that a `finally` block leaves
  both structures in agreement one needs to know that the node's runtime names
  either this connection or one that is still served, and that is what the
  other conjuncts carry.
- `AgreementAlways` and `NoOrphanAlways`: `Agreement` and `NoOrphanCall` follow
  from it.
- `BrokerImplements` and `RegistryImplements`: the refinements of
  `NodeOwnership`, as step simulation. `HandleHello` maps to `TakeOver`, or to
  `Abort` when the reply finds the queue full; whatever ends a served handler
  maps to `End`; a handler that never saw a hello maps to `Abort`; everything
  else stutters.

The proof relies on `LinkAssumption`, `RegistryAssumption`, `BrokerAssumption`
and `IdentityAssumption` only, with no fairness and for either value of
`HelloInOrder`. It goes operator by operator (what `RegisterHello`, `Disconnect`,
`Register`, `Unregister`, `Resolve` preserve), then action by action. The next
two modules extend it and have the same assumptions.

`AgentCallsProofs` is about the calls over a connection:

- `CallsInvariantAlways`: `CallsInvariant` on top of types and `LinkInv`. A call's
  record names a connection of its node that has been served, and no longer the
  registered one once it has failed (`RecordInv`); requests and answers on their
  way are of the kind and the node of the call whose id they bear, and an answer
  to a restart was put there by a process of that node that is unwinding or
  replaced (`TrafficInv`). The outcome of a call is decided by an answer that
  was sent many steps before, which is why what travels is part of it.
- `FailsWithItsConnectionAlways` and `AcceptedRestartAlways`:
  `CallFailsWithItsConnection` and `AcceptedRestartIsReal` follow.

`AgentReadingsProofs` is about samples and settings:

- `ReadingsInvariant`: the messages of a connection are numbered in the order in
  which they were sent, their samples are in the order in which they were
  collected, none is newer than the process that sends it, and the number of the
  last message heard from a served connection is below those of all that it
  still carries. `OwnerIsHeardAlways` follows: `apply_snapshot` never has a reason to refuse what the current
  connection delivers.
- `ReadingsForwardAlways`: `ReadingsMoveForward`, with the hypothesis
  `HelloInOrder` that section 4 explains; without it an older connection's
  sample may replace a newer one.
- `SettingsReachAgentAlways`: what is on its way to an agent ends with the current
  settings, or the agent has them, or the connection lost a broadcast.

`HistorySinkProofs` proves, for all agents, clocks, widths, retentions and
bounds:

- `SinkTypeCorrect`: `Spec => []TypeOK`.
- `SinkInvariant`, under `Timely`: the time a pass works with has been reached by
  some clock (`TaskInTime`); a queued sample is at most `MaxBehind` old
  (`QueueInTime`); a row's bucket is closed (`FlushedIsClosed`); and a bucket
  that is in a row and still in memory, because its flush failed after this
  table's transaction, is the same in both (`FlushedIsWhole`). The last one is
  what makes a retried flush harmless: the upsert of ready buckets is then a
  plain union (`FlushIsUnion`), so it drops nothing and changes no row. The
  middle two are what keeps it true when a sample arrives: its bucket is not
  closed by any clock, so no row of it exists.
- `NothingForgottenAlways` and `FlushedBucketsStayFinal` follow. Both need
  `Timely`: section 4 says what happens beyond it.
- `WaitingInvariant` and `PrunedWhenRolledUpAlways`, with the hypothesis
  `TiersLast` besides: the tiers are some widths apart and are kept for longer
  than three windows of the next one. Lemma `CodeTiersLast` shows that the
  code's 20 s, 2 m and 1 h, kept for 7, 60 and 365 days and flushed every 10 s,
  satisfy it. `ScheduleInv` says what a pass can rely on: each step before the
  current one has been done or was not due (`OnSchedule`), and the hourly rows
  are made of 2 m rows that are up to date (`HourlyFollows`). `WaitingInv` says
  what waits: a sample that its next tier has not got is of a window that was
  open when that tier was last made (`Follows`), a sample in memory is of
  windows that were open then (`OpenIsLate`), and a 2 m row that outlives its
  20 s rows is in the 1 h tier (`Kept`). The last one is what makes the
  partial rollups of disagreement 2 lose detail only: what a rollup drops from a
  2 m row, an hourly row has. The proof goes by tables: what a flush, a rollup
  to either tier and pruning do to one table (`FlushedTable`, `RolledTo2`,
  `RolledTo3`, `PrunedTable`); a failed pass is any part of that.
- `ReachedInvariant`, with the same hypotheses: for a reader of the 2 m or the
  1 h tier, a kept sample is still coming (in memory or in a finer tier), has a
  row of its bucket there, or has expired there (`Reached`). `WaitingInv` does
  not say so, because a partial rollup may drop the sample from a row; what
  holds is that the row of its bucket stays until it expires (`BucketsStay`,
  proved of a rollup, of pruning, and of any part of a failed pass).
- `HistoryIsReadableAlways`, with the further hypothesis `NobodyAhead`: no agent's
  clock is ahead of the manager's. Jobs up to `JobLookback` old are read from the
  finest tier, whose retention is the same 7 days, and a pass runs at the date
  of the sample it writes if that is later than the manager's; an agent that is
  ahead therefore has rows pruned that much before the readers stop asking for them. The rest is what
  a reader asks of a range (`RangeFinds`): the tier it chooses lasts for as long as its range
  (`TierOfSpan`, `ReadersAssumption`), an hourly curve begins at the start of a
  bucket (`WindowNotBefore`), and the windows of a chart are of whole rows, so no
  row lies across two of them (`WindowHolds`, `SeriesHasWholeRows`). For the limit
  of a curve, for every cap: a query's rows are the oldest (`OldestFirst`), a range
  has no more starts of buckets than `PointsWanted` (`StartIsMultiple`,
  `WidthsBetween`, `PointsSuffice`), so that below the cap nothing is cut, and above
  it nothing but what is newer than all that was read (`JobCurveFinds`).

It relies on `SinkAssumption`, `ReadersAssumption` (how far back the readers look,
against the retentions; the widths of the heatmaps are multiples of the tier
they are read from), `Timely`, from `WaitingInvariant` on `TiersLast`, and for the
last one `NobodyAhead`. The
run `history` keeps its tiers for less than `TiersLast` asks for and finds
`PrunedWhenRolledUp` true there too; the new invariants were checked on an
instance of their own with widths of 1, 2 and 6 units, kept for 19, 21 and 27.

`LabStoreProofs` proves all six properties of `lab_users` for any number of
users, accounts, nodes and requests:

- `StoreTypeCorrect`: `Spec => []TypeOK`.
- `StoreInvariant`: types, `OneAccountPerNode` (a batch in progress names a node
  once, which `create_bindings` relies on and only the handler checks),
  `OneOwner`, `InactiveHoldOnlyLate` and unique identities. `OneOwnerAlways` and
  `InactiveHoldOnlyLateAlways` follow.
- `AdminAlwaysRemains`, `HistoryStaysFinal` and `IdentityAlwaysKeepsUser`: the
  action properties. The last one needs unique identities before the step.

The lemmas `BindingCases`, `StatusCases` and `IdentityCases` say once which
actions can touch bindings, a status and an identity; the proofs of the
properties go by those cases. It relies on `StoreAssumption` only (no row is not
a row, no user is the issuer of logins).

`OperationsProofs` proves for any number of services, ids, commands, crashes,
reboots and cut-off commands:

- `OneOnFileAlways`. The inductive invariant `IInv` says besides types: commands
  that have run with others made `overlapped` true, watchdogs excepted (`Alone`);
  a watchdog's script that is past its lock holds it (`Locked`); and, while
  nothing has overlapped, each service has at most one process to tell of, on
  file or in the hands of the command about to write it (`OnFile`), none where a
  command is about to make one or to remove the file (`Cleared`), and none other
  than a command knows of once it has found or made one (`Known`). `Cleared` and
  `Known` carry what a command has read in an earlier step. `CommandKeeps` says
  once what any step of one command has to show; the actions then go by whether
  they rest, remove a file, make a process or write it down.
- `WatchdogStartsNoSecondAlways`, from `IInv` with `OnPath` and `Scanned`: since
  the watchdog's script looked at the processes there is no agent, because all
  that could make one is waiting for the lock.

It relies on `OperationsAssumption` only.

`HighresProofs` proves for any ring capacity, GPUs, websockets and queue sizes:

- `OrderedRingsAscend`: a performance ring that counts as ordered is in the order
  of its times, whatever was refused, overwritten or wrapped: the precondition
  of the bisection in `_window`.
- `CacheImplements`: the refinement of `RecentSamples`. `Write` appends to the
  readings of a ring and drops the oldest of a full one (`WriteReadings`); a
  snapshot then stores, per kind and GPU, what the abstract cache keeps.
- `StreamsInvariant`: `ManagerInv` (types and rings that hold what `count` and
  `writeIndex` say) and `StreamInv`: what the sidecar stored, what the websocket
  carries and what the queue holds is one increasing sequence, each part of it
  begins after `first`, and a snapshot since `first` that is in none of the three
  is in `dropped` (`NothingElseIsLost`).
- `SidecarInOrderAlways` and `LossIsItsOwnAlways` follow.
- `ChartKeepsExtremesAlways`: `DownsampleKeeps` is a theorem about `Downsample` for
  every timeline and every number of points from five up. The timeline is cut
  into buckets by quotients that grow with the index (`QuotientGrows`), every
  reading is in one of at most `(MaxPoints - 2) \div 3` of them
  (`BucketsSuffice`), and a bucket keeps three readings at most, among them its
  least, its greatest and a missing one (`KeptOfBucket`). The spec contributes
  that the bisected window is the scan (`WindowIsScan`), which `ChartOfWindow` takes
  to the chart of any window.
- `WindowIsExactAlways`: `WindowIsScan` is about any ring that satisfies `RingOK`
  and `OrderTold`. `Bisect` is a recursive function, so the proof first shows that
  one exists: where what is `before` comes first, the result of halving has a
  closed form (`Ends`), and a function with these values satisfies the equation
  (`HalvingEnds`). That every such function has them is shown by a shortest range
  on which one would not (`SearchEnds`, `OneEnd`, `EndOfHalf`), which gives
  `BisectEnds`. A selection of consecutive readings is a slice of them
  (`SelectedInterval`), and reading on from an index either stays within the
  slots or goes on at slot 0 (`IndexFrom`).
- `MemoryCurveIsWholeAlways`, from the further invariant `SeriesTell`: the readings
  of a ring carry the numbers of their snapshots in ascending order and with
  their times, and a snapshot that showed the GPU is in the ring or older than
  all that is (`Tells`). Storing a reading keeps that whether or not the oldest
  one goes (`TellsWith`), and so does a snapshot without one (`TellsWithout`).
  With ascending times, a reading of the job that the ring lost would be older
  than its oldest one, which `Covers` excludes; the others are in the scan
  (`ScanHasAll`), and `WindowIsScan` takes that to the bisected window. A performance
  curve of more than `MaxPoints` readings is thinned out: the window then really has
  that many (`ScanHasOnly`, with `Ranks` to count them), and `ChartOfWindow` says which
  values are left.

It relies on `RingAssumption` and `StreamAssumption`: bounds and sizes are
numbers, the padding too, no connection is not a connection, and `MaxPoints` is at least five
(job curves ask for 5000, the other endpoints for ten or more; with four, a first, a
last and the three readings of one bucket do not fit).

`SessionsProofs` proves for any processes, GPUs and histories of bindings:

- `TablesInvariant`: what is queued is later than what is written (`QueueInv`),
  and every row of `process_sessions` and `process_gpu_usages` sums up the
  written snapshots that showed it: their first, their last and their number
  (`Summarises`, `SessionsInv`, `UsagesInv`). `TablesTellObservedAlways` follows.
- `OneOwnerAlways`: `OneOwnerPerInstant`. It is a theorem about `ResolveRow` for
  every row with `first <= last`: the instants are cut at the edges of uses
  and bindings; between two neighbouring edges no binding begins or ends
  (`OwnerAt` is constant there); and every instant lies between exactly two
  neighbouring edges, which needs that a set of natural numbers has a least
  element. `HasLeast` proves that from the library's theorem that strict
  inclusion of finite sets is well-founded, which takes no operator parameter.

- `JobFoundAlways`: `JobFoundByItsKey`, from `TablesInv` alone. A job's key is its
  first row's; `GetJob` reads fewer rows than a list does, so the proof shows
  that each row the list grouped under a key is one that `GetJob` finds by it
  (`RowIsFound`, `JobOfKey`), for job lists (`ListedJobs`) and for activity pages
  (`PageIsFound`, `ActivityIsFound`), and that the times of a job cover those of
  its rows (`JobTimes`); `NobodyMeanwhile` is about the sessions beside it.
- `FiniteInvariant`: `TablesInv`, and the tables and the queue hold finitely many
  rows (`FiniteInv`), so that what is computed from them can be counted.
- `ActivityIsExactAlways`: `ActivityIsExact`, by counting. A total is a number of
  pairs, so that equal totals are equal finite sets (`Counted`, `Family`). Sorting
  is an order of a finite set (`SortedInOrder`); the loop of `union` keeps the
  spans it has apart and covers exactly the points of those it was given
  (`MergedApart`); and the sweep over the events has at every event as many cards
  as spans that have begun and not ended (`SegmentsAreOf`). So a segment's count is
  the number of cards in use in each unit of it (`InUseCounts`, `SegmentsCount`),
  and its hours are pairs of a unit and a card (`GpuTimeCounts`, `ActiveCounts`).
  Dies of a card are of one model, which makes the models' shares add up
  (`ModelShares`). A page that reads only the rows of a user's uids has the
  records of one that reads all rows (`OwnRecords`).
- `PagePartsAgreeAlways`: `PagePartsAgree`, from the same counts. The days of a
  page split its period (`DaysAre`, `DaysAddUp`), and a day has jobs if a record
  touches it (`UsedDays`). For the hours: a record's owner held the account
  throughout it by `OneOwnerOfRow` (`HeldWhenUsed`), eligibility is the union of
  what was held (`EligibleWhenHeld`), so a unit of usage is one of exposure
  (`HoursAreHeld`).

It relies on `AccountingAssumption` (an activity page shows no more days than jobs
are looked up for: pages are of 7 or 30 days, jobs are found for 30; a day and an
hour have a length; the dies of a card are of one model) and on
`SessionsAssumption`: None is no job, a use is a process and one of the GPUs, a
history of bindings is finite, and two bindings of one uid or account began at
different times. A snapshot is finite too, by the guard of `Sample`: it is a list.
As for the bindings, on one node the store never has two active at a time
(`OneOwner`, proved in `LabStoreProofs`), and a binding begins at the `time.time()` of its own
transaction, a clock that is finer than the transactions are short.

Model-checked only:

- all liveness (`StableAgentOwnsNode`, `AcknowledgedRestartHappens`,
  `SilenceShowsOffline`, `ViewersSeeWhatLasts`, `NodeComesBack`,
  `SidecarCatchesUp`, `StaleSessionsEnd`): TLAPS treats neither liveness under
  fairness nor `ENABLED`.

Every invariant of the runs that pass is a theorem.

None of the modules has a `RECURSIVE` operator.

## 6. Disagreements found, and facts observed

1. **A lost settings change** (`lost_config`, `b/app.py:200`). `broadcast_config`
   suppresses `QueueFull`. An agent that stays connected then keeps its old
   refresh interval until it reconnects, while `docs/PYPI_CLI.md:209` and
   `docs/user-system-design-zh.md:112` say that the setting reaches the agents.
   `SettingsReachAgent` is the property that does hold: apart from connections
   that lost a broadcast, what an agent has applied or will read is current.
2. **A rollup row replaced by part of itself** (`cut_window`, `b/db.py:441`).
   Rollups are computed again for every closed window from whatever rows of the
   tier below are left. When pruning removes the first 20 s rows of a 2 m
   window, the next rollup of the window replaces its complete row by a partial
   one; the 1 h rows suffer the same from the 2 m rows. `docs/HISTORY.md:44` and
   `docs/plan_stage2.2.md:42` promise the 2 m rows for 60 days. Executing the
   methods in that order on a database shows the same: the `sample_count` of
   the row drops.
3. **A binding for a disabled user** (`lab_stale`, `l/store.py:306`). While the
   agents answer the account lookups of a user's request, an administrator can
   disable the user, which ends all bindings of that user; the request then goes
   on and `create_bindings`, which unlike `reassign_binding` does not look at the
   user again, makes new active ones, which block the accounts for others until
   an administrator acts. `docs/user-system-design-zh.md:693` says that
   disabling a user ends the bindings. `InactiveHoldOnlyLate` is what does
   hold: this is the only way there.
4. **One session, two ranked jobs** (`ranked_jobs`, `b/analytics.py:154`). The
   key of a process whose start time cannot be read falls back to
   `first_seen_at`, which the rankings take from the use of one GPU and the job
   pages from the session. A session that begins to use a second GPU later is
   ranked as two jobs, one of them under a key that no job page knows.
   `docs/HISTORY.md:133` says that discovery returns one user-facing job.

What follows was observed while modelling. It contradicts no document, or its
statement is outside the properties, and the models have it as the code does:

- Two start scripts that overlap on a node can make two agents: only the
  watchdog's script takes the lock. `stop_process` removes the pid file when its
  process has gone, even if a newer start wrote it meanwhile. Both need
  `overlapped`, and `OneOnFile` says that nothing less does it.
- `start_process` and `stop_process` go by the id alone, so an id that a stranger
  got counts as the service, or is signalled.
- After the agent's code was sent again, a running agent's working directory is
  one that was deleted; the watchdog's `is_agent` does not recognise it any more.
  `WatchdogStartsNoSecond` is therefore about agents of the present code.
- A row of an upper tier may be made of part of its window (see 2), so hourly
  history can lack samples of a bucket that pruning cut through.
- `/api/history/gpu` picks its tier by the length of the range and not by its
  age: a short range of long ago reads the pruned 20 s tier.
- A curve asked for at 20 s of a job longer than about 4.6 days is cut at 20 000
  points and lacks its newest ones (`CutOff` in `HistoryIsReadable`).
- A performance curve from memory is thinned out to 5000 points, which a job of 42
  minutes exceeds at a refresh interval of 0.5 s; its lows, highs and gaps stay
  (`ThinnedOut` in `MemoryCurveIsWhole`). The basic curve is not.
- A node whose pid file is empty is refused by the watchdog for ever
  (`src/scripts/service/agent_watchdog.py:63`), while `start_agent.sh` passes such a
  file over; and a `start_node` that ends between its writes leaves a node on which
  the watchdog starts an agent that ends at once, or nothing.
- `docs/HISTORY.md:151` asks that the ring cover the padded window of a job.
  `_highres_curve` (`b/highres.py:674`) and `_highres_performance_curve`
  (`b/highres.py:706`) check the job's own time only, and `MemoryCurveIsWhole` is
  about that: of the padding, a curve shows what there is.
- `_highres_performance_curve` (`b/highres.py:723`) takes `min()` over values that
  may be `None`.
- A job's key changes when its session's parent does; `get_job` looks back 30
  days, not the 7 of `docs/HISTORY.md`.

## 7. Not modelled

Within the modelled parts: authorisation of websockets and the error replies to
malformed messages (no state); the fields of samples other than what orders
them; `SupportedMetricsDelta` and account enumeration in the agent; in the sink,
one GPU per node (buckets of different GPUs never share a row), and raw
snapshots; the averages that a curve shows (a curve is the samples it accounts
for); in the process tables, names, command lines and memory; the 60 s cache
and the paging of the activity page; in the lab, display names, the assurance of
a binding, audit rows, times and rate limits; of the services, token files,
arguments and `status`. `PROJECT.json` says the same per component.

Not modelled at all: hardware samplers, schema and telemetry conversion, and
rendering (terminal UI included) have no state shared between actors. The
collector is one task over samplers whose drivers are not in the repository. The
history reader is a semaphore around a shielded thread. The database commands
would need a second writer beside the sink, for which the run of the sink has no
room. The browser's live connection is a state machine of timers of its own;
`ViewerFeed` has the manager's side.

## 8. What is left

1. `constella db rollup` as a second process of `HistorySink`, its read and its
   write as two steps (hazard at `b/db.py:464`), on an instance without faults.
2. `SupportedMetricsDelta` as an extension of `AgentLink`'s samples (hazard at
   `b/agent.py:132`).
3. Node control's audit trail and cooldown over the broker, as one actor whose
   outcome refines "accepted is only said of what happened".
4. The collector with an abstract sampler; the browser's live connection.
