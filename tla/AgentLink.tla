------------------------------ MODULE AgentLink ------------------------------
(***************************************************************************)
(* The link between the manager and its agents: app.py's agent_ws handler, *)
(* its sender task and PATCH /api/settings, the broker's callers, and      *)
(* agent.py's connection, receiver and sender loops, over websockets that  *)
(* break.  A step of the manager is the code its event loop runs between   *)
(* two awaits.                                                             *)
(*                                                                         *)
(* A websocket c belongs to the agent of node NodeOf[c].  The agent may    *)
(* have given a websocket up while the manager still serves it and while   *)
(* its last messages still travel, so the manager may hold several         *)
(* handlers of one node.                                                   *)
(***************************************************************************)
EXTENDS Sequences, ClusterRegistry, AgentRpcBroker

CONSTANTS NodeOf,          \* the node whose agent opens the websocket
          HelloInOrder,    \* TRUE: a hello is never overtaken by a later one
          QueueCap,        \* send_queue's maxsize (128 in the code)
          UpCap, DownCap,  \* what a websocket buffers in each direction
          MaxSettings,     \* bound: how often an admin changes the settings
          MaxCollected,    \* bound: samples of one agent process
          MaxMsgs,         \* bound: samples and heartbeats of one websocket
          MaxIncarnation   \* bound: agent processes of one node

ASSUME LinkAssumption ==
    /\ NodeOf \in [Conns -> Nodes]
    /\ HelloInOrder \in BOOLEAN
    /\ QueueCap \in Nat \ {0} /\ UpCap \in Nat \ {0} /\ DownCap \in Nat \ {0}
    /\ MaxSettings \in Nat /\ MaxCollected \in Nat /\ MaxMsgs \in Nat
    /\ MaxIncarnation \in Nat

VARIABLES
    latest,     \* cluster_state.latest_by_node
    broker,     \* agent_rpc: its _connections and _pending
    settings,   \* manager_settings: a version number, 0 the defaults
    handler,    \* agent_ws: the progress of the handler of a websocket
    sendq,      \* its send_queue
    link,       \* the websocket: unused, open, shut
    up, down,   \* what travels to the manager, to the agent
    agent,      \* the agent process of a node
    served,     \* history: the incarnation that answered a request, or -1
    missed      \* history: websockets whose full queue lost a config message

managerVars == <<latest, broker, settings, handler, sendq>>
vars == <<managerVars, link, up, down, agent, served, missed>>

-----------------------------------------------------------------------------
(* Messages *)

Hello == [type |-> "hello"]
Sample(seq, stamp, valid) ==
    [type |-> "sample", seq |-> seq, stamp |-> stamp, valid |-> valid]
Heartbeat(seq) == [type |-> "heartbeat", seq |-> seq]
Answer(kind, r) == [type |-> "answer", kind |-> kind, req |-> r]

Ack == [type |-> "ack"]
Config(v) == [type |-> "config", version |-> v]
Ask(kind, r) == [type |-> "ask", kind |-> kind, req |-> r]

Kinds == {"restart", "lookup"}
UpMessage ==
    [type : {"hello"}]
      \cup [type : {"sample"}, seq : Nat, stamp : Stamp, valid : BOOLEAN]
      \cup [type : {"heartbeat"}, seq : Nat]
      \cup [type : {"answer"}, kind : Kinds, req : Requests]
DownMessage ==
    [type : {"ack"}]
      \cup [type : {"config"}, version : Nat]
      \cup [type : {"ask"}, kind : Kinds, req : Requests]

\* An agent process: its websocket, the message_seq and last_snapshot_seq of
\* its sender loop, its collector's sequence, the settings it applied, its
\* instance, and whether an acknowledged restart is unwinding it.
AgentProcess == [conn : Conns \cup {NoConn}, msgSeq : Nat, sentSeq : Nat,
                 collected : Nat, config : Nat, incarnation : Nat,
                 unwinding : BOOLEAN]

FreshProcess(i) == [conn |-> NoConn, msgSeq |-> 0, sentSeq |-> 0,
                    collected |-> 0, config |-> 0, incarnation |-> i,
                    unwinding |-> FALSE]

TypeOK ==
    /\ latest \in [Nodes -> Runtime]
    /\ broker \in Broker
    /\ settings \in Nat
    /\ handler \in [Conns -> {"none", "accepted", "serving", "closed"}]
    /\ sendq \in [Conns -> Seq(DownMessage)]
    /\ link \in [Conns -> {"unused", "open", "shut"}]
    /\ up \in [Conns -> Seq(UpMessage)]
    /\ down \in [Conns -> Seq(DownMessage)]
    /\ agent \in [Nodes -> AgentProcess]
    /\ served \in [Requests -> Int]
    /\ missed \in SUBSET Conns

Init ==
    /\ latest = [n \in Nodes |-> Absent]
    /\ broker = NoBroker
    /\ settings = 0
    /\ handler = [c \in Conns |-> "none"]
    /\ sendq = [c \in Conns |-> <<>>]
    /\ link = [c \in Conns |-> "unused"]
    /\ up = [c \in Conns |-> <<>>]
    /\ down = [c \in Conns |-> <<>>]
    /\ agent = [n \in Nodes |-> FreshProcess(0)]
    /\ served = [r \in Requests |-> -1]
    /\ missed = {}

-----------------------------------------------------------------------------
(* The manager *)

Live(c) == handler[c] \in {"accepted", "serving"}
HasRoom(c) == Len(sendq[c]) < QueueCap

\* A websocket that shuts keeps some of what was travelling to the manager.
Shut(c) ==
    /\ link' = [link EXCEPT ![c] = "shut"]
    /\ down' = [down EXCEPT ![c] = <<>>]
    /\ \E k \in 0..Len(up[c]) : up' = [up EXCEPT ![c] = SubSeq(@, 1, k)]

\* agent_ws's finally block, on the registry and the broker that the handler
\* has computed so far.
Leave(c, reg, b) ==
    /\ latest' = Disconnect(reg, NodeOf[c], c)
    /\ broker' = Unregister(b, NodeOf[c], c)
    /\ handler' = [handler EXCEPT ![c] = "closed"]
    /\ sendq' = [sendq EXCEPT ![c] = <<>>]

\* send_queue.put_nowait(msg) after a message was handled; QueueFull leaves
\* the handler, whose finally block runs at once and the websocket closes.
Reply(c, reg, b, msg) ==
    \/ /\ HasRoom(c)
       /\ latest' = reg
       /\ broker' = b
       /\ handler' = [handler EXCEPT ![c] = "serving"]
       /\ sendq' = [sendq EXCEPT ![c] = Append(@, msg)]
       /\ up' = [up EXCEPT ![c] = Tail(@)]
       /\ UNCHANGED <<link, down>>
    \/ /\ ~HasRoom(c)
       /\ Leave(c, reg, b)
       /\ link' = [link EXCEPT ![c] = "shut"]
       /\ up' = [up EXCEPT ![c] = <<>>]
       /\ down' = [down EXCEPT ![c] = <<>>]

Receives(c, state, type) ==
    handler[c] = state /\ up[c] # <<>> /\ Head(up[c]).type = type

\* Mutation: the first config message holds the defaults.
HandleHelloWithDefaults(c) ==
    /\ Receives(c, "accepted", "hello")
    /\ Reply(c, RegisterHello(latest, NodeOf[c], c),
                Register(broker, NodeOf[c], c), Config(0))
    /\ UNCHANGED <<settings, agent, served, missed>>

\* The first message: register_hello, agent_rpc.register, then the config.
HandleHello(c) ==
    /\ Receives(c, "accepted", "hello")
    /\ Reply(c, RegisterHello(latest, NodeOf[c], c),
                Register(broker, NodeOf[c], c), Config(settings))
    /\ UNCHANGED <<settings, agent, served, missed>>

HandleSample(c) ==
    /\ Receives(c, "serving", "sample")
    /\ LET m == Head(up[c])
       IN  Reply(c, IngestSample(latest, NodeOf[c], c, m.seq, m.stamp, m.valid),
                    broker, Ack)
    /\ UNCHANGED <<settings, agent, served, missed>>

HandleHeartbeat(c) ==
    /\ Receives(c, "serving", "heartbeat")
    /\ Reply(c, IngestHeartbeat(latest, NodeOf[c], c, Head(up[c]).seq),
                broker, Ack)
    /\ UNCHANGED <<settings, agent, served, missed>>

\* account_lookup_response and agent_restart_response: no ack is sent.
HandleAnswer(c) ==
    /\ Receives(c, "serving", "answer")
    /\ LET m == Head(up[c])
       IN  broker' = Resolve(broker, NodeOf[c], c, m.req, m.kind)
    /\ up' = [up EXCEPT ![c] = Tail(@)]
    /\ UNCHANGED <<latest, settings, handler, sendq, link, down,
                   agent, served, missed>>

\* receive_json raises WebSocketDisconnect once nothing is left to read.  A
\* handler that never saw a hello has no node to clean up.
HandleDisconnect(c) ==
    /\ link[c] = "shut" /\ up[c] = <<>>
    /\ \/ handler[c] = "serving" /\ Leave(c, latest, broker)
       \/ /\ handler[c] = "accepted"
          /\ handler' = [handler EXCEPT ![c] = "closed"]
          /\ sendq' = [sendq EXCEPT ![c] = <<>>]
          /\ UNCHANGED <<latest, broker>>
    /\ UNCHANGED <<settings, link, up, down, agent, served, missed>>

\* The sender task: one message from the queue to the websocket.
Send(c) ==
    /\ Live(c) /\ link[c] = "open"
    /\ sendq[c] # <<>> /\ Len(down[c]) < DownCap
    /\ down' = [down EXCEPT ![c] = Append(@, Head(sendq[c]))]
    /\ sendq' = [sendq EXCEPT ![c] = Tail(@)]
    /\ UNCHANGED <<latest, broker, settings, handler, link, up,
                   agent, served, missed>>

\* PATCH /api/settings: update, then broadcast_config to every queue, a full
\* queue losing the message.
ChangeSettings ==
    /\ settings < MaxSettings
    /\ settings' = settings + 1
    /\ sendq' = [c \in Conns |->
                    IF Live(c) /\ HasRoom(c)
                    THEN Append(sendq[c], Config(settings + 1)) ELSE sendq[c]]
    /\ missed' = missed \cup {c \in Conns : Live(c) /\ ~HasRoom(c)}
    /\ UNCHANGED <<latest, broker, handler, link, up, down, agent, served>>

\* account_lookup or restart, from its call to its first await.
Request(r, n) ==
    /\ broker.calls[r].state = "idle"
    /\ LET c == broker.conns[n]
           outcome == RequestOutcome(broker, n, c # NoConn /\ HasRoom(c))
       IN  /\ broker' = Start(broker, r, n, outcome)
           /\ sendq' = IF outcome = "waiting"
                       THEN [sendq EXCEPT ![c] = Append(@, Ask(KindOf[r], r))]
                       ELSE sendq
    /\ UNCHANGED <<latest, settings, handler, link, up, down,
                   agent, served, missed>>

\* wait_for gives up.  An answer that arrived in the same turn of the event
\* loop loses to the timeout on Python 3.12 and later.
RequestTimeout(r) ==
    /\ broker.calls[r].state \in {"waiting", "resolved"}
    /\ broker' = Settle(broker, r, "timeout")
    /\ UNCHANGED <<latest, settings, handler, sendq, link, up, down,
                   agent, served, missed>>

\* The caller wakes up with the future's result or exception.
RequestReturns(r) ==
    /\ \/ /\ broker.calls[r].state = "resolved"
          /\ broker' = Settle(broker, r, "ok")
       \/ /\ broker.calls[r].state = "failed"
          /\ broker' = Settle(broker, r, "unavailable")
    /\ UNCHANGED <<latest, settings, handler, sendq, link, up, down,
                   agent, served, missed>>

\* Time passes for every node.
Tick ==
    /\ \E n \in Nodes : latest[n].known /\ latest[n].age < MaxAge
    /\ latest' = Older(latest)
    /\ UNCHANGED <<broker, settings, handler, sendq, link, up, down,
                   agent, served, missed>>

-----------------------------------------------------------------------------
(* The network and the agents *)

\* A websocket fails; neither end knows yet.
Break(c) ==
    /\ link[c] = "open"
    /\ Shut(c)
    /\ UNCHANGED <<managerVars, agent, served, missed>>

\* Assumed of the network when HelloInOrder: the hello of an abandoned
\* websocket reaches the manager before the next one connects, or never does.
HelloPending(c) == handler[c] = "accepted" /\ up[c] # <<>>

\* _run_connection: connect, the manager accepts, send hello.
Connect(c) ==
    LET n == NodeOf[c]
    IN  /\ handler[c] = "none"
        /\ agent[n].conn = NoConn
        /\ HelloInOrder =>
              \A d \in Conns : NodeOf[d] = n => ~HelloPending(d)
        /\ link' = [link EXCEPT ![c] = "open"]
        /\ handler' = [handler EXCEPT ![c] = "accepted"]
        /\ up' = [up EXCEPT ![c] = <<Hello>>]
        /\ agent' = [agent EXCEPT ![n] =
                        [@ EXCEPT !.conn = c, !.msgSeq = 0, !.sentSeq = 0]]
        /\ UNCHANGED <<latest, broker, settings, sendq, down, served, missed>>

\* The agent's end of a websocket that works, while its sender loop runs.
Online(n) == agent[n].conn # NoConn /\ link[agent[n].conn] = "open"
Receiving(n) ==
    /\ Online(n) /\ ~agent[n].unwinding
    /\ down[agent[n].conn] # <<>>

\* The collector publishes a snapshot, connected or not.
Collect(n) ==
    /\ agent[n].collected < MaxCollected
    /\ agent' = [agent EXCEPT ![n].collected = @ + 1]
    /\ UNCHANGED <<managerVars, link, up, down, served, missed>>

\* _sender_loop, a new snapshot: only the latest one is sent.  `valid` is
\* whether the manager will be able to decode it.
SendSample(n) ==
    LET a == agent[n]
        c == a.conn
    IN  /\ Online(n) /\ a.collected > a.sentSeq
        /\ a.msgSeq < MaxMsgs /\ Len(up[c]) < UpCap
        /\ \E valid \in BOOLEAN :
              up' = [up EXCEPT ![c] =
                       Append(@, Sample(a.msgSeq + 1,
                                        <<a.incarnation, a.collected>>, valid))]
        /\ agent' = [agent EXCEPT ![n].msgSeq = @ + 1,
                                  ![n].sentSeq = a.collected]
        /\ UNCHANGED <<managerVars, link, down, served, missed>>

\* _sender_loop, heartbeat_seconds without a new snapshot.
SendHeartbeat(n) ==
    LET a == agent[n]
        c == a.conn
    IN  /\ Online(n) /\ a.collected = a.sentSeq
        /\ a.msgSeq < MaxMsgs /\ Len(up[c]) < UpCap
        /\ up' = [up EXCEPT ![c] = Append(@, Heartbeat(a.msgSeq + 1))]
        /\ agent' = [agent EXCEPT ![n].msgSeq = @ + 1]
        /\ UNCHANGED <<managerVars, link, down, served, missed>>

\* _receiver_loop: acks are ignored, a config is applied to the collector.
ReceiveOther(n) ==
    LET c == agent[n].conn
        m == Head(down[c])
    IN  /\ Receiving(n) /\ m.type \in {"ack", "config"}
        /\ down' = [down EXCEPT ![c] = Tail(@)]
        /\ agent' = IF m.type = "config"
                    THEN [agent EXCEPT ![n].config = m.version] ELSE agent
        /\ UNCHANGED <<managerVars, link, up, served, missed>>

\* _receiver_loop: answer a request.  An acknowledged restart stops the
\* receiver and unwinds the process, whatever the sender still does.
ReceiveAsk(n) ==
    LET c == agent[n].conn
        m == Head(down[c])
    IN  /\ Receiving(n) /\ m.type = "ask" /\ Len(up[c]) < UpCap
        /\ down' = [down EXCEPT ![c] = Tail(@)]
        /\ up' = [up EXCEPT ![c] = Append(@, Answer(m.kind, m.req))]
        /\ agent' = [agent EXCEPT ![n].unwinding = (m.kind = "restart")]
        /\ served' = [served EXCEPT ![m.req] = agent[n].incarnation]
        /\ UNCHANGED <<managerVars, link, missed>>

\* Mutation: a failed send wins over an acknowledged restart.
NoticeFirst(n) ==
    LET c == agent[n].conn
    IN  /\ c # NoConn /\ link[c] = "shut"
        /\ agent' = [agent EXCEPT ![n] =
                       [@ EXCEPT !.conn = NoConn, !.unwinding = FALSE]]
        /\ UNCHANGED <<managerVars, link, up, down, served, missed>>

\* A loop fails on the dead websocket and _connection_loop starts over.
Notice(n) ==
    LET c == agent[n].conn
    IN  /\ c # NoConn /\ link[c] = "shut" /\ ~agent[n].unwinding
        /\ agent' = [agent EXCEPT ![n].conn = NoConn]
        /\ UNCHANGED <<managerVars, link, up, down, served, missed>>

\* The process of a node is replaced and its websocket closes.
NewProcess(n) ==
    LET c == agent[n].conn
    IN  /\ agent' = [agent EXCEPT ![n] = FreshProcess(@.incarnation + 1)]
        /\ IF Online(n) THEN Shut(c) ELSE UNCHANGED <<link, up, down>>
        /\ UNCHANGED <<managerVars, served, missed>>

\* AgentRestartRequested reaches run_agent_service, which calls os.execv.
Exec(n) == agent[n].unwinding /\ NewProcess(n)

\* The agent dies and its supervisor starts it again.
Crash(n) == agent[n].incarnation < MaxIncarnation /\ NewProcess(n)

-----------------------------------------------------------------------------
Manager ==
    \/ \E c \in Conns :
          \/ HandleHello(c) \/ HandleSample(c) \/ HandleHeartbeat(c)
          \/ HandleAnswer(c) \/ HandleDisconnect(c) \/ Send(c)
    \/ \E r \in Requests :
          \/ RequestTimeout(r) \/ RequestReturns(r)
          \/ \E n \in Nodes : Request(r, n)
    \/ ChangeSettings
    \/ Tick

Agents ==
    \E n \in Nodes :
        \/ Collect(n) \/ SendSample(n) \/ SendHeartbeat(n)
        \/ ReceiveOther(n) \/ ReceiveAsk(n)
        \/ Notice(n) \/ Exec(n) \/ Crash(n)

Network == \E c \in Conns : Break(c) \/ Connect(c)

Next == Manager \/ Agents \/ Network

Spec == Init /\ [][Next]_vars

\* Fairness: both event loops run whatever task is ready, an agent retries
\* its connection forever, wait_for ends every call, time passes.  Nothing is
\* assumed of failures, of admins, of the collector's readings, nor that the
\* manager ever learns that a websocket is dead.
Fairness ==
    /\ \A c \in Conns :
          /\ WF_vars(HandleHello(c) \/ HandleSample(c) \/ HandleHeartbeat(c)
                      \/ HandleAnswer(c))
          /\ WF_vars(Send(c))
          /\ WF_vars(Connect(c))
    /\ \A n \in Nodes :
          /\ WF_vars(ReceiveOther(n) \/ ReceiveAsk(n))
          /\ WF_vars(SendSample(n) \/ SendHeartbeat(n))
          /\ WF_vars(Notice(n))
          /\ WF_vars(Exec(n))
    /\ \A r \in Requests : WF_vars(RequestTimeout(r) \/ RequestReturns(r))
    /\ WF_vars(Tick)

FairSpec == Spec /\ Fairness

-----------------------------------------------------------------------------
(* Safety *)

\* The registry and the broker, two structures that agent_ws updates one after
\* the other, agree on which connection serves a node: a node shown connected
\* can be asked, and a node that can be asked is shown connected.
Agreement ==
    \A n \in Nodes :
        broker.conns[n] = IF latest[n].connected THEN latest[n].conn ELSE NoConn

\* No caller waits on a connection that is not the node's any more: replacing
\* or losing a connection fails its calls at once instead of by timeout.
NoOrphanCall ==
    \A r \in Requests :
        broker.calls[r].state = "waiting" =>
            /\ broker.calls[r].node \in Nodes
            /\ broker.calls[r].conn # NoConn
            /\ broker.conns[broker.calls[r].node] = broker.calls[r].conn

\* A call fails early only for want of its own connection: another node's
\* disconnect, or an earlier connection's, does not touch it.
CallFailsWithItsConnection ==
    \A r \in Requests :
        LET call == broker.calls[r]
        IN  call.state = "failed" => broker.conns[call.node] # call.conn

\* A restart reported as accepted was answered by a process of that node, and
\* that process is unwinding or already replaced.
AcceptedRestartIsReal ==
    \A r \in Requests :
        LET call == broker.calls[r]
        IN  KindOf[r] = "restart" /\ call.state \in {"resolved", "ok"} =>
                /\ served[r] >= 0
                /\ \/ agent[call.node].incarnation > served[r]
                   \/ agent[call.node].unwinding

\* No sample of the connection that owns a node is dropped as a duplicate:
\* last_seq starts over with each hello, as the agent's message_seq does.
OwnerIsHeard ==
    \A n \in Nodes :
        LET c == latest[n].conn
        IN  c # NoConn /\ handler[c] = "serving" =>
                \A i \in 1..Len(up[c]) :
                    up[c][i].type = "sample" => up[c][i].seq > latest[n].lastSeq

\* The last settings that an agent has applied or will read from its websocket.
ConfigsAhead(c) ==
    LET ahead == down[c] \o sendq[c]
        configs == {i \in 1..Len(ahead) : ahead[i].type = "config"}
    IN  IF configs = {} THEN agent[NodeOf[c]].config
        ELSE ahead[CHOOSE i \in configs : \A j \in configs : j <= i].version

\* A served agent that stays connected ends up with the manager's settings,
\* in spite of updates racing its hello, unless a full queue lost a broadcast.
SettingsReachAgent ==
    \A c \in Conns :
        handler[c] = "serving" /\ link[c] = "open" /\ c \notin missed
            => ConfigsAhead(c) = settings

-----------------------------------------------------------------------------
(* Action properties and liveness *)

\* The readings shown for a node never go back to an older sample, through
\* replaced connections and restarted agents.
ReadingsMoveForward ==
    [][\A n \in Nodes : NotOlder(latest'[n].stamp, latest[n].stamp)]_vars

\* A node whose agent is gone for good is shown offline for good, whether or
\* not the manager ever learns that the websocket is dead.
SilenceShowsOffline ==
    \A n \in Nodes :
        <>[](agent[n].conn = NoConn) =>
            <>[](~latest[n].known \/ Status(latest[n]) = "offline")

\* An agent that keeps a working websocket ends up owning its node.
Connected(n, c) == agent[n].conn = c /\ link[c] = "open"
StableAgentOwnsNode ==
    \A n \in Nodes, c \in Conns :
        <>[]Connected(n, c) =>
            <>[](latest[n].connected /\ latest[n].conn = c
                    /\ broker.conns[n] = c)

\* An agent that keeps a working websocket ends up with the last settings.
StableAgentHasSettings ==
    \A n \in Nodes, c \in Conns :
        <>[]Connected(n, c) => <>[](agent[n].config = settings)

\* A restart that the agent acknowledged replaces its process.
AcknowledgedRestartHappens ==
    \A n \in Nodes, i \in 0..MaxIncarnation :
        (agent[n].unwinding /\ agent[n].incarnation = i)
            ~> agent[n].incarnation > i

\* The registry, and the broker, implement NodeOwnership.
SessionOf == [c \in Conns |->
    CASE handler[c] \in {"none", "accepted"} -> "before"
      [] handler[c] = "serving" -> "during"
      [] handler[c] = "closed" -> "after"]

RegistryView == INSTANCE NodeOwnership WITH
    Sessions <- Conns, None <- NoConn, session <- SessionOf,
    owner <- [n \in Nodes |->
                IF latest[n].connected THEN latest[n].conn ELSE NoConn]
BrokerView == INSTANCE NodeOwnership WITH
    Sessions <- Conns, None <- NoConn, session <- SessionOf,
    owner <- broker.conns

RegistryOwnership == RegistryView!Ownership
BrokerOwnership == BrokerView!Ownership
=============================================================================
