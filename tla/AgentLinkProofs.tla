--------------------------- MODULE AgentLinkProofs ---------------------------
(***************************************************************************)
(* Theorems about AgentLink, for any nodes, websockets, calls and bounds:  *)
(* the manager's registry and broker agree, no caller is orphaned, and     *)
(* each of the two structures implements NodeOwnership.                    *)
(***************************************************************************)
EXTENDS AgentLink, SequenceTheorems, TLAPS

-----------------------------------------------------------------------------
(* The operators of the registry and of the broker stay in their types. *)

\* A hello, a rejection and a disconnection leave a registry of
\* NodeRuntime records.
LEMMA RegistryTypes ==
    ASSUME NEW reg \in [Nodes -> Runtime], NEW n \in Nodes, NEW c \in Conns
    PROVE  /\ RegisterHello(reg, n, c) \in [Nodes -> Runtime]
           /\ RejectSample(reg, n, c) \in [Nodes -> Runtime]
           /\ Disconnect(reg, n, c) \in [Nodes -> Runtime]
<1> USE RegistryAssumption DEF RegistryAssumption
<1>1. RegisterHello(reg, n, c) \in [Nodes -> Runtime]
  BY DEF RegisterHello, Runtime
<1>2. RejectSample(reg, n, c) \in [Nodes -> Runtime]
  BY DEF RejectSample, Runtime
<1>3. Disconnect(reg, n, c) \in [Nodes -> Runtime]
  BY DEF Disconnect, Runtime
<1> QED BY <1>1, <1>2, <1>3

\* So does the clock.
LEMMA OlderTypes ==
    ASSUME NEW reg \in [Nodes -> Runtime]
    PROVE  Older(reg) \in [Nodes -> Runtime]
  BY RegistryAssumption DEF Older, Runtime, RegistryAssumption

\* So do ingest_sample and ingest_heartbeat.
LEMMA IngestTypes ==
    ASSUME NEW reg \in [Nodes -> Runtime], NEW n \in Nodes, NEW c \in Conns,
           NEW seq \in Nat
    PROVE  /\ \A stamp \in Stamp, valid \in BOOLEAN :
                 IngestSample(reg, n, c, seq, stamp, valid) \in [Nodes -> Runtime]
           /\ IngestHeartbeat(reg, n, c, seq) \in [Nodes -> Runtime]
<1> USE RegistryAssumption DEF RegistryAssumption
<1>1. ASSUME NEW stamp \in Stamp, NEW valid \in BOOLEAN
      PROVE  IngestSample(reg, n, c, seq, stamp, valid) \in [Nodes -> Runtime]
  <2>1. RejectSample(reg, n, c) \in [Nodes -> Runtime]
    BY RegistryTypes
  <2> QED BY <2>1 DEF IngestSample, Runtime
<1>2. IngestHeartbeat(reg, n, c, seq) \in [Nodes -> Runtime]
  <2> DEFINE known == IF reg[n].known THEN reg ELSE RegisterHello(reg, n, c)
             last == IF seq > known[n].lastSeq THEN seq ELSE known[n].lastSeq
             rt1 == [known[n] EXCEPT !.connected = TRUE]
             rt2 == [rt1 EXCEPT !.age = 0]
             rt3 == [rt2 EXCEPT !.lastSeq = last]
  <2>1. known \in [Nodes -> Runtime] /\ known[n] \in Runtime
    BY RegistryTypes
  <2>2. IngestHeartbeat(reg, n, c, seq) \in {known, [known EXCEPT ![n] = rt3]}
    BY DEF IngestHeartbeat
  <2> HIDE DEF known
  <2>3. rt1 \in Runtime
    BY <2>1 DEF Runtime
  <2>4. last \in Nat
    BY <2>1 DEF Runtime
  <2> HIDE DEF rt1, last
  <2>5. rt2 \in Runtime
    BY <2>3 DEF Runtime
  <2> HIDE DEF rt2
  <2>6. rt3 \in Runtime
    BY <2>4, <2>5 DEF Runtime
  <2> QED BY <2>1, <2>2, <2>6
<1> QED BY <1>1, <1>2

\* Each method of AgentRpcBroker leaves a broker.
LEMMA BrokerTypes ==
    ASSUME NEW b \in Broker, NEW n \in Nodes, NEW c \in Conns
    PROVE  /\ Register(b, n, c) \in Broker
           /\ Unregister(b, n, c) \in Broker
           /\ \A r \in Requests, kind \in Kinds :
                 Resolve(b, n, c, r, kind) \in Broker
<1>1. FailPending(b.calls, n) \in [Requests -> Call]
  BY DEF FailPending, Broker, Call, CallState
<1>2. Register(b, n, c) \in Broker
  BY <1>1 DEF Register, Broker
<1>3. Unregister(b, n, c) \in Broker
  BY <1>1 DEF Unregister, Broker
<1>4. ASSUME NEW r \in Requests, NEW kind \in Kinds
      PROVE  Resolve(b, n, c, r, kind) \in Broker
  BY DEF Resolve, Broker, Call, CallState
<1> QED BY <1>2, <1>3, <1>4

\* So does the head and the end of a call.
LEMMA CallTypes ==
    ASSUME NEW b \in Broker, NEW n \in Nodes, NEW r \in Requests,
           NEW outcome \in CallState
    PROVE  /\ Settle(b, r, outcome) \in Broker
           /\ Start(b, r, n, outcome) \in Broker
<1>1. Settle(b, r, outcome) \in Broker
  BY DEF Settle, Broker, Call, CallState
<1>2. Start(b, r, n, outcome) \in Broker
  BY DEF Start, Broker, Call, CallState
<1> QED BY <1>1, <1>2

\* Updates of the agent process.
LEMMA ProcessTypes ==
    ASSUME NEW a \in AgentProcess, NEW c \in Conns \cup {NoConn},
           NEW k \in Nat, NEW b \in BOOLEAN
    PROVE  /\ FreshProcess(k) \in AgentProcess
           /\ [a EXCEPT !.conn = c] \in AgentProcess
           /\ [a EXCEPT !.msgSeq = k] \in AgentProcess
           /\ [a EXCEPT !.sentSeq = k] \in AgentProcess
           /\ [a EXCEPT !.collected = k] \in AgentProcess
           /\ [a EXCEPT !.config = k] \in AgentProcess
           /\ [a EXCEPT !.unwinding = b] \in AgentProcess
<1>1. FreshProcess(k) \in AgentProcess
  BY DEF FreshProcess, AgentProcess
<1>2. [a EXCEPT !.conn = c] \in AgentProcess
  BY DEF AgentProcess
<1>3. /\ [a EXCEPT !.msgSeq = k] \in AgentProcess
      /\ [a EXCEPT !.sentSeq = k] \in AgentProcess
      /\ [a EXCEPT !.collected = k] \in AgentProcess
      /\ [a EXCEPT !.config = k] \in AgentProcess
  BY DEF AgentProcess
<1>4. [a EXCEPT !.unwinding = b] \in AgentProcess
  BY DEF AgentProcess
<1> QED BY <1>1, <1>2, <1>3, <1>4

\* What the loops do to a buffer of messages keeps it a sequence of them.
LEMMA BufferTypes ==
    ASSUME NEW S, NEW s \in Seq(S), NEW m \in S, NEW k \in 0..Len(s)
    PROVE  /\ Append(s, m) \in Seq(S)
           /\ <<m>> \in Seq(S)
           /\ <<>> \in Seq(S)
           /\ SubSeq(s, 1, k) \in Seq(S)
           /\ s # <<>> => Head(s) \in S /\ Tail(s) \in Seq(S)
<1>1. Append(s, m) \in Seq(S) /\ <<m>> \in Seq(S) /\ <<>> \in Seq(S)
  OBVIOUS
<1>2. SubSeq(s, 1, k) \in Seq(S)
  <2>1. \A i \in 1..k : s[i] \in S
    BY ElementOfSeq
  <2> QED BY <2>1, SubSeqProperties
<1>3. s # <<>> => Head(s) \in S /\ Tail(s) \in Seq(S)
  BY HeadTailProperties
<1> QED BY <1>1, <1>2, <1>3

\* The messages the handlers and the loops build.
LEMMA MessageTypes ==
    /\ Hello \in UpMessage
    /\ \A seq \in Nat, stamp \in Stamp, valid \in BOOLEAN :
          Sample(seq, stamp, valid) \in UpMessage
    /\ \A seq \in Nat : Heartbeat(seq) \in UpMessage
    /\ \A kind \in Kinds, r \in Requests :
          Answer(kind, r) \in UpMessage /\ Ask(kind, r) \in DownMessage
    /\ Ack \in DownMessage
    /\ \A v \in Nat : Config(v) \in DownMessage
  BY DEF Hello, Sample, Heartbeat, Answer, Ask, Ack, Config,
         UpMessage, DownMessage

\* What a message of a type carries.
LEMMA MessageFields ==
    /\ \A m \in UpMessage :
          /\ m.type = "sample" =>
                m.seq \in Nat /\ m.stamp \in Stamp /\ m.valid \in BOOLEAN
          /\ m.type = "heartbeat" => m.seq \in Nat
          /\ m.type = "answer" => m.kind \in Kinds /\ m.req \in Requests
    /\ \A m \in DownMessage :
          /\ m.type = "config" => m.version \in Nat
          /\ m.type = "ask" => m.kind \in Kinds /\ m.req \in Requests
<1>1. ASSUME NEW m \in UpMessage
      PROVE  /\ m.type = "sample" =>
                    m.seq \in Nat /\ m.stamp \in Stamp /\ m.valid \in BOOLEAN
             /\ m.type = "heartbeat" => m.seq \in Nat
             /\ m.type = "answer" => m.kind \in Kinds /\ m.req \in Requests
  <2>1. CASE m \in [type : {"hello"}]
    BY <2>1
  <2>2. CASE m \in [type : {"sample"}, seq : Nat, stamp : Stamp, valid : BOOLEAN]
    BY <2>2
  <2>3. CASE m \in [type : {"heartbeat"}, seq : Nat]
    BY <2>3
  <2>4. CASE m \in [type : {"answer"}, kind : Kinds, req : Requests]
    BY <2>4
  <2> QED BY <2>1, <2>2, <2>3, <2>4 DEF UpMessage
<1>2. ASSUME NEW m \in DownMessage
      PROVE  /\ m.type = "config" => m.version \in Nat
             /\ m.type = "ask" => m.kind \in Kinds /\ m.req \in Requests
  <2>1. CASE m \in [type : {"ack"}]
    BY <2>1
  <2>2. CASE m \in [type : {"config"}, version : Nat]
    BY <2>2
  <2>3. CASE m \in [type : {"ask"}, kind : Kinds, req : Requests]
    BY <2>3
  <2> QED BY <2>1, <2>2, <2>3 DEF DownMessage
<1> QED BY <1>1, <1>2

\* A websocket that shuts leaves buffers of messages.
LEMMA ShutTypes ==
    ASSUME TypeOK, NEW c \in Conns, Shut(c)
    PROVE  /\ link' \in [Conns -> {"unused", "open", "shut"}]
           /\ up' \in [Conns -> Seq(UpMessage)]
           /\ down' \in [Conns -> Seq(DownMessage)]
<1>1. link' \in [Conns -> {"unused", "open", "shut"}]
  BY DEF Shut, TypeOK
<1>2. down' \in [Conns -> Seq(DownMessage)]
  BY BufferTypes, MessageTypes DEF Shut, TypeOK
<1>3. up' \in [Conns -> Seq(UpMessage)]
  <2>1. PICK k \in 0..Len(up[c]) : up' = [up EXCEPT ![c] = SubSeq(@, 1, k)]
    BY DEF Shut
  <2>2. SubSeq(up[c], 1, k) \in Seq(UpMessage)
    BY BufferTypes, MessageTypes DEF TypeOK
  <2> QED BY <2>1, <2>2 DEF TypeOK
<1> QED BY <1>1, <1>2, <1>3

\* The finally block of agent_ws.
LEMMA LeaveTypes ==
    ASSUME TypeOK, NEW c \in Conns, NEW reg \in [Nodes -> Runtime],
           NEW b \in Broker, Leave(c, reg, b)
    PROVE  /\ latest' \in [Nodes -> Runtime]
           /\ broker' \in Broker
           /\ handler' \in [Conns -> {"none", "accepted", "serving", "closed"}]
           /\ sendq' \in [Conns -> Seq(DownMessage)]
<1>1. NodeOf[c] \in Nodes
  BY LinkAssumption DEF LinkAssumption
<1>2. latest' \in [Nodes -> Runtime]
  BY <1>1, RegistryTypes DEF Leave
<1>3. broker' \in Broker
  BY <1>1, BrokerTypes DEF Leave
<1>4. handler' \in [Conns -> {"none", "accepted", "serving", "closed"}]
  BY DEF Leave, TypeOK
<1>5. sendq' \in [Conns -> Seq(DownMessage)]
  BY DEF Leave, TypeOK
<1> QED BY <1>2, <1>3, <1>4, <1>5

\* A handled message and its reply.
LEMMA ReplyTypes ==
    ASSUME TypeOK, NEW c \in Conns, NEW reg \in [Nodes -> Runtime],
           NEW b \in Broker, NEW msg \in DownMessage, up[c] # <<>>,
           Reply(c, reg, b, msg),
           UNCHANGED <<settings, agent, served, missed>>
    PROVE  TypeOK'
<1>1. CASE HasRoom(c)
  <2>1. up' \in [Conns -> Seq(UpMessage)]
    <3>1. Tail(up[c]) \in Seq(UpMessage)
      BY BufferTypes, MessageTypes DEF TypeOK
    <3> QED BY <1>1, <3>1 DEF Reply, TypeOK
  <2>2. sendq' \in [Conns -> Seq(DownMessage)]
    <3>1. Append(sendq[c], msg) \in Seq(DownMessage)
      BY BufferTypes DEF TypeOK
    <3> QED BY <1>1, <3>1 DEF Reply, TypeOK
  <2>3. handler' \in [Conns -> {"none", "accepted", "serving", "closed"}]
    BY <1>1 DEF Reply, TypeOK
  <2>4. /\ latest' = reg /\ broker' = b
        /\ UNCHANGED <<link, down, settings, agent, served, missed>>
    BY <1>1 DEF Reply
  <2> QED BY <2>1, <2>2, <2>3, <2>4 DEF TypeOK
<1>2. CASE ~HasRoom(c)
  <2>1. /\ latest' \in [Nodes -> Runtime]
        /\ broker' \in Broker
        /\ handler' \in [Conns -> {"none", "accepted", "serving", "closed"}]
        /\ sendq' \in [Conns -> Seq(DownMessage)]
    BY <1>2, LeaveTypes DEF Reply
  <2>2. /\ link' \in [Conns -> {"unused", "open", "shut"}]
        /\ up' \in [Conns -> Seq(UpMessage)]
        /\ down' \in [Conns -> Seq(DownMessage)]
    <3>1. <<>> \in Seq(UpMessage) /\ <<>> \in Seq(DownMessage)
      OBVIOUS
    <3> QED BY <1>2, <3>1 DEF Reply, TypeOK
  <2> QED BY <2>1, <2>2 DEF TypeOK
<1> QED BY <1>1, <1>2

\* The state in which the manager starts is well typed.
LEMMA TypeInit == Init => TypeOK
<1> SUFFICES ASSUME Init PROVE TypeOK
  OBVIOUS
<1>1. latest \in [Nodes -> Runtime]
  BY RegistryAssumption
  DEF Init, Absent, Runtime, NoStamp, Stamp, RegistryAssumption
<1>2. broker \in Broker
  BY DEF Init, NoBroker, Broker, Call, CallState
<1>3. agent \in [Nodes -> AgentProcess]
  BY DEF Init, FreshProcess, AgentProcess
<1>4. /\ settings \in Nat
      /\ handler \in [Conns -> {"none", "accepted", "serving", "closed"}]
      /\ sendq \in [Conns -> Seq(DownMessage)]
      /\ link \in [Conns -> {"unused", "open", "shut"}]
      /\ up \in [Conns -> Seq(UpMessage)]
      /\ down \in [Conns -> Seq(DownMessage)]
      /\ served \in [Requests -> Int]
      /\ missed \in SUBSET Conns
  BY DEF Init
<1> QED BY <1>1, <1>2, <1>3, <1>4 DEF TypeOK

\* Every step of a handler keeps the types.
LEMMA HandlerTypes ==
    ASSUME TypeOK, NEW c \in Conns,
           \/ HandleHello(c) \/ HandleSample(c) \/ HandleHeartbeat(c)
           \/ HandleAnswer(c) \/ HandleDisconnect(c) \/ Send(c)
    PROVE  TypeOK'
<1> DEFINE n == NodeOf[c]
<1>1. n \in Nodes
  BY LinkAssumption DEF LinkAssumption
<1>2. /\ latest \in [Nodes -> Runtime] /\ broker \in Broker
      /\ sendq[c] \in Seq(DownMessage) /\ down[c] \in Seq(DownMessage)
      /\ up[c] \in Seq(UpMessage)
  BY DEF TypeOK
<1>3. up[c] # <<>> => Head(up[c]) \in UpMessage /\ Tail(up[c]) \in Seq(UpMessage)
  BY <1>2, HeadTailProperties
<1>4. CASE HandleHello(c)
  <2>1. RegisterHello(latest, n, c) \in [Nodes -> Runtime]
    BY <1>1, <1>2, RegistryTypes
  <2>2. Register(broker, n, c) \in Broker
    BY <1>1, <1>2, BrokerTypes
  <2>3. Config(settings) \in DownMessage
    BY MessageTypes DEF TypeOK
  <2> QED BY <1>4, <2>1, <2>2, <2>3, ReplyTypes DEF HandleHello, Receives
<1>5. CASE HandleSample(c)
  <2> DEFINE m == Head(up[c])
             reg == IngestSample(latest, n, c, m.seq, m.stamp, m.valid)
  <2>1. m.seq \in Nat /\ m.stamp \in Stamp /\ m.valid \in BOOLEAN
    BY <1>3, <1>5, MessageFields DEF HandleSample, Receives
  <2>2. reg \in [Nodes -> Runtime]
    BY <1>1, <1>2, <2>1, IngestTypes
  <2>3. Ack \in DownMessage
    BY MessageTypes
  <2> QED BY <1>2, <1>5, <2>2, <2>3, ReplyTypes DEF HandleSample, Receives
<1>6. CASE HandleHeartbeat(c)
  <2>1. Head(up[c]).seq \in Nat
    BY <1>3, <1>6, MessageFields DEF HandleHeartbeat, Receives
  <2>2. IngestHeartbeat(latest, n, c, Head(up[c]).seq) \in [Nodes -> Runtime]
    BY <1>1, <1>2, <2>1, IngestTypes
  <2>3. Ack \in DownMessage
    BY MessageTypes
  <2> QED BY <1>2, <1>6, <2>2, <2>3, ReplyTypes DEF HandleHeartbeat, Receives
<1>7. CASE HandleAnswer(c)
  <2> DEFINE m == Head(up[c])
  <2>1. m.kind \in Kinds /\ m.req \in Requests
    BY <1>3, <1>7, MessageFields DEF HandleAnswer, Receives
  <2>2. Resolve(broker, n, c, m.req, m.kind) \in Broker
    BY <1>1, <1>2, <2>1, BrokerTypes
  <2>3. broker' \in Broker
    BY <1>7, <2>2 DEF HandleAnswer
  <2>4. up' \in [Conns -> Seq(UpMessage)]
    BY <1>3, <1>7 DEF HandleAnswer, Receives, TypeOK
  <2> QED BY <1>7, <2>3, <2>4 DEF HandleAnswer, TypeOK
<1>8. CASE HandleDisconnect(c)
  <2>1. CASE handler[c] = "serving" /\ Leave(c, latest, broker)
    BY <1>2, <1>8, <2>1, LeaveTypes DEF HandleDisconnect, TypeOK
  <2>2. CASE /\ handler[c] = "accepted"
             /\ handler' = [handler EXCEPT ![c] = "closed"]
             /\ sendq' = [sendq EXCEPT ![c] = <<>>]
             /\ UNCHANGED <<latest, broker>>
    <3>1. <<>> \in Seq(DownMessage)
      OBVIOUS
    <3> QED BY <1>8, <2>2, <3>1 DEF HandleDisconnect, TypeOK
  <2> QED BY <1>8, <2>1, <2>2 DEF HandleDisconnect
<1>9. CASE Send(c)
  <2>1. Head(sendq[c]) \in DownMessage /\ Tail(sendq[c]) \in Seq(DownMessage)
    BY <1>2, <1>9, HeadTailProperties DEF Send
  <2>2. Append(down[c], Head(sendq[c])) \in Seq(DownMessage)
    BY <1>2, <2>1, BufferTypes
  <2> QED BY <1>9, <2>1, <2>2 DEF Send, TypeOK
<1> QED BY <1>4, <1>5, <1>6, <1>7, <1>8, <1>9

\* So does every step of a caller, of an admin and of the clock.
LEMMA ManagerTypes ==
    ASSUME TypeOK,
           \/ \E r \in Requests :
                 \/ RequestTimeout(r) \/ RequestReturns(r)
                 \/ \E n \in Nodes : Request(r, n)
           \/ ChangeSettings
           \/ Tick
    PROVE  TypeOK'
<1>1. ASSUME NEW r \in Requests, RequestTimeout(r) \/ RequestReturns(r)
      PROVE  TypeOK'
  <2>1. PICK outcome \in {"timeout", "ok", "unavailable"} :
           broker' = Settle(broker, r, outcome)
    BY <1>1 DEF RequestTimeout, RequestReturns
  <2>2. broker' \in Broker
    <3>1. outcome \in CallState /\ broker \in Broker
      BY DEF CallState, TypeOK
    <3>2. Settle(broker, r, outcome) \in Broker
      BY <3>1 DEF Settle, Broker, Call
    <3> QED BY <2>1, <3>2
  <2>3. UNCHANGED <<latest, settings, handler, sendq, link, up, down,
                    agent, served, missed>>
    BY <1>1 DEF RequestTimeout, RequestReturns
  <2> QED BY <2>2, <2>3 DEF TypeOK
<1>2. ASSUME NEW r \in Requests, NEW n \in Nodes, Request(r, n)
      PROVE  TypeOK'
  <2> DEFINE c == broker.conns[n]
             outcome == RequestOutcome(broker, n, c # NoConn /\ HasRoom(c))
  <2>1. outcome \in CallState
    BY DEF RequestOutcome, CallState
  <2>2. Start(broker, r, n, outcome) \in Broker
    BY <2>1, CallTypes DEF TypeOK
  <2>3. broker' \in Broker
    BY <1>2, <2>2 DEF Request
  <2>4. sendq' \in [Conns -> Seq(DownMessage)]
    <3>1. KindOf[r] \in Kinds
      BY BrokerAssumption DEF BrokerAssumption, Kinds
    <3>2. Ask(KindOf[r], r) \in DownMessage
      BY <3>1, MessageTypes
    <3>3. ASSUME outcome = "waiting"
          PROVE  c \in Conns
      BY <3>3 DEF RequestOutcome, TypeOK, Broker
    <3>4. ASSUME outcome = "waiting"
          PROVE  Append(sendq[c], Ask(KindOf[r], r)) \in Seq(DownMessage)
      BY <3>2, <3>3, <3>4, BufferTypes DEF TypeOK
    <3>5. \/ outcome = "waiting" /\
               sendq' = [sendq EXCEPT ![c] = Append(@, Ask(KindOf[r], r))]
          \/ sendq' = sendq
      BY <1>2 DEF Request
    <3> HIDE DEF outcome, c
    <3> QED BY <3>3, <3>4, <3>5 DEF TypeOK
  <2> QED BY <1>2, <2>3, <2>4 DEF Request, TypeOK
<1>3. CASE ChangeSettings
  <2>1. settings' \in Nat /\ Config(settings + 1) \in DownMessage
    BY <1>3, MessageTypes DEF ChangeSettings, TypeOK
  <2>2. \A c \in Conns : Append(sendq[c], Config(settings + 1)) \in Seq(DownMessage)
    BY <2>1, BufferTypes DEF TypeOK
  <2>3. sendq' \in [Conns -> Seq(DownMessage)]
    BY <1>3, <2>2 DEF ChangeSettings, TypeOK
  <2>4. missed' \in SUBSET Conns
    BY <1>3 DEF ChangeSettings, TypeOK
  <2> QED BY <1>3, <2>1, <2>3, <2>4 DEF ChangeSettings, TypeOK
<1>4. CASE Tick
  <2>1. Older(latest) \in [Nodes -> Runtime]
    BY OlderTypes DEF TypeOK
  <2> QED BY <1>4, <2>1 DEF Tick, TypeOK
<1> QED BY <1>1, <1>2, <1>3, <1>4

\* So does every step of an agent.
LEMMA AgentTypes ==
    ASSUME TypeOK, NEW n \in Nodes,
           \/ Collect(n) \/ SendSample(n) \/ SendHeartbeat(n)
           \/ ReceiveOther(n) \/ ReceiveAsk(n)
           \/ Notice(n) \/ Exec(n) \/ Crash(n)
    PROVE  TypeOK'
<1> DEFINE a == agent[n]
           c == a.conn
<1>1. /\ agent \in [Nodes -> AgentProcess] /\ a \in AgentProcess
      /\ c \in Conns \cup {NoConn}
      /\ a.msgSeq \in Nat /\ a.sentSeq \in Nat /\ a.collected \in Nat
      /\ a.incarnation \in Nat
      /\ a.msgSeq + 1 \in Nat /\ a.collected + 1 \in Nat
      /\ a.incarnation + 1 \in Nat
  <2>1. agent \in [Nodes -> AgentProcess] /\ a \in AgentProcess
    BY DEF TypeOK
  <2>2. /\ c \in Conns \cup {NoConn}
        /\ a.msgSeq \in Nat /\ a.sentSeq \in Nat /\ a.collected \in Nat
        /\ a.incarnation \in Nat
    BY <2>1 DEF AgentProcess
  <2> QED BY <2>1, <2>2
<1>2. Online(n) => c \in Conns
  BY <1>1, IdentityAssumption DEF Online
<1>3. c \in Conns => down[c] \in Seq(DownMessage) /\ up[c] \in Seq(UpMessage)
  BY DEF TypeOK
<1>4. ASSUME Online(n), NEW m \in UpMessage,
             up' = [up EXCEPT ![c] = Append(@, m)]
      PROVE  up' \in [Conns -> Seq(UpMessage)]
  <2>1. Append(up[c], m) \in Seq(UpMessage)
    BY <1>2, <1>3, <1>4, BufferTypes
  <2> QED BY <1>4, <2>1 DEF TypeOK
<1>5. ASSUME Receiving(n), down' = [down EXCEPT ![c] = Tail(@)]
      PROVE  /\ Head(down[c]) \in DownMessage
             /\ down' \in [Conns -> Seq(DownMessage)]
  <2>1. Head(down[c]) \in DownMessage /\ Tail(down[c]) \in Seq(DownMessage)
    BY <1>2, <1>3, <1>5, HeadTailProperties DEF Receiving
  <2> QED BY <1>5, <2>1 DEF TypeOK
<1>6. CASE Collect(n)
  <2>1. [a EXCEPT !.collected = a.collected + 1] \in AgentProcess
    BY <1>1, ProcessTypes
  <2>2. agent' = [agent EXCEPT ![n] = [a EXCEPT !.collected = a.collected + 1]]
    BY <1>6 DEF Collect
  <2>3. agent' \in [Nodes -> AgentProcess]
    BY <1>1, <2>1, <2>2
  <2> QED BY <1>6, <2>3 DEF Collect, TypeOK, managerVars
<1>7. CASE SendSample(n)
  <2> DEFINE a1 == [a EXCEPT !.msgSeq = a.msgSeq + 1]
             a2 == [a1 EXCEPT !.sentSeq = a.collected]
  <2>1. a2 \in AgentProcess
    <3>1. a1 \in AgentProcess
      BY <1>1, ProcessTypes
    <3> HIDE DEF a1
    <3> QED BY <1>1, <3>1, ProcessTypes
  <2>2. agent' = [agent EXCEPT ![n] = a2]
    BY <1>1, <1>7 DEF SendSample
  <2>3. PICK valid \in BOOLEAN :
           up' = [up EXCEPT ![c] = Append(@, Sample(a.msgSeq + 1,
                                    <<a.incarnation, a.collected>>, valid))]
    BY <1>7 DEF SendSample
  <2>4. Sample(a.msgSeq + 1, <<a.incarnation, a.collected>>, valid) \in UpMessage
    BY <1>1, MessageTypes DEF Stamp
  <2>5. up' \in [Conns -> Seq(UpMessage)]
    BY <1>4, <1>7, <2>3, <2>4 DEF SendSample
  <2>6. agent' \in [Nodes -> AgentProcess]
    BY <1>1, <2>1, <2>2
  <2> QED BY <1>7, <2>5, <2>6 DEF SendSample, TypeOK, managerVars
<1>8. CASE SendHeartbeat(n)
  <2>1. [a EXCEPT !.msgSeq = a.msgSeq + 1] \in AgentProcess
    BY <1>1, ProcessTypes
  <2>2. agent' = [agent EXCEPT ![n] = [a EXCEPT !.msgSeq = a.msgSeq + 1]]
    BY <1>8 DEF SendHeartbeat
  <2>3. Heartbeat(a.msgSeq + 1) \in UpMessage
    BY <1>1, MessageTypes
  <2>4. up' \in [Conns -> Seq(UpMessage)]
    BY <1>4, <1>8, <2>3 DEF SendHeartbeat
  <2>5. agent' \in [Nodes -> AgentProcess]
    BY <1>1, <2>1, <2>2
  <2> QED BY <1>8, <2>4, <2>5 DEF SendHeartbeat, TypeOK, managerVars
<1>9. CASE ReceiveOther(n)
  <2> DEFINE m == Head(down[c])
  <2>1. m \in DownMessage /\ down' \in [Conns -> Seq(DownMessage)]
    BY <1>5, <1>9 DEF ReceiveOther
  <2>2. m.type = "config" => m.version \in Nat
    BY <2>1, MessageFields
  <2>3. ASSUME m.type = "config"
        PROVE  [a EXCEPT !.config = m.version] \in AgentProcess
    BY <1>1, <2>2, <2>3, ProcessTypes
  <2>4. \/ m.type = "config" /\
             agent' = [agent EXCEPT ![n] = [a EXCEPT !.config = m.version]]
        \/ agent' = agent
    BY <1>9 DEF ReceiveOther
  <2>5. agent' \in [Nodes -> AgentProcess]
    BY <1>1, <2>3, <2>4
  <2> QED BY <1>9, <2>1, <2>5 DEF ReceiveOther, TypeOK, managerVars
<1>10. CASE ReceiveAsk(n)
  <2> DEFINE m == Head(down[c])
  <2>1. m \in DownMessage /\ down' \in [Conns -> Seq(DownMessage)]
    BY <1>5, <1>10 DEF ReceiveAsk
  <2>2. m.kind \in Kinds /\ m.req \in Requests
    BY <1>10, <2>1, MessageFields DEF ReceiveAsk
  <2>3. Answer(m.kind, m.req) \in UpMessage
    BY <2>2, MessageTypes
  <2>4. up' \in [Conns -> Seq(UpMessage)]
    BY <1>4, <1>10, <2>3 DEF ReceiveAsk, Receiving
  <2>5. [a EXCEPT !.unwinding = (m.kind = "restart")] \in AgentProcess
    BY <1>1, ProcessTypes
  <2>6. agent' = [agent EXCEPT ![n] =
                    [a EXCEPT !.unwinding = (m.kind = "restart")]]
    BY <1>10 DEF ReceiveAsk
  <2>7. agent' \in [Nodes -> AgentProcess]
    BY <1>1, <2>5, <2>6
  <2>8. served' \in [Requests -> Int]
    BY <1>1, <1>10, <2>2 DEF ReceiveAsk, TypeOK
  <2> QED BY <1>10, <2>1, <2>4, <2>7, <2>8 DEF ReceiveAsk, TypeOK, managerVars
<1>11. CASE Notice(n)
  <2>1. [a EXCEPT !.conn = NoConn] \in AgentProcess
    BY <1>1, ProcessTypes
  <2>2. agent' = [agent EXCEPT ![n] = [a EXCEPT !.conn = NoConn]]
    BY <1>11 DEF Notice
  <2>3. agent' \in [Nodes -> AgentProcess]
    BY <1>1, <2>1, <2>2
  <2> QED BY <1>11, <2>3 DEF Notice, TypeOK, managerVars
<1>12. CASE NewProcess(n)
  <2>1. FreshProcess(a.incarnation + 1) \in AgentProcess
    BY <1>1, ProcessTypes
  <2>2. agent' \in [Nodes -> AgentProcess]
    BY <1>1, <1>12, <2>1 DEF NewProcess
  <2>3. /\ link' \in [Conns -> {"unused", "open", "shut"}]
        /\ up' \in [Conns -> Seq(UpMessage)]
        /\ down' \in [Conns -> Seq(DownMessage)]
    BY <1>2, <1>12, ShutTypes DEF NewProcess, TypeOK
  <2> QED BY <1>12, <2>2, <2>3 DEF NewProcess, TypeOK, managerVars
<1> QED BY <1>6, <1>7, <1>8, <1>9, <1>10, <1>11, <1>12 DEF Exec, Crash

\* So does every step of the network.
LEMMA NetworkTypes ==
    ASSUME TypeOK, NEW c \in Conns, Break(c) \/ Connect(c)
    PROVE  TypeOK'
<1>1. CASE Break(c)
  BY <1>1, ShutTypes DEF Break, TypeOK, managerVars
<1>2. CASE Connect(c)
  <2> DEFINE n == NodeOf[c]
             a1 == [agent[n] EXCEPT !.conn = c]
             a2 == [a1 EXCEPT !.msgSeq = 0]
             a3 == [a2 EXCEPT !.sentSeq = 0]
  <2>1. n \in Nodes /\ agent[n] \in AgentProcess
    BY LinkAssumption DEF LinkAssumption, TypeOK
  <2>2. a1 \in AgentProcess
    BY <2>1, ProcessTypes
  <2>3. agent' = [agent EXCEPT ![n] = a3]
    BY <1>2, <2>1 DEF Connect
  <2> HIDE DEF a1
  <2>4. a2 \in AgentProcess
    BY <2>2, ProcessTypes
  <2> HIDE DEF a2
  <2>5. a3 \in AgentProcess
    BY <2>4, ProcessTypes
  <2>6. agent' \in [Nodes -> AgentProcess]
    BY <2>1, <2>3, <2>5 DEF TypeOK
  <2>7. <<Hello>> \in Seq(UpMessage)
    BY MessageTypes
  <2>8. /\ link' \in [Conns -> {"unused", "open", "shut"}]
        /\ handler' \in [Conns -> {"none", "accepted", "serving", "closed"}]
        /\ up' \in [Conns -> Seq(UpMessage)]
    BY <1>2, <2>7 DEF Connect, TypeOK
  <2> QED BY <1>2, <2>6, <2>8 DEF Connect, TypeOK
<1> QED BY <1>1, <1>2

\* Every step of the link keeps the types.
LEMMA TypeStep == TypeOK /\ [Next]_vars => TypeOK'
<1> SUFFICES ASSUME TypeOK, [Next]_vars PROVE TypeOK'
  OBVIOUS
<1>1. CASE Manager
  BY <1>1, HandlerTypes, ManagerTypes DEF Manager
<1>2. CASE Agents
  BY <1>2, AgentTypes DEF Agents
<1>3. CASE Network
  BY <1>3, NetworkTypes DEF Network
<1>4. CASE UNCHANGED vars
  BY <1>4 DEF vars, managerVars, TypeOK
<1> QED BY <1>1, <1>2, <1>3, <1>4 DEF Next

\* Every variable of the link keeps its type.
THEOREM TypeCorrect == Spec => []TypeOK
<1> QED BY TypeInit, TypeStep, PTL DEF Spec

-----------------------------------------------------------------------------
(* The registry and the broker agree.  Agreement is not inductive: a sample *)
(* sets `connected` on its connection's runtime, so it matters that a       *)
(* served connection that a runtime names is connected, and that the        *)
(* runtime names a connection of its own node.  The invariant is stated of  *)
(* any registry, broker and handlers, because a handler computes them in    *)
(* stages before its turn of the event loop ends.                           *)

OwnerInv(reg, b, h) ==
    /\ \A n \in Nodes :
          /\ reg[n].known =>
                /\ reg[n].conn \in Conns /\ NodeOf[reg[n].conn] = n
                /\ h[reg[n].conn] \in {"serving", "closed"}
                /\ reg[n].connected <=> h[reg[n].conn] = "serving"
          /\ reg[n].connected => reg[n].known
          /\ b.conns[n] = IF reg[n].connected THEN reg[n].conn ELSE NoConn
    /\ \A c \in Conns : h[c] = "serving" => reg[NodeOf[c]].known

CallsInv(b) ==
    \A r \in Requests :
        b.calls[r].state = "waiting" =>
            /\ b.calls[r].node \in Nodes
            /\ b.calls[r].conn # NoConn
            /\ b.conns[b.calls[r].node] = b.calls[r].conn

LinkInv == OwnerInv(latest, broker, handler) /\ CallsInv(broker)

\* A websocket belongs to the agent of a node.
LEMMA NodeOfType == \A c \in Conns : NodeOf[c] \in Nodes
  BY LinkAssumption DEF LinkAssumption

\* A hello hands its node over, whoever had it.
LEMMA HelloOwner ==
    ASSUME NEW reg \in [Nodes -> Runtime], NEW b \in Broker, NEW c \in Conns,
           NEW h \in [Conns -> {"none", "accepted", "serving", "closed"}],
           OwnerInv(reg, b, h), h[c] = "accepted"
    PROVE  OwnerInv(RegisterHello(reg, NodeOf[c], c),
                    Register(b, NodeOf[c], c), [h EXCEPT ![c] = "serving"])
<1> DEFINE n == NodeOf[c]
           reg2 == RegisterHello(reg, n, c)
           b2 == Register(b, n, c)
           h2 == [h EXCEPT ![c] = "serving"]
<1>1. n \in Nodes
  BY NodeOfType
<1>2. /\ reg2[n].known /\ reg2[n].connected /\ reg2[n].conn = c
      /\ \A m \in Nodes \ {n} : reg2[m] = reg[m]
      /\ reg2[n] \in Runtime
  BY <1>1, RegistryTypes DEF RegisterHello
<1>3. /\ b2.conns[n] = c
      /\ \A m \in Nodes \ {n} : b2.conns[m] = b.conns[m]
  BY <1>1 DEF Register, Broker
<1>4. h2[c] = "serving" /\ \A d \in Conns \ {c} : h2[d] = h[d]
  OBVIOUS
<1>5. \A m \in Nodes : reg[m].known => reg[m].conn # c
  BY DEF OwnerInv
<1> HIDE DEF reg2, b2, h2, n
<1>6. ASSUME NEW m \in Nodes
      PROVE  /\ reg2[m].known =>
                   /\ reg2[m].conn \in Conns /\ NodeOf[reg2[m].conn] = m
                   /\ h2[reg2[m].conn] \in {"serving", "closed"}
                   /\ reg2[m].connected <=> h2[reg2[m].conn] = "serving"
             /\ reg2[m].connected => reg2[m].known
             /\ b2.conns[m] = IF reg2[m].connected THEN reg2[m].conn ELSE NoConn
  <2>1. CASE m = n
    BY <1>2, <1>3, <1>4, <2>1 DEF n
  <2>2. CASE m # n
    BY <1>2, <1>3, <1>4, <1>5, <2>2 DEF OwnerInv
  <2> QED BY <2>1, <2>2
<1>7. ASSUME NEW d \in Conns, h2[d] = "serving"
      PROVE  reg2[NodeOf[d]].known
  BY <1>2, <1>4, <1>7, NodeOfType DEF OwnerInv, n
<1> QED BY <1>6, <1>7 DEF OwnerInv, reg2, b2, h2, n

\* The finally block frees the node if the connection still owns it.
LEMMA LeaveOwner ==
    ASSUME NEW reg \in [Nodes -> Runtime], NEW b \in Broker, NEW c \in Conns,
           NEW h \in [Conns -> {"none", "accepted", "serving", "closed"}],
           OwnerInv(reg, b, h), h[c] = "serving"
    PROVE  OwnerInv(Disconnect(reg, NodeOf[c], c),
                    Unregister(b, NodeOf[c], c), [h EXCEPT ![c] = "closed"])
<1> DEFINE n == NodeOf[c]
           reg2 == Disconnect(reg, n, c)
           b2 == Unregister(b, n, c)
           h2 == [h EXCEPT ![c] = "closed"]
<1>1. n \in Nodes /\ reg[n].known /\ reg[n].conn \in Conns
  BY NodeOfType DEF OwnerInv
<1>2. /\ \A m \in Nodes : reg2[m].known = reg[m].known /\ reg2[m].conn = reg[m].conn
      /\ \A m \in Nodes \ {n} : reg2[m].connected = reg[m].connected
      /\ reg2[n].connected = IF reg[n].conn = c THEN FALSE ELSE reg[n].connected
  BY <1>1, IdentityAssumption DEF Disconnect, ConnectionMatches, Runtime
<1>3. /\ \A m \in Nodes \ {n} : b2.conns[m] = b.conns[m]
      /\ b2.conns[n] = IF b.conns[n] = c THEN NoConn ELSE b.conns[n]
  BY <1>1 DEF Unregister, Broker
<1>4. h2[c] = "closed" /\ \A d \in Conns \ {c} : h2[d] = h[d]
  OBVIOUS
<1>5. \A m \in Nodes : reg[m].known /\ reg[m].conn = c => m = n
  BY DEF OwnerInv
<1> HIDE DEF reg2, b2, h2, n
<1>6. ASSUME NEW m \in Nodes
      PROVE  /\ reg2[m].known =>
                   /\ reg2[m].conn \in Conns /\ NodeOf[reg2[m].conn] = m
                   /\ h2[reg2[m].conn] \in {"serving", "closed"}
                   /\ reg2[m].connected <=> h2[reg2[m].conn] = "serving"
             /\ reg2[m].connected => reg2[m].known
             /\ b2.conns[m] = IF reg2[m].connected THEN reg2[m].conn ELSE NoConn
  <2>1. CASE m = n
    <3>1. /\ NodeOf[reg[n].conn] = n
          /\ h[reg[n].conn] \in {"serving", "closed"}
          /\ reg[n].connected <=> h[reg[n].conn] = "serving"
          /\ b.conns[n] = IF reg[n].connected THEN reg[n].conn ELSE NoConn
      BY <1>1 DEF OwnerInv
    <3>2. CASE reg[n].conn = c
      <4>1. b.conns[n] = c
        BY <3>1, <3>2
      <4> QED BY <1>1, <1>2, <1>3, <1>4, <2>1, <3>1, <3>2, <4>1
    <3>3. CASE reg[n].conn # c
      <4>1. b.conns[n] # c
        BY <3>1, <3>3, IdentityAssumption
      <4>2. b2.conns[n] = b.conns[n] /\ reg2[n].connected = reg[n].connected
        BY <1>2, <1>3, <3>3, <4>1
      <4> QED BY <1>1, <1>2, <1>4, <2>1, <3>1, <3>3, <4>2
    <3> QED BY <3>2, <3>3
  <2>2. CASE m # n
    BY <1>2, <1>3, <1>4, <1>5, <2>2 DEF OwnerInv
  <2> QED BY <2>1, <2>2
<1>7. ASSUME NEW d \in Conns, h2[d] = "serving"
      PROVE  reg2[NodeOf[d]].known
  BY <1>2, <1>4, <1>7, NodeOfType DEF OwnerInv
<1> QED BY <1>6, <1>7 DEF OwnerInv, reg2, b2, h2, n

\* A sample or a heartbeat changes no owner.
LEMMA IngestOwner ==
    ASSUME NEW reg \in [Nodes -> Runtime], NEW b \in Broker, NEW c \in Conns,
           NEW h \in [Conns -> {"none", "accepted", "serving", "closed"}],
           OwnerInv(reg, b, h), h[c] = "serving", NEW seq \in Nat,
           NEW stamp \in Stamp, NEW valid \in BOOLEAN
    PROVE  /\ OwnerInv(IngestSample(reg, NodeOf[c], c, seq, stamp, valid), b, h)
           /\ OwnerInv(IngestHeartbeat(reg, NodeOf[c], c, seq), b, h)
<1> DEFINE n == NodeOf[c]
           Same(reg2) == \A m \in Nodes :
                            /\ reg2[m].known = reg[m].known
                            /\ reg2[m].conn = reg[m].conn
                            /\ reg2[m].connected = reg[m].connected
<1>1. /\ n \in Nodes /\ reg[n].known /\ reg[n].conn \in Conns
      /\ reg[n].conn = c => reg[n].connected
      /\ reg[n] \in Runtime
  BY NodeOfType DEF OwnerInv
<1>2. reg[n].conn # NoConn /\ reg[n].known = TRUE
  BY <1>1, IdentityAssumption DEF Runtime
<1>3. Same(IngestSample(reg, n, c, seq, stamp, valid))
  <2> DEFINE reg2 == IngestSample(reg, n, c, seq, stamp, valid)
  <2> SUFFICES Same(reg2)
    OBVIOUS
  <2>1. CASE reg2 = reg
    BY <2>1
  <2>2. CASE reg2 = [reg EXCEPT ![n].error = TRUE]
    BY <1>1, <2>2 DEF Runtime
  <2>3. CASE /\ reg[n].conn = c
             /\ reg2 = [reg EXCEPT ![n] =
                  [known |-> TRUE, conn |-> c, connected |-> TRUE,
                   lastSeq |-> seq, stamp |-> stamp, error |-> FALSE, age |-> 0]]
    <3>1. reg[n].connected = TRUE
      BY <1>1, <2>3 DEF Runtime
    <3> HIDE DEF reg2, n
    <3> QED BY <1>1, <1>2, <2>3, <3>1
  <2>4. CASE reg[n].conn # c
    <3>1. ~Admits(reg[n], c, seq)
      BY <1>2, <2>4 DEF Admits, ConnectionMatches
    <3> QED BY <2>1, <3>1 DEF IngestSample
  <2>5. CASE reg[n].conn = c
    <3>1. ConnectionMatches(reg[n], c)
      BY <2>5 DEF ConnectionMatches
    <3>2. RejectSample(reg, n, c) = [reg EXCEPT ![n].error = TRUE]
      BY <1>2, <3>1 DEF RejectSample
    <3>3. CASE ~Admits(reg[n], c, seq)
      BY <2>1, <3>3 DEF IngestSample
    <3>4. CASE Admits(reg[n], c, seq) /\ ~valid
      BY <2>2, <3>2, <3>4 DEF IngestSample
    <3>5. CASE Admits(reg[n], c, seq) /\ valid
      BY <2>3, <2>5, <3>5 DEF IngestSample
    <3> QED BY <3>3, <3>4, <3>5
  <2> QED BY <2>4, <2>5
<1>4. Same(IngestHeartbeat(reg, n, c, seq))
  <2> DEFINE reg2 == IngestHeartbeat(reg, n, c, seq)
             last == IF seq > reg[n].lastSeq THEN seq ELSE reg[n].lastSeq
             rt == [reg[n] EXCEPT !.connected = TRUE, !.age = 0, !.lastSeq = last]
  <2> SUFFICES Same(reg2)
    OBVIOUS
  <2>1. CASE reg2 = reg
    BY <2>1
  <2>2. CASE reg[n].conn = c /\ reg2 = [reg EXCEPT ![n] = rt]
    <3>1. /\ rt.known = reg[n].known /\ rt.conn = reg[n].conn
          /\ rt.connected = TRUE
      BY <1>1 DEF Runtime
    <3>2. reg[n].connected = TRUE
      BY <1>1, <2>2 DEF Runtime
    <3> HIDE DEF rt, reg2, n
    <3> QED BY <1>1, <2>2, <3>1, <3>2
  <2>3. CASE reg[n].conn # c
    <3>1. ~ConnectionMatches(reg[n], c)
      BY <1>2, <2>3 DEF ConnectionMatches
    <3>2. reg2 = reg
      BY <1>2, <3>1 DEF IngestHeartbeat
    <3> QED BY <2>1, <3>2
  <2>4. CASE reg[n].conn = c
    <3>1. ConnectionMatches(reg[n], c)
      BY <2>4 DEF ConnectionMatches
    <3>2. reg2 = [reg EXCEPT ![n] = rt]
      BY <1>2, <3>1 DEF IngestHeartbeat
    <3> QED BY <2>2, <2>4, <3>2
  <2> QED BY <2>3, <2>4
<1>5. ASSUME NEW reg2, Same(reg2)
      PROVE  OwnerInv(reg2, b, h)
  BY <1>5, NodeOfType DEF OwnerInv
<1> QED BY <1>3, <1>4, <1>5

\* Replacing or ending a connection leaves no call waiting on it.
LEMMA ConnectionCalls ==
    ASSUME NEW b \in Broker, NEW n \in Nodes, NEW c \in Conns, CallsInv(b)
    PROVE  CallsInv(Register(b, n, c)) /\ CallsInv(Unregister(b, n, c))
<1>1. ASSUME NEW r \in Requests,
             FailPending(b.calls, n)[r].state = "waiting"
      PROVE  /\ FailPending(b.calls, n)[r] = b.calls[r]
             /\ b.calls[r].node # n
  BY <1>1 DEF FailPending, Broker, Call
<1>2. CallsInv(Register(b, n, c))
  <2> DEFINE b2 == Register(b, n, c)
  <2> SUFFICES CallsInv(b2)
    OBVIOUS
  <2>1. \A m \in Nodes \ {n} : b2.conns[m] = b.conns[m]
    BY DEF Register, Broker
  <2>2. b2.conns[n] = c
    BY DEF Register, Broker
  <2>3. CASE b.conns[n] \in {NoConn, c}
    <3>1. b2.calls = b.calls
      BY <2>3 DEF Register
    <3> HIDE DEF b2
    <3> QED BY <2>1, <2>2, <2>3, <3>1 DEF CallsInv
  <2>4. CASE b.conns[n] \notin {NoConn, c}
    <3>1. b2.calls = FailPending(b.calls, n)
      BY <2>4 DEF Register
    <3> HIDE DEF b2
    <3> QED BY <1>1, <2>1, <3>1 DEF CallsInv
  <2> QED BY <2>3, <2>4
<1>3. CallsInv(Unregister(b, n, c))
  <2> DEFINE b2 == Unregister(b, n, c)
  <2> SUFFICES CallsInv(b2)
    OBVIOUS
  <2>1. CASE b.conns[n] # c
    BY <2>1 DEF Unregister
  <2>2. CASE b.conns[n] = c
    <3>1. \A m \in Nodes \ {n} : b2.conns[m] = b.conns[m]
      BY <2>2 DEF Unregister, Broker
    <3>2. b2.calls = FailPending(b.calls, n)
      BY <2>2 DEF Unregister
    <3> HIDE DEF b2
    <3> QED BY <1>1, <3>1, <3>2 DEF CallsInv
  <2> QED BY <2>1, <2>2
<1> QED BY <1>2, <1>3

\* Answering, ending and starting a call keeps the waiting ones on the
\* registered connections.
LEMMA CallCalls ==
    ASSUME NEW b \in Broker, NEW n \in Nodes, NEW r \in Requests, CallsInv(b)
    PROVE  /\ \A c \in Conns, kind \in Kinds : CallsInv(Resolve(b, n, c, r, kind))
           /\ \A outcome \in {"ok", "timeout", "unavailable"} :
                 CallsInv(Settle(b, r, outcome))
           /\ \A room \in BOOLEAN :
                 CallsInv(Start(b, r, n, RequestOutcome(b, n, room)))
<1>1. ASSUME NEW c \in Conns, NEW kind \in Kinds
      PROVE  CallsInv(Resolve(b, n, c, r, kind))
  BY DEF CallsInv, Resolve, Broker, Call
<1>2. ASSUME NEW outcome \in {"ok", "timeout", "unavailable"}
      PROVE  CallsInv(Settle(b, r, outcome))
  BY DEF CallsInv, Settle, Broker, Call
<1>3. ASSUME NEW room \in BOOLEAN
      PROVE  CallsInv(Start(b, r, n, RequestOutcome(b, n, room)))
  <2> DEFINE outcome == RequestOutcome(b, n, room)
             b2 == Start(b, r, n, outcome)
  <2>1. outcome = "waiting" => b.conns[n] # NoConn
    BY DEF RequestOutcome
  <2> HIDE DEF outcome
  <2>2. /\ b2.conns = b.conns
        /\ b2.calls[r] = [state |-> outcome, node |-> n, conn |-> b.conns[n]]
        /\ \A q \in Requests \ {r} : b2.calls[q] = b.calls[q]
    BY DEF Start, Broker
  <2> HIDE DEF b2
  <2>3. CallsInv(b2)
    BY <2>1, <2>2 DEF CallsInv
  <2> QED BY <2>3 DEF b2, outcome
<1> QED BY <1>1, <1>2, <1>3

\* Handling a message, and leaving because the queue is full.
LEMMA ReplyInv ==
    ASSUME TypeOK, NEW c \in Conns, NEW reg \in [Nodes -> Runtime],
           NEW b \in Broker, NEW msg \in DownMessage,
           OwnerInv(reg, b, [handler EXCEPT ![c] = "serving"]), CallsInv(b),
           Reply(c, reg, b, msg)
    PROVE  LinkInv'
<1> DEFINE h == [handler EXCEPT ![c] = "serving"]
<1>1. CASE HasRoom(c)
  BY <1>1 DEF Reply, LinkInv
<1>2. CASE ~HasRoom(c)
  <2>1. h \in [Conns -> {"none", "accepted", "serving", "closed"}]
        /\ h[c] = "serving"
    BY DEF TypeOK
  <2>2. OwnerInv(Disconnect(reg, NodeOf[c], c), Unregister(b, NodeOf[c], c),
                 [h EXCEPT ![c] = "closed"])
    BY <2>1, LeaveOwner
  <2>3. [h EXCEPT ![c] = "closed"] = [handler EXCEPT ![c] = "closed"]
    BY DEF TypeOK
  <2>4. CallsInv(Unregister(b, NodeOf[c], c))
    BY NodeOfType, ConnectionCalls
  <2> QED BY <1>2, <2>2, <2>3, <2>4 DEF Reply, Leave, LinkInv
<1> QED BY <1>1, <1>2

\* The manager starts with no owner and no call, which satisfies the inductive
\* invariant.
LEMMA LinkInit == Init => LinkInv
  BY DEF Init, LinkInv, OwnerInv, CallsInv, Absent, NoBroker

\* Every step of a handler, a caller, an agent or the network keeps the
\* inductive invariant.
LEMMA LinkStep == TypeOK /\ LinkInv /\ [Next]_vars => LinkInv'
<1> SUFFICES ASSUME TypeOK, LinkInv, [Next]_vars PROVE LinkInv'
  OBVIOUS
<1>1. /\ latest \in [Nodes -> Runtime] /\ broker \in Broker
      /\ handler \in [Conns -> {"none", "accepted", "serving", "closed"}]
      /\ OwnerInv(latest, broker, handler) /\ CallsInv(broker)
  BY DEF TypeOK, LinkInv
<1>2. ASSUME UNCHANGED <<latest, broker, handler>>
      PROVE  LinkInv'
  BY <1>2 DEF LinkInv
<1>3. ASSUME NEW c \in Conns, HandleHello(c)
      PROVE  LinkInv'
  <2> DEFINE n == NodeOf[c]
  <2>1. handler[c] = "accepted"
    BY <1>3 DEF HandleHello, Receives
  <2>2. OwnerInv(RegisterHello(latest, n, c), Register(broker, n, c),
                 [handler EXCEPT ![c] = "serving"])
    BY <1>1, <2>1, HelloOwner
  <2>3. CallsInv(Register(broker, n, c)) /\ Register(broker, n, c) \in Broker
    BY <1>1, NodeOfType, ConnectionCalls, BrokerTypes
  <2>4. RegisterHello(latest, n, c) \in [Nodes -> Runtime]
    BY <1>1, NodeOfType, RegistryTypes
  <2>5. Config(settings) \in DownMessage
    BY MessageTypes DEF TypeOK
  <2> QED BY <1>3, <2>2, <2>3, <2>4, <2>5, ReplyInv DEF HandleHello
<1>4. ASSUME NEW c \in Conns, handler[c] = "serving",
             NEW reg \in [Nodes -> Runtime], OwnerInv(reg, broker, handler),
             Reply(c, reg, broker, Ack)
      PROVE  LinkInv'
  <2>1. [handler EXCEPT ![c] = "serving"] = handler
    BY <1>1, <1>4
  <2>2. Ack \in DownMessage
    BY MessageTypes
  <2> QED BY <1>1, <1>4, <2>1, <2>2, ReplyInv
<1>5. ASSUME NEW c \in Conns, HandleSample(c)
      PROVE  LinkInv'
  <2> DEFINE m == Head(up[c])
             reg == IngestSample(latest, NodeOf[c], c, m.seq, m.stamp, m.valid)
  <2>1. handler[c] = "serving" /\ m \in UpMessage /\ m.type = "sample"
    BY <1>5, HeadTailProperties DEF HandleSample, Receives, TypeOK
  <2>2. m.seq \in Nat /\ m.stamp \in Stamp /\ m.valid \in BOOLEAN
    BY <2>1, MessageFields
  <2>3. reg \in [Nodes -> Runtime]
    BY <1>1, <2>2, NodeOfType, IngestTypes
  <2>4. OwnerInv(reg, broker, handler)
    BY <1>1, <2>1, <2>2, IngestOwner
  <2>5. Reply(c, reg, broker, Ack)
    BY <1>5 DEF HandleSample
  <2> QED BY <1>4, <2>1, <2>3, <2>4, <2>5
<1>6. ASSUME NEW c \in Conns, HandleHeartbeat(c)
      PROVE  LinkInv'
  <2> DEFINE m == Head(up[c])
             reg == IngestHeartbeat(latest, NodeOf[c], c, m.seq)
  <2>1. handler[c] = "serving" /\ m \in UpMessage /\ m.type = "heartbeat"
    BY <1>6, HeadTailProperties DEF HandleHeartbeat, Receives, TypeOK
  <2>2. m.seq \in Nat /\ NoStamp \in Stamp
    BY <2>1, MessageFields DEF NoStamp, Stamp
  <2>3. reg \in [Nodes -> Runtime]
    BY <1>1, <2>2, NodeOfType, IngestTypes
  <2>4. OwnerInv(reg, broker, handler)
    BY <1>1, <2>1, <2>2, IngestOwner
  <2>5. Reply(c, reg, broker, Ack)
    BY <1>6 DEF HandleHeartbeat
  <2> QED BY <1>4, <2>1, <2>3, <2>4, <2>5
<1>7. ASSUME NEW c \in Conns, HandleAnswer(c)
      PROVE  LinkInv'
  <2> DEFINE m == Head(up[c])
             b2 == Resolve(broker, NodeOf[c], c, m.req, m.kind)
  <2>1. m \in UpMessage /\ m.type = "answer"
    BY <1>7, HeadTailProperties DEF HandleAnswer, Receives, TypeOK
  <2>2. m.kind \in Kinds /\ m.req \in Requests
    BY <2>1, MessageFields
  <2>3. CallsInv(b2)
    BY <1>1, <2>2, NodeOfType, CallCalls
  <2>4. b2.conns = broker.conns
    BY <1>1 DEF Resolve, Broker
  <2>5. broker' = b2 /\ latest' = latest /\ handler' = handler
    BY <1>7 DEF HandleAnswer
  <2> HIDE DEF b2
  <2> QED BY <1>1, <2>3, <2>4, <2>5 DEF LinkInv, OwnerInv
<1>8. ASSUME NEW c \in Conns, HandleDisconnect(c)
      PROVE  LinkInv'
  <2>1. CASE handler[c] = "serving" /\ Leave(c, latest, broker)
    BY <1>1, <2>1, LeaveOwner, NodeOfType, ConnectionCalls DEF Leave, LinkInv
  <2>2. CASE /\ handler[c] = "accepted"
             /\ handler' = [handler EXCEPT ![c] = "closed"]
             /\ UNCHANGED <<latest, broker>>
    <3>1. \A d \in Conns : handler'[d] = IF d = c THEN "closed" ELSE handler[d]
      BY <1>1, <2>2
    <3>2. \A n \in Nodes : latest[n].known => latest[n].conn # c
      BY <1>1, <2>2 DEF OwnerInv
    <3> QED BY <1>1, <2>2, <3>1, <3>2 DEF LinkInv, OwnerInv
  <2> QED BY <1>8, <2>1, <2>2 DEF HandleDisconnect
<1>9. ASSUME NEW r \in Requests, RequestTimeout(r) \/ RequestReturns(r)
      PROVE  LinkInv'
  <2>1. PICK outcome \in {"timeout", "ok", "unavailable"} :
           broker' = Settle(broker, r, outcome)
    BY <1>9 DEF RequestTimeout, RequestReturns
  <2>2. broker'.conns = broker.conns
    BY <1>1, <2>1 DEF Settle, Broker
  <2>3. CallsInv(broker')
    <3>1. \A q \in Requests : q # r => broker'.calls[q] = broker.calls[q]
      BY <1>1, <2>1 DEF Settle, Broker
    <3>2. broker'.calls[r].state = outcome
      BY <1>1, <2>1 DEF Settle, Broker, Call
    <3> QED BY <1>1, <2>2, <3>1, <3>2 DEF CallsInv
  <2> QED BY <1>1, <1>9, <2>2, <2>3
          DEF RequestTimeout, RequestReturns, LinkInv, OwnerInv
<1>10. ASSUME NEW r \in Requests, NEW n \in Nodes, Request(r, n)
       PROVE  LinkInv'
  <2> DEFINE c == broker.conns[n]
             room == c # NoConn /\ HasRoom(c)
             b2 == Start(broker, r, n, RequestOutcome(broker, n, room))
  <2>1. broker' = b2 /\ latest' = latest /\ handler' = handler
    BY <1>10 DEF Request
  <2>2. CallsInv(b2)
    <3>1. room \in BOOLEAN
      OBVIOUS
    <3> HIDE DEF room
    <3> QED BY <1>1, <3>1, CallCalls
  <2>3. b2.conns = broker.conns
    BY <1>1 DEF Start, Broker
  <2> HIDE DEF b2
  <2> QED BY <1>1, <2>1, <2>2, <2>3 DEF LinkInv, OwnerInv
<1>11. CASE Tick
  <2>1. \A n \in Nodes : /\ latest'[n].known = latest[n].known
                         /\ latest'[n].conn = latest[n].conn
                         /\ latest'[n].connected = latest[n].connected
    BY <1>1, <1>11 DEF Tick, Older, Runtime
  <2> QED BY <1>1, <1>11, <2>1, NodeOfType DEF Tick, LinkInv, OwnerInv
<1>12. ASSUME NEW c \in Conns, Connect(c)
       PROVE  LinkInv'
  <2>1. handler[c] = "none" /\ UNCHANGED <<latest, broker>>
    BY <1>12 DEF Connect
  <2>2. \A d \in Conns : handler'[d] = IF d = c THEN "accepted" ELSE handler[d]
    BY <1>1, <1>12 DEF Connect
  <2>3. \A n \in Nodes : latest[n].known => latest[n].conn # c
    BY <1>1, <2>1 DEF OwnerInv
  <2> QED BY <1>1, <2>1, <2>2, <2>3 DEF LinkInv, OwnerInv
<1>13. CASE Manager
  <2>1. \A c \in Conns : Send(c) => UNCHANGED <<latest, broker, handler>>
    BY DEF Send
  <2>2. ChangeSettings => UNCHANGED <<latest, broker, handler>>
    BY DEF ChangeSettings
  <2> QED BY <1>2, <1>3, <1>5, <1>6, <1>7, <1>8, <1>9, <1>10, <1>11, <1>13,
             <2>1, <2>2 DEF Manager
<1>14. CASE Agents
  <2>1. UNCHANGED <<latest, broker, handler>>
    BY <1>14 DEF Agents, Collect, SendSample, SendHeartbeat, ReceiveOther,
                 ReceiveAsk, Notice, Exec, Crash, NewProcess, managerVars
  <2> QED BY <1>2, <2>1
<1>15. CASE Network
  <2>1. \A c \in Conns : Break(c) => UNCHANGED <<latest, broker, handler>>
    BY DEF Break, managerVars
  <2> QED BY <1>2, <1>12, <1>15, <2>1 DEF Network
<1>16. CASE UNCHANGED vars
  BY <1>2, <1>16 DEF vars, managerVars
<1> QED BY <1>13, <1>14, <1>15, <1>16 DEF Next

\* The inductive invariant holds in every state.
THEOREM LinkInvariant == Spec => [](TypeOK /\ LinkInv)
<1>1. Init => TypeOK /\ LinkInv
  BY TypeInit, LinkInit
<1>2. TypeOK /\ LinkInv /\ [Next]_vars => (TypeOK /\ LinkInv)'
  BY TypeStep, LinkStep
<1> QED BY <1>1, <1>2, PTL DEF Spec

\* The registry and the broker agree on the connection that serves a node,
\* however handlers of replaced connections are late.
THEOREM AgreementAlways == Spec => []Agreement
<1>1. LinkInv => Agreement
  BY DEF LinkInv, OwnerInv, Agreement
<1> QED BY <1>1, LinkInvariant, PTL

\* No caller waits on a connection that does not serve its node any more.
THEOREM NoOrphanAlways == Spec => []NoOrphanCall
<1>1. LinkInv => NoOrphanCall
  BY DEF LinkInv, CallsInv, NoOrphanCall
<1> QED BY <1>1, LinkInvariant, PTL

-----------------------------------------------------------------------------
(* The broker, and the registry, implement NodeOwnership.  By Agreement the  *)
(* two owner mappings are the same function, so one step simulation serves.  *)

OwnerStep ==
    \/ \E s \in Conns :
          \/ BrokerView!TakeOver(s) \/ BrokerView!End(s) \/ BrokerView!Abort(s)
    \/ UNCHANGED <<SessionOf, broker.conns>>

\* What leaves the handlers' sessions and the connections alone is a stutter.
LEMMA OwnerStutter ==
    ASSUME UNCHANGED handler, UNCHANGED broker.conns
    PROVE  OwnerStep
  BY DEF OwnerStep, SessionOf

\* A handler that leaves ends its session, and frees its node if it owns it.
LEMMA LeaveEnds ==
    ASSUME TypeOK, LinkInv, NEW c \in Conns, handler[c] = "serving",
           NEW reg, Leave(c, reg, broker)
    PROVE  BrokerView!End(c)
<1>1. SessionOf[c] = "during"
  BY DEF SessionOf
<1>2. SessionOf' = [SessionOf EXCEPT ![c] = "after"]
  <2>1. handler' = [handler EXCEPT ![c] = "closed"]
    BY DEF Leave
  <2> QED BY <2>1 DEF SessionOf, TypeOK
<1>3. broker'.conns = [n \in Nodes |-> IF broker.conns[n] = c THEN NoConn
                                                         ELSE broker.conns[n]]
  <2>1. broker.conns \in [Nodes -> Conns \cup {NoConn}]
    BY DEF TypeOK, Broker
  <2>2. \A n \in Nodes : broker.conns[n] = c => n = NodeOf[c]
    BY IdentityAssumption DEF LinkInv, OwnerInv
  <2>3. broker' = Unregister(broker, NodeOf[c], c)
    BY DEF Leave
  <2>4. CASE broker.conns[NodeOf[c]] = c
    <3>1. broker'.conns = [broker.conns EXCEPT ![NodeOf[c]] = NoConn]
      BY <2>3, <2>4 DEF Unregister
    <3> QED BY <2>1, <2>2, <2>4, <3>1, NodeOfType
  <2>5. CASE broker.conns[NodeOf[c]] # c
    <3>1. broker' = broker
      BY <2>3, <2>5 DEF Unregister
    <3> QED BY <2>1, <2>2, <2>5, <3>1
  <2> QED BY <2>4, <2>5
<1> QED BY <1>1, <1>2, <1>3 DEF BrokerView!End

\* A reply on a connection that is served changes no owner, or ends it.
LEMMA ReplyOwner ==
    ASSUME TypeOK, LinkInv, NEW c \in Conns, handler[c] = "serving",
           NEW reg, NEW msg, Reply(c, reg, broker, msg)
    PROVE  OwnerStep
<1>1. CASE HasRoom(c)
  <2>1. handler' = handler /\ broker' = broker
    BY <1>1 DEF Reply, TypeOK
  <2> QED BY <2>1, OwnerStutter
<1>2. CASE ~HasRoom(c)
  BY <1>2, LeaveEnds DEF Reply, OwnerStep
<1> QED BY <1>1, <1>2

\* A first message makes its connection the owner, or, when its queue is full,
\* lets it end at once.
LEMMA HelloTakesOver ==
    ASSUME TypeOK, LinkInv, NEW c \in Conns, HandleHello(c)
    PROVE  OwnerStep
<1> DEFINE n == NodeOf[c]
           b == Register(broker, n, c)
<1>1. handler[c] = "accepted" /\ SessionOf[c] = "before"
  BY DEF HandleHello, Receives, SessionOf
<1>2. n \in Nodes /\ broker.conns \in [Nodes -> Conns \cup {NoConn}]
  BY NodeOfType DEF TypeOK, Broker
<1>3. b.conns = [broker.conns EXCEPT ![n] = c]
  BY DEF Register
<1>4. CASE HasRoom(c)
  <2>1. broker' = b /\ handler' = [handler EXCEPT ![c] = "serving"]
    BY <1>4 DEF HandleHello, Reply
  <2>2. SessionOf' = [SessionOf EXCEPT ![c] = "during"]
    BY <2>1 DEF SessionOf, TypeOK
  <2> QED BY <1>1, <1>3, <2>1, <2>2 DEF BrokerView!TakeOver, OwnerStep
<1>5. CASE ~HasRoom(c)
  <2>1. /\ broker' = Unregister(b, n, c)
        /\ handler' = [handler EXCEPT ![c] = "closed"]
    BY <1>5 DEF HandleHello, Reply, Leave
  <2>2. SessionOf' = [SessionOf EXCEPT ![c] = "after"]
    BY <2>1 DEF SessionOf, TypeOK
  <2>3. broker'.conns = [broker.conns EXCEPT ![n] = NoConn]
    <3>1. b.conns[n] = c
      BY <1>2, <1>3
    <3>2. broker'.conns = [b.conns EXCEPT ![n] = NoConn]
      BY <2>1, <3>1 DEF Unregister
    <3> QED BY <1>2, <1>3, <3>2
  <2> QED BY <1>1, <2>2, <2>3 DEF BrokerView!Abort, OwnerStep
<1> QED BY <1>4, <1>5

\* Every step of the link is a step of NodeOwnership, or changes no owner.
LEMMA BrokerStep == TypeOK /\ LinkInv /\ [Next]_vars => OwnerStep
<1> SUFFICES ASSUME TypeOK, LinkInv, [Next]_vars PROVE OwnerStep
  OBVIOUS
<1>1. broker \in Broker
  BY DEF TypeOK
<1>2. ASSUME NEW c \in Conns, HandleSample(c) \/ HandleHeartbeat(c)
      PROVE  OwnerStep
  BY <1>2, ReplyOwner DEF HandleSample, HandleHeartbeat, Receives
<1>3. ASSUME NEW c \in Conns, HandleAnswer(c)
      PROVE  OwnerStep
  <2>1. UNCHANGED handler /\ UNCHANGED broker.conns
    BY <1>1, <1>3 DEF HandleAnswer, Resolve, Broker
  <2> QED BY <2>1, OwnerStutter
<1>4. ASSUME NEW c \in Conns, HandleDisconnect(c)
      PROVE  OwnerStep
  <2>1. CASE handler[c] = "serving" /\ Leave(c, latest, broker)
    BY <2>1, LeaveEnds DEF OwnerStep
  <2>2. CASE /\ handler[c] = "accepted"
             /\ handler' = [handler EXCEPT ![c] = "closed"]
             /\ UNCHANGED <<latest, broker>>
    <3>1. SessionOf[c] = "before"
      BY <2>2 DEF SessionOf
    <3>2. SessionOf' = [SessionOf EXCEPT ![c] = "after"]
      BY <2>2 DEF SessionOf, TypeOK
    <3> QED BY <2>2, <3>1, <3>2 DEF BrokerView!Abort, OwnerStep
  <2> QED BY <1>4, <2>1, <2>2 DEF HandleDisconnect
<1>5. ASSUME NEW r \in Requests,
             \/ RequestTimeout(r) \/ RequestReturns(r)
             \/ \E n \in Nodes : Request(r, n)
      PROVE  OwnerStep
  <2>1. UNCHANGED handler /\ UNCHANGED broker.conns
    BY <1>1, <1>5
    DEF RequestTimeout, RequestReturns, Request, Settle, Start, Broker
  <2> QED BY <2>1, OwnerStutter
<1>6. ASSUME NEW c \in Conns, Connect(c)
      PROVE  OwnerStep
  <2>1. /\ handler[c] = "none" /\ broker' = broker
        /\ handler' = [handler EXCEPT ![c] = "accepted"]
    BY <1>6 DEF Connect
  <2>2. SessionOf' = SessionOf
    BY <2>1 DEF SessionOf, TypeOK
  <2> QED BY <2>1, <2>2 DEF OwnerStep
<1>7. CASE Manager
  <2>1. \A c \in Conns : Send(c) => UNCHANGED handler /\ UNCHANGED broker.conns
    BY DEF Send
  <2>2. ChangeSettings \/ Tick => UNCHANGED handler /\ UNCHANGED broker.conns
    BY DEF ChangeSettings, Tick
  <2> QED BY <1>2, <1>3, <1>4, <1>5, <1>7, <2>1, <2>2, HelloTakesOver,
             OwnerStutter DEF Manager
<1>8. CASE Agents
  <2>1. UNCHANGED <<broker, handler>>
    BY <1>8 DEF Agents, Collect, SendSample, SendHeartbeat, ReceiveOther,
                ReceiveAsk, Notice, Exec, Crash, NewProcess, managerVars
  <2> QED BY <2>1, OwnerStutter
<1>9. CASE Network
  <2>1. \A c \in Conns : Break(c) => UNCHANGED handler /\ UNCHANGED broker.conns
    BY DEF Break, managerVars
  <2> QED BY <1>6, <1>9, <2>1, OwnerStutter DEF Network
<1>10. CASE UNCHANGED vars
  BY <1>10, OwnerStutter DEF vars, managerVars
<1> QED BY <1>7, <1>8, <1>9, <1>10 DEF Next

\* The broker implements NodeOwnership: whatever handlers of one node overlap,
\* the last hello owns the node until its own connection ends.
THEOREM BrokerImplements == Spec => BrokerOwnership
<1>1. Init => BrokerView!OwnershipInit
  BY DEF Init, BrokerView!OwnershipInit, SessionOf, NoBroker
<1>2. OwnerStep => [BrokerView!OwnershipNext]_<<SessionOf, broker.conns>>
  BY DEF OwnerStep, BrokerView!OwnershipNext
<1>3. TypeOK /\ LinkInv /\ [Next]_vars
        => [BrokerView!OwnershipNext]_<<SessionOf, broker.conns>>
  BY <1>2, BrokerStep
<1> QED BY <1>1, <1>3, LinkInvariant, PTL
        DEF Spec, BrokerOwnership, BrokerView!Ownership

\* The owner that the registry shows is the one the broker would ask.
RegistryOwner ==
    [n \in Nodes |-> IF latest[n].connected THEN latest[n].conn ELSE NoConn]

\* The registry implements NodeOwnership too: what users are shown about a
\* node follows the same ownership as what callers may ask of it.
THEOREM RegistryImplements == Spec => RegistryOwnership
<1>1. Init => RegistryView!OwnershipInit
  BY DEF Init, RegistryView!OwnershipInit, SessionOf, Absent
<1>2. TypeOK /\ LinkInv /\ (TypeOK /\ LinkInv)' /\ OwnerStep
        => [RegistryView!OwnershipNext]_<<SessionOf, RegistryOwner>>
  <2> SUFFICES ASSUME TypeOK, LinkInv, (TypeOK /\ LinkInv)', OwnerStep
               PROVE  [RegistryView!OwnershipNext]_<<SessionOf, RegistryOwner>>
    OBVIOUS
  <2>1. RegistryOwner = broker.conns /\ RegistryOwner' = broker'.conns
    BY DEF TypeOK, LinkInv, OwnerInv, Broker, RegistryOwner
  <2>2. ASSUME NEW s \in Conns, BrokerView!TakeOver(s)
        PROVE  RegistryView!TakeOver(s)
    BY <2>1, <2>2 DEF BrokerView!TakeOver, RegistryView!TakeOver, RegistryOwner
  <2>3. ASSUME NEW s \in Conns, BrokerView!End(s)
        PROVE  RegistryView!End(s)
    BY <2>1, <2>3 DEF BrokerView!End, RegistryView!End, RegistryOwner
  <2>4. ASSUME NEW s \in Conns, BrokerView!Abort(s)
        PROVE  RegistryView!Abort(s)
    BY <2>1, <2>4 DEF BrokerView!Abort, RegistryView!Abort, RegistryOwner
  <2> QED BY <2>1, <2>2, <2>3, <2>4 DEF OwnerStep, RegistryView!OwnershipNext
<1>3. TypeOK /\ LinkInv /\ (TypeOK /\ LinkInv)' /\ [Next]_vars
        => [RegistryView!OwnershipNext]_<<SessionOf, RegistryOwner>>
  BY <1>2, BrokerStep
<1> QED BY <1>1, <1>3, LinkInvariant, PTL
        DEF Spec, RegistryOwnership, RegistryView!Ownership, RegistryOwner
=============================================================================
