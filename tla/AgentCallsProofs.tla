--------------------------- MODULE AgentCallsProofs ---------------------------
(***************************************************************************)
(* Theorems about the calls that the manager makes to its agents, for any  *)
(* nodes, websockets, calls and bounds: a call fails early only with its   *)
(* own connection, and a restart reported as accepted is one that a        *)
(* process of that node acknowledged and cannot survive.                   *)
(***************************************************************************)
EXTENDS AgentLinkProofs

-----------------------------------------------------------------------------
(* The inductive invariant. *)

\* A call names the connection it was sent on, one of its own node that has
\* said hello; once failed, its node is no longer served by that connection.
CallInv(b, h, r) ==
    LET call == b.calls[r]
    IN  /\ call.conn \in Conns =>
              /\ h[call.conn] \in {"serving", "closed"}
              /\ NodeOf[call.conn] = call.node
        /\ call.state \in {"waiting", "resolved", "failed", "ok"} =>
              call.conn \in Conns
        /\ call.state = "failed" => b.conns[call.node] # call.conn

RecordInv(b, h) == \A r \in Requests : CallInv(b, h, r)

\* What travels for a call keeps its kind and stays with its node.
Concerns(m, c) ==
    /\ m.kind = KindOf[m.req]
    /\ broker.calls[m.req].state # "idle"
    /\ broker.calls[m.req].node = NodeOf[c]

\* The process that answered the call is unwinding, or was replaced since.
Acknowledged(r) ==
    LET n == broker.calls[r].node
    IN  /\ served[r] >= 0
        /\ \/ agent[n].incarnation > served[r]
           \/ agent[n].incarnation = served[r] /\ agent[n].unwinding

Asked(c) == {m \in Range(sendq[c]) \cup Range(down[c]) : m.type = "ask"}
Answered(c) == {m \in Range(up[c]) : m.type = "answer"}

TrafficInv ==
    \A c \in Conns :
        /\ \A m \in Asked(c) : Concerns(m, c)
        /\ \A m \in Answered(c) :
              Concerns(m, c) /\ (m.kind = "restart" => Acknowledged(m.req))

\* An agent holds a websocket of its own, and a restart whose answer counted
\* was acknowledged.
OwnWebsocket ==
    \A n \in Nodes : agent[n].conn # NoConn => NodeOf[agent[n].conn] = n
AcceptedInv ==
    \A r \in Requests :
        KindOf[r] = "restart" /\ broker.calls[r].state \in {"resolved", "ok"} =>
            Acknowledged(r)

CallsInvariant ==
    /\ RecordInv(broker, handler)
    /\ TrafficInv
    /\ OwnWebsocket
    /\ AcceptedInv

-----------------------------------------------------------------------------
(* What the loops do to the messages that travel. *)

LEMMA RangeOfBuffer ==
    ASSUME NEW S, NEW s \in Seq(S)
    PROVE  /\ \A m \in S : Range(Append(s, m)) = Range(s) \cup {m}
           /\ \A k \in 0..Len(s) : Range(SubSeq(s, 1, k)) \subseteq Range(s)
           /\ s # <<>> => Head(s) \in Range(s) /\ Range(Tail(s)) \subseteq Range(s)
           /\ Range(s) \subseteq S
           /\ Range(<<>>) = {}
           /\ \A m \in S : Range(<<m>>) = {m}
<1>1. Range(s) = {s[i] : i \in 1..Len(s)} /\ Range(s) \subseteq S
  BY RangeEquality, RangeOfSeq
<1>2. ASSUME NEW m \in S
      PROVE  Range(Append(s, m)) = Range(s) \cup {m}
  <2> DEFINE t == Append(s, m)
  <2>1. /\ t \in Seq(S) /\ Len(t) = Len(s) + 1
        /\ \A i \in 1..Len(s) : t[i] = s[i]
        /\ t[Len(s) + 1] = m
    BY AppendProperties
  <2>2. Range(t) = {t[i] : i \in 1..Len(t)}
    BY <2>1, RangeEquality
  <2>3. Len(s) \in Nat
    BY LenProperties
  <2> HIDE DEF t
  <2>4. ASSUME NEW x \in Range(t)
        PROVE  x \in Range(s) \cup {m}
    BY <1>1, <2>1, <2>2, <2>3
  <2>5. m \in Range(t)
    <3>1. Len(s) + 1 \in 1..Len(t)
      BY <2>1, <2>3
    <3> QED BY <2>1, <2>2, <3>1
  <2>6. ASSUME NEW i \in 1..Len(s)
        PROVE  s[i] \in Range(t)
    <3>1. i \in 1..Len(t) /\ t[i] = s[i]
      BY <2>1, <2>3
    <3> QED BY <2>2, <3>1
  <2> QED BY <1>1, <2>4, <2>5, <2>6 DEF t
<1>3. ASSUME NEW k \in 0..Len(s)
      PROVE  Range(SubSeq(s, 1, k)) \subseteq Range(s)
  <2> DEFINE t == SubSeq(s, 1, k)
  <2>1. Len(s) \in Nat /\ \A i \in 1..k : s[i] \in S
    BY LenProperties, ElementOfSeq
  <2>2. /\ t \in Seq(S) /\ Len(t) = k
        /\ \A i \in 1..k : t[i] = s[i]
    BY <2>1, SubSeqProperties
  <2>3. Range(t) = {t[i] : i \in 1..Len(t)}
    BY <2>2, RangeEquality
  <2> HIDE DEF t
  <2>4. ASSUME NEW i \in 1..Len(t)
        PROVE  t[i] \in Range(s)
    <3>1. i \in 1..Len(s) /\ t[i] = s[i]
      BY <2>1, <2>2
    <3> QED BY <1>1, <3>1
  <2> QED BY <2>3, <2>4 DEF t
<1>4. ASSUME s # <<>>
      PROVE  Head(s) \in Range(s) /\ Range(Tail(s)) \subseteq Range(s)
  <2>1. Len(s) \in Nat /\ Len(s) > 0
    BY <1>4, EmptySeq
  <2>2. Head(s) = s[1]
    BY <1>4
  <2>3. /\ Tail(s) \in Seq(S) /\ Len(Tail(s)) = Len(s) - 1
        /\ \A i \in 1..Len(Tail(s)) : Tail(s)[i] = s[i + 1]
    BY <1>4, HeadTailProperties
  <2>4. Range(Tail(s)) = {Tail(s)[i] : i \in 1..Len(Tail(s))}
    BY <2>3, RangeEquality
  <2>5. \A i \in 1..Len(Tail(s)) : i + 1 \in 1..Len(s)
    BY <2>1, <2>3
  <2> QED BY <1>1, <2>1, <2>2, <2>3, <2>4, <2>5
<1>5. Range(<<>>) = {}
  BY DEF Range
<1>6. \A m \in S : Range(<<m>>) = {m}
  BY DEF Range
<1> QED BY <1>1, <1>2, <1>3, <1>4, <1>5, <1>6

-----------------------------------------------------------------------------
(* What the handlers and the callers do to the record of a call. *)

\* A hello fails the calls of the connection it replaces, and no others.
LEMMA RegisterRecord ==
    ASSUME NEW b \in Broker, NEW c \in Conns,
           NEW h \in [Conns -> {"none", "accepted", "serving", "closed"}],
           CallsInv(b), RecordInv(b, h), h[c] = "accepted"
    PROVE  RecordInv(Register(b, NodeOf[c], c), [h EXCEPT ![c] = "serving"])
<1> DEFINE n == NodeOf[c]
           b2 == Register(b, n, c)
           h2 == [h EXCEPT ![c] = "serving"]
<1> SUFFICES ASSUME NEW r \in Requests
             PROVE  CallInv(b2, h2, r)
  BY DEF RecordInv
<1>1. /\ n \in Nodes /\ b.calls[r] \in Call
      /\ b.conns \in [Nodes -> Conns \cup {NoConn}]
  BY NodeOfType DEF Broker
<1>2. CallInv(b, h, r)
  BY DEF RecordInv
<1>3. b2.conns = [b.conns EXCEPT ![n] = c]
  BY DEF Register
<1>4. /\ b2.calls[r].node = b.calls[r].node
      /\ b2.calls[r].conn = b.calls[r].conn
      /\ \/ b2.calls[r].state = b.calls[r].state
         \/ /\ b2.calls[r].state = "failed" /\ b.calls[r].state = "waiting"
            /\ b.calls[r].node = n /\ b.conns[n] # c
  BY <1>1 DEF Register, FailPending, Call
<1>5. b.calls[r].conn \in Conns => b.calls[r].conn # c
  BY <1>2 DEF CallInv
<1>6. h2[c] = "serving" /\ \A d \in Conns \ {c} : h2[d] = h[d]
  OBVIOUS
<1>7. ASSUME b2.calls[r].state = "failed"
      PROVE  b.calls[r].conn \in Conns /\ b2.conns[b.calls[r].node] # b.calls[r].conn
  <2>1. b.calls[r].conn \in Conns
    BY <1>2, <1>4, <1>7 DEF CallInv
  <2>2. b.calls[r].node \in Nodes
    BY <1>2, <2>1, NodeOfType DEF CallInv
  <2>3. CASE b.calls[r].node = n
    BY <1>1, <1>3, <1>5, <2>1, <2>3
  <2>4. CASE b.calls[r].node # n
    <3>1. b.calls[r].state = "failed"
      BY <1>4, <1>7, <2>4
    <3> QED BY <1>1, <1>2, <1>3, <2>2, <2>4, <3>1 DEF CallInv
  <2> QED BY <2>1, <2>3, <2>4
<1> HIDE DEF b2, h2, n
<1> QED BY <1>2, <1>4, <1>5, <1>6, <1>7 DEF CallInv

\* The end of a connection fails its calls, and no others.
LEMMA UnregisterRecord ==
    ASSUME NEW b \in Broker, NEW c \in Conns,
           NEW h \in [Conns -> {"none", "accepted", "serving", "closed"}],
           CallsInv(b), RecordInv(b, h), h[c] = "serving"
    PROVE  RecordInv(Unregister(b, NodeOf[c], c), [h EXCEPT ![c] = "closed"])
<1> DEFINE n == NodeOf[c]
           b2 == Unregister(b, n, c)
           h2 == [h EXCEPT ![c] = "closed"]
<1> SUFFICES ASSUME NEW r \in Requests
             PROVE  CallInv(b2, h2, r)
  BY DEF RecordInv
<1>1. /\ n \in Nodes /\ b.calls[r] \in Call
      /\ b.conns \in [Nodes -> Conns \cup {NoConn}]
  BY NodeOfType DEF Broker
<1>2. CallInv(b, h, r)
  BY DEF RecordInv
<1>3. \/ b2.conns = b.conns
      \/ b.conns[n] = c /\ b2.conns = [b.conns EXCEPT ![n] = NoConn]
  BY DEF Unregister
<1>4. /\ b2.calls[r].node = b.calls[r].node
      /\ b2.calls[r].conn = b.calls[r].conn
      /\ \/ b2.calls[r].state = b.calls[r].state
         \/ /\ b2.calls[r].state = "failed" /\ b.calls[r].state = "waiting"
            /\ b.calls[r].node = n /\ b2.conns = [b.conns EXCEPT ![n] = NoConn]
  BY <1>1 DEF Unregister, FailPending, Call
<1>5. h2[c] = "closed" /\ \A d \in Conns \ {c} : h2[d] = h[d]
  OBVIOUS
<1>6. ASSUME b2.calls[r].state = "failed"
      PROVE  b.calls[r].conn \in Conns /\ b2.conns[b.calls[r].node] # b.calls[r].conn
  <2>1. b.calls[r].conn \in Conns /\ b.calls[r].conn # NoConn
    BY <1>2, <1>4, <1>6, IdentityAssumption DEF CallInv
  <2>2. b.calls[r].node \in Nodes
    BY <1>2, <2>1, NodeOfType DEF CallInv
  <2>3. CASE b.calls[r].state = "failed"
    BY <1>1, <1>2, <1>3, <2>1, <2>2, <2>3 DEF CallInv
  <2>4. CASE b.calls[r].state # "failed"
    BY <1>1, <1>4, <1>6, <2>1, <2>4
  <2> QED BY <2>1, <2>3, <2>4
<1> HIDE DEF b2, h2, n
<1> QED BY <1>2, <1>4, <1>5, <1>6 DEF CallInv

\* What a step may do to a call: once started it keeps its node and its
\* connection, and it resolves only by an answer that counts.
CallStep(r) ==
    LET old == broker.calls[r]
        new == broker'.calls[r]
    IN  /\ old.state # "idle" =>
              new.state # "idle" /\ new.node = old.node /\ new.conn = old.conn
        /\ new.state \in {"resolved", "ok"} =>
              \/ old.state \in {"resolved", "ok"}
              \/ \E c \in Conns :
                    /\ HandleAnswer(c) /\ Head(up[c]).req = r
                    /\ Resolves(broker, NodeOf[c], c, r, Head(up[c]).kind)

\* The handlers' part of it.
LEMMA ConnectionCallStep ==
    ASSUME NEW b \in Broker, NEW n \in Nodes, NEW c \in Conns, NEW r \in Requests,
           NEW b2 \in {Register(b, n, c), Unregister(b, n, c),
                       Unregister(Register(b, n, c), n, c)}
    PROVE  /\ b2.calls[r].node = b.calls[r].node
           /\ b2.calls[r].conn = b.calls[r].conn
           /\ b2.calls[r].state \in {b.calls[r].state, "failed"}
           /\ b2.calls[r].state = "idle" <=> b.calls[r].state = "idle"
<1>1. ASSUME NEW x \in Broker
      PROVE  /\ FailPending(x.calls, n)[r].node = x.calls[r].node
             /\ FailPending(x.calls, n)[r].conn = x.calls[r].conn
             /\ FailPending(x.calls, n)[r].state \in {x.calls[r].state, "failed"}
             /\ FailPending(x.calls, n)[r].state = "idle" <=> x.calls[r].state = "idle"
  BY DEF FailPending, Broker, Call
<1>2. ASSUME NEW x \in Broker
      PROVE  /\ Register(x, n, c).calls \in {x.calls, FailPending(x.calls, n)}
             /\ Unregister(x, n, c).calls \in {x.calls, FailPending(x.calls, n)}
  BY DEF Register, Unregister
<1>3. Register(b, n, c) \in Broker
  BY BrokerTypes
<1> QED BY <1>1, <1>2, <1>3

\* Every step follows it.
LEMMA CallStepAlways == TypeOK /\ [Next]_vars => \A r \in Requests : CallStep(r)
<1> SUFFICES ASSUME TypeOK, [Next]_vars, NEW r \in Requests PROVE CallStep(r)
  OBVIOUS
<1>1. broker \in Broker /\ broker.calls[r] \in Call
  BY DEF TypeOK, Broker
<1>2. ASSUME broker'.calls[r] = broker.calls[r]
      PROVE  CallStep(r)
  BY <1>2 DEF CallStep
<1>3. ASSUME NEW c \in Conns, NEW n \in Nodes,
             broker' \in {Register(broker, n, c), Unregister(broker, n, c),
                          Unregister(Register(broker, n, c), n, c)}
      PROVE  CallStep(r)
  BY <1>1, <1>3, ConnectionCallStep DEF CallStep
<1>4. ASSUME NEW c \in Conns, NEW reg, NEW b \in {broker, Register(broker, NodeOf[c], c)},
             NEW msg, Reply(c, reg, b, msg)
      PROVE  CallStep(r)
  <2>1. broker' \in {b, Unregister(b, NodeOf[c], c)}
    BY <1>4 DEF Reply, Leave
  <2> QED BY <1>2, <1>3, <1>4, <2>1, NodeOfType
<1>5. ASSUME NEW c \in Conns,
             \/ HandleHello(c) \/ HandleSample(c) \/ HandleHeartbeat(c)
             \/ HandleDisconnect(c) \/ Send(c)
      PROVE  CallStep(r)
  <2>1. CASE HandleHello(c)
    BY <1>4, <2>1 DEF HandleHello
  <2>2. CASE HandleSample(c)
    BY <1>4, <2>2 DEF HandleSample
  <2>3. CASE HandleHeartbeat(c)
    BY <1>4, <2>3 DEF HandleHeartbeat
  <2>4. CASE HandleDisconnect(c)
    <3>1. broker' \in {broker, Unregister(broker, NodeOf[c], c)}
      BY <2>4 DEF HandleDisconnect, Leave
    <3> QED BY <1>2, <1>3, <3>1, NodeOfType
  <2>5. CASE Send(c)
    BY <1>2, <2>5 DEF Send
  <2> QED BY <1>5, <2>1, <2>2, <2>3, <2>4, <2>5
<1>6. ASSUME NEW c \in Conns, HandleAnswer(c)
      PROVE  CallStep(r)
  <2> DEFINE m == Head(up[c])
  <2>1. broker' = Resolve(broker, NodeOf[c], c, m.req, m.kind)
    BY <1>6 DEF HandleAnswer
  <2>2. CASE Resolves(broker, NodeOf[c], c, m.req, m.kind) /\ m.req = r
    <3>1. broker' = [broker EXCEPT !.calls[r].state = "resolved"]
      BY <2>1, <2>2 DEF Resolve
    <3>2. broker'.calls[r] = [broker.calls[r] EXCEPT !.state = "resolved"]
      BY <1>1, <3>1 DEF Broker
    <3>3. /\ broker'.calls[r].state = "resolved"
          /\ broker'.calls[r].node = broker.calls[r].node
          /\ broker'.calls[r].conn = broker.calls[r].conn
      BY <1>1, <3>2 DEF Call
    <3> QED BY <1>6, <2>2, <3>3 DEF CallStep
  <2>3. CASE ~(Resolves(broker, NodeOf[c], c, m.req, m.kind) /\ m.req = r)
    <3>1. broker'.calls[r] = broker.calls[r]
      BY <1>1, <2>1, <2>3 DEF Resolve, Broker
    <3> QED BY <1>2, <3>1
  <2> QED BY <2>2, <2>3
<1>7. ASSUME NEW q \in Requests, RequestTimeout(q) \/ RequestReturns(q)
      PROVE  CallStep(r)
  <2>1. PICK outcome \in {"timeout", "ok", "unavailable"} :
           /\ broker' = Settle(broker, q, outcome)
           /\ outcome = "ok" => broker.calls[q].state = "resolved"
    BY <1>7 DEF RequestTimeout, RequestReturns
  <2>2. broker.calls[q].state # "idle"
    BY <1>7 DEF RequestTimeout, RequestReturns
  <2>3. CASE q = r
    <3>1. broker'.calls[r] = [broker.calls[r] EXCEPT !.state = outcome]
      BY <1>1, <2>1, <2>3 DEF Settle, Broker
    <3>2. /\ broker'.calls[r].state = outcome
          /\ broker'.calls[r].node = broker.calls[r].node
          /\ broker'.calls[r].conn = broker.calls[r].conn
      BY <1>1, <3>1 DEF Call
    <3> QED BY <2>1, <2>3, <3>2 DEF CallStep
  <2>4. CASE q # r
    <3>1. broker'.calls[r] = broker.calls[r]
      BY <1>1, <2>1, <2>4 DEF Settle, Broker
    <3> QED BY <1>2, <3>1
  <2> QED BY <2>3, <2>4
<1>8. ASSUME NEW q \in Requests, NEW n \in Nodes, Request(q, n)
      PROVE  CallStep(r)
  <2>1. PICK outcome : /\ broker' = Start(broker, q, n, outcome)
                       /\ outcome \notin {"resolved", "ok"}
    <3> DEFINE c == broker.conns[n]
               outcome == RequestOutcome(broker, n, c # NoConn /\ HasRoom(c))
    <3>1. outcome \notin {"resolved", "ok"}
      BY DEF RequestOutcome
    <3> QED BY <1>8, <3>1 DEF Request
  <2>2. CASE q = r
    <3>1. broker.calls[r].state = "idle"
      BY <1>8, <2>2 DEF Request
    <3>2. broker'.calls[r].state = outcome
      BY <1>1, <2>1, <2>2 DEF Start, Broker
    <3> QED BY <2>1, <3>1, <3>2 DEF CallStep
  <2>3. CASE q # r
    <3>1. broker'.calls[r] = broker.calls[r]
      BY <1>1, <2>1, <2>3 DEF Start, Broker
    <3> QED BY <1>2, <3>1
  <2> QED BY <2>2, <2>3
<1>9. ASSUME UNCHANGED broker
      PROVE  CallStep(r)
  BY <1>2, <1>9
<1>10. CASE Manager
  BY <1>5, <1>6, <1>7, <1>8, <1>9, <1>10 DEF Manager, ChangeSettings, Tick
<1>11. CASE Agents
  BY <1>9, <1>11 DEF Agents, Collect, SendSample, SendHeartbeat, ReceiveOther,
                 ReceiveAsk, Notice, Exec, Crash, NewProcess, managerVars
<1>12. CASE Network
  BY <1>9, <1>12 DEF Network, Break, Connect, managerVars
<1>13. CASE UNCHANGED vars
  BY <1>9, <1>13 DEF vars, managerVars
<1> QED BY <1>10, <1>11, <1>12, <1>13 DEF Next

\* Every step keeps the record of every call.
LEMMA RecordStep ==
    ASSUME TypeOK, LinkInv, RecordInv(broker, handler), [Next]_vars
    PROVE  RecordInv(broker, handler)'
<1> DEFINE h(c) == [handler EXCEPT ![c] = "serving"]
<1>1. /\ broker \in Broker /\ CallsInv(broker)
      /\ handler \in [Conns -> {"none", "accepted", "serving", "closed"}]
  BY DEF TypeOK, LinkInv
<1>2. ASSUME UNCHANGED <<broker, handler>>
      PROVE  RecordInv(broker, handler)'
  BY <1>2
<1>3. ASSUME NEW c \in Conns, NEW reg, NEW b \in Broker, NEW msg,
             CallsInv(b), RecordInv(b, h(c)), Reply(c, reg, b, msg)
      PROVE  RecordInv(broker, handler)'
  <2>1. CASE HasRoom(c)
    <3>1. broker' = b /\ handler' = h(c)
      BY <1>3, <2>1 DEF Reply
    <3> QED BY <1>3, <3>1
  <2>2. CASE ~HasRoom(c)
    <3>1. /\ h(c) \in [Conns -> {"none", "accepted", "serving", "closed"}]
          /\ h(c)[c] = "serving"
      BY <1>1
    <3>2. RecordInv(Unregister(b, NodeOf[c], c), [h(c) EXCEPT ![c] = "closed"])
      BY <1>3, <3>1, UnregisterRecord
    <3>3. [h(c) EXCEPT ![c] = "closed"] = [handler EXCEPT ![c] = "closed"]
      BY <1>1
    <3>4. /\ broker' = Unregister(b, NodeOf[c], c)
          /\ handler' = [handler EXCEPT ![c] = "closed"]
      BY <1>3, <2>2 DEF Reply, Leave
    <3> QED BY <3>2, <3>3, <3>4
  <2> QED BY <2>1, <2>2
<1>4. ASSUME NEW c \in Conns, HandleHello(c)
      PROVE  RecordInv(broker, handler)'
  <2> DEFINE b == Register(broker, NodeOf[c], c)
  <2>1. handler[c] = "accepted"
    BY <1>4 DEF HandleHello, Receives
  <2>2. b \in Broker /\ CallsInv(b) /\ RecordInv(b, h(c))
    BY <1>1, <2>1, NodeOfType, BrokerTypes, ConnectionCalls, RegisterRecord
  <2> HIDE DEF b
  <2>3. PICK reg, msg : Reply(c, reg, b, msg)
    BY <1>4 DEF HandleHello, b
  <2> QED BY <1>3, <2>2, <2>3
<1>5. ASSUME NEW c \in Conns, HandleSample(c) \/ HandleHeartbeat(c)
      PROVE  RecordInv(broker, handler)'
  <2>1. PICK reg, msg : handler[c] = "serving" /\ Reply(c, reg, broker, msg)
    BY <1>5 DEF HandleSample, HandleHeartbeat, Receives
  <2>2. h(c) = handler
    BY <1>1, <2>1
  <2> QED BY <1>1, <1>3, <2>1, <2>2
<1>6. ASSUME NEW c \in Conns, HandleDisconnect(c)
      PROVE  RecordInv(broker, handler)'
  <2>1. CASE handler[c] = "serving" /\ Leave(c, latest, broker)
    <3>1. /\ broker' = Unregister(broker, NodeOf[c], c)
          /\ handler' = [handler EXCEPT ![c] = "closed"]
      BY <2>1 DEF Leave
    <3> QED BY <1>1, <2>1, <3>1, UnregisterRecord
  <2>2. CASE /\ handler[c] = "accepted"
             /\ handler' = [handler EXCEPT ![c] = "closed"]
             /\ UNCHANGED <<latest, broker>>
    <3>1. \A d \in Conns : handler'[d] = IF d = c THEN "closed" ELSE handler[d]
      BY <1>1, <2>2
    <3> QED BY <2>2, <3>1 DEF RecordInv, CallInv
  <2> QED BY <1>6, <2>1, <2>2 DEF HandleDisconnect
<1>7. ASSUME NEW c \in Conns, Connect(c)
      PROVE  RecordInv(broker, handler)'
  <2>1. handler[c] = "none" /\ UNCHANGED broker
    BY <1>7 DEF Connect
  <2>2. \A d \in Conns : handler'[d] = IF d = c THEN "accepted" ELSE handler[d]
    BY <1>1, <1>7 DEF Connect
  <2> QED BY <2>1, <2>2 DEF RecordInv, CallInv
<1>8. ASSUME UNCHANGED handler, broker'.conns = broker.conns,
             NEW q \in Requests,
             \A r \in Requests \ {q} : broker'.calls[r] = broker.calls[r],
             CallInv(broker, handler, q)'
      PROVE  RecordInv(broker, handler)'
  BY <1>8 DEF RecordInv, CallInv
<1>9. ASSUME NEW c \in Conns, HandleAnswer(c)
      PROVE  RecordInv(broker, handler)'
  <2> DEFINE m == Head(up[c])
  <2>1. /\ broker' = Resolve(broker, NodeOf[c], c, m.req, m.kind)
        /\ handler' = handler
    BY <1>9 DEF HandleAnswer
  <2>2. CASE ~Resolves(broker, NodeOf[c], c, m.req, m.kind)
    BY <1>2, <2>1, <2>2 DEF Resolve
  <2>3. CASE Resolves(broker, NodeOf[c], c, m.req, m.kind)
    <3>1. PICK q \in Requests : q = m.req
      <4>1. m \in UpMessage /\ m.type = "answer"
        BY <1>9, HeadTailProperties DEF HandleAnswer, Receives, TypeOK
      <4> QED BY <4>1, MessageFields
    <3>2. /\ broker.calls[q].state = "waiting"
          /\ broker' = [broker EXCEPT !.calls[q].state = "resolved"]
      BY <2>1, <2>3, <3>1 DEF Resolves, Resolve
    <3>3. /\ broker'.conns = broker.conns
          /\ \A r \in Requests \ {q} : broker'.calls[r] = broker.calls[r]
          /\ broker'.calls[q] = [broker.calls[q] EXCEPT !.state = "resolved"]
      BY <1>1, <3>1, <3>2 DEF Broker
    <3>4. /\ broker'.calls[q].state = "resolved"
          /\ broker'.calls[q].node = broker.calls[q].node
          /\ broker'.calls[q].conn = broker.calls[q].conn
      BY <1>1, <3>1, <3>3 DEF Broker, Call
    <3>5. CallInv(broker, handler, q)'
      BY <2>1, <3>1, <3>2, <3>4 DEF RecordInv, CallInv
    <3> QED BY <1>8, <2>1, <3>1, <3>3, <3>5
  <2> QED BY <2>2, <2>3
<1>10. ASSUME NEW q \in Requests, RequestTimeout(q) \/ RequestReturns(q)
       PROVE  RecordInv(broker, handler)'
  <2>1. PICK outcome \in {"timeout", "ok", "unavailable"} :
           /\ broker' = Settle(broker, q, outcome)
           /\ outcome = "ok" => broker.calls[q].state = "resolved"
    BY <1>10 DEF RequestTimeout, RequestReturns
  <2>2. handler' = handler
    BY <1>10 DEF RequestTimeout, RequestReturns
  <2>3. /\ broker'.conns = broker.conns
        /\ \A r \in Requests \ {q} : broker'.calls[r] = broker.calls[r]
        /\ broker'.calls[q] = [broker.calls[q] EXCEPT !.state = outcome]
    BY <1>1, <2>1 DEF Settle, Broker
  <2>4. /\ broker'.calls[q].state = outcome
        /\ broker'.calls[q].node = broker.calls[q].node
        /\ broker'.calls[q].conn = broker.calls[q].conn
    BY <1>1, <2>3 DEF Broker, Call
  <2>5. CallInv(broker, handler, q)'
    BY <2>1, <2>2, <2>4 DEF RecordInv, CallInv
  <2> QED BY <1>8, <2>2, <2>3, <2>5
<1>11. ASSUME NEW q \in Requests, NEW n \in Nodes, Request(q, n)
       PROVE  RecordInv(broker, handler)'
  <2>1. PICK outcome : /\ broker' = Start(broker, q, n, outcome)
                       /\ outcome \notin {"resolved", "failed", "ok"}
                       /\ outcome = "waiting" => broker.conns[n] # NoConn
    <3> DEFINE c == broker.conns[n]
               outcome == RequestOutcome(broker, n, c # NoConn /\ HasRoom(c))
    <3>1. /\ outcome \notin {"resolved", "failed", "ok"}
          /\ outcome = "waiting" => c # NoConn
      BY DEF RequestOutcome
    <3> QED BY <1>11, <3>1 DEF Request
  <2>2. handler' = handler
    BY <1>11 DEF Request
  <2>3. /\ broker'.conns = broker.conns
        /\ \A r \in Requests \ {q} : broker'.calls[r] = broker.calls[r]
        /\ broker'.calls[q] = [state |-> outcome, node |-> n,
                               conn |-> broker.conns[n]]
    BY <1>1, <2>1 DEF Start, Broker
  <2>4. broker.conns[n] \in Conns =>
           handler[broker.conns[n]] = "serving" /\ NodeOf[broker.conns[n]] = n
    BY IdentityAssumption DEF LinkInv, OwnerInv
  <2>5. broker.conns[n] \in Conns \cup {NoConn}
    BY <1>1 DEF Broker
  <2>6. CallInv(broker, handler, q)'
    BY <2>1, <2>2, <2>3, <2>4, <2>5 DEF CallInv
  <2> QED BY <1>8, <2>2, <2>3, <2>6
<1>12. CASE Manager
  <2>1. \A c \in Conns : Send(c) => UNCHANGED <<broker, handler>>
    BY DEF Send
  <2>2. ChangeSettings \/ Tick => UNCHANGED <<broker, handler>>
    BY DEF ChangeSettings, Tick
  <2> QED BY <1>2, <1>4, <1>5, <1>6, <1>9, <1>10, <1>11, <1>12, <2>1, <2>2
          DEF Manager
<1>13. CASE Agents
  <2>1. UNCHANGED <<broker, handler>>
    BY <1>13 DEF Agents, Collect, SendSample, SendHeartbeat, ReceiveOther,
                 ReceiveAsk, Notice, Exec, Crash, NewProcess, managerVars
  <2> QED BY <1>2, <2>1
<1>14. CASE Network
  <2>1. \A c \in Conns : Break(c) => UNCHANGED <<broker, handler>>
    BY DEF Break, managerVars
  <2> QED BY <1>2, <1>7, <1>14, <2>1 DEF Network
<1>15. CASE UNCHANGED vars
  BY <1>2, <1>15 DEF vars, managerVars
<1> QED BY <1>12, <1>13, <1>14, <1>15 DEF Next

-----------------------------------------------------------------------------
(* Requests and answers in flight: where a new one comes from. *)

\* A request is put on a queue only by its call, on the connection that serves
\* the node; an answer is sent only by an agent that read the request.
NewAsk(m, c) ==
    \E q \in Requests, n \in Nodes :
        /\ Request(q, n) /\ broker.conns[n] = c
        /\ broker'.calls[q].state # "idle" /\ broker'.calls[q].node = n
        /\ m.kind = KindOf[q] /\ m.req = q
NewAnswer(m, c) ==
    \E n \in Nodes :
        /\ ReceiveAsk(n) /\ agent[n].conn = c /\ Head(down[c]) \in Asked(c)
        /\ m.kind = Head(down[c]).kind /\ m.req = Head(down[c]).req

TrafficStep(c) ==
    /\ \A m \in Asked(c)' : m \in Asked(c) \/ NewAsk(m, c)
    /\ \A m \in Answered(c)' : m \in Answered(c) \/ NewAnswer(m, c)

\* The buffers only lose messages, or gain one that is no request and no
\* answer.
LEMMA QuietTraffic ==
    ASSUME NEW c \in Conns,
           \A m \in Range(sendq'[c]) \cup Range(down'[c]) :
              m \in Range(sendq[c]) \cup Range(down[c]) \/ m.type # "ask",
           \A m \in Range(up'[c]) : m \in Range(up[c]) \/ m.type # "answer"
    PROVE  TrafficStep(c)
  BY DEF TrafficStep, Asked, Answered

\* A websocket that shuts loses messages.
LEMMA ShutTraffic ==
    ASSUME TypeOK, NEW d \in Conns, Shut(d)
    PROVE  \A c \in Conns : /\ Range(down'[c]) \subseteq Range(down[c])
                            /\ Range(up'[c]) \subseteq Range(up[c])
<1>1. \A c \in Conns : down'[c] \in {down[c], <<>>}
  BY DEF Shut, TypeOK
<1>2. PICK k \in 0..Len(up[d]) : up' = [up EXCEPT ![d] = SubSeq(@, 1, k)]
  BY DEF Shut
<1>3. \A c \in Conns : up'[c] = up[c] \/ (c = d /\ up'[c] = SubSeq(up[c], 1, k))
  BY <1>2 DEF TypeOK
<1>4. \A c \in Conns : down[c] \in Seq(DownMessage) /\ up[c] \in Seq(UpMessage)
  BY DEF TypeOK
<1>5. Range(<<>>) = {}
  BY DEF Range
<1>6. \A c \in Conns : Range(down'[c]) \subseteq Range(down[c])
  BY <1>1, <1>5
<1>7. Range(SubSeq(up[d], 1, k)) \subseteq Range(up[d])
  BY <1>4, RangeOfBuffer
<1> QED BY <1>3, <1>6, <1>7

\* A handled message and its reply, which asks nothing.
LEMMA ReplyTraffic ==
    ASSUME TypeOK, NEW d \in Conns, NEW reg, NEW b, NEW msg \in DownMessage,
           msg.type # "ask", up[d] # <<>>, Reply(d, reg, b, msg), NEW c \in Conns
    PROVE  TrafficStep(c)
<1>1. /\ sendq[c] \in Seq(DownMessage) /\ down[c] \in Seq(DownMessage)
      /\ up[c] \in Seq(UpMessage)
  BY DEF TypeOK
<1>2. /\ sendq'[c] \in {sendq[c], Append(sendq[c], msg), <<>>}
      /\ down'[c] \in {down[c], <<>>}
      /\ \/ up'[c] \in {up[c], <<>>}
         \/ up[c] # <<>> /\ up'[c] = Tail(up[c])
  BY DEF Reply, Leave, TypeOK
<1>3. /\ Range(Append(sendq[c], msg)) = Range(sendq[c]) \cup {msg}
      /\ Range(<<>>) = {}
      /\ up[c] # <<>> => Range(Tail(up[c])) \subseteq Range(up[c])
  BY <1>1, RangeOfBuffer
<1>4. /\ Range(sendq'[c]) \subseteq Range(sendq[c]) \cup {msg}
      /\ Range(down'[c]) \subseteq Range(down[c])
      /\ Range(up'[c]) \subseteq Range(up[c])
  BY <1>2, <1>3
<1> QED BY <1>4, QuietTraffic

\* Every step follows it.
LEMMA TrafficStepAlways ==
    TypeOK /\ [Next]_vars => \A c \in Conns : TrafficStep(c)
<1> SUFFICES ASSUME TypeOK, [Next]_vars, NEW c \in Conns PROVE TrafficStep(c)
  OBVIOUS
<1>1. /\ sendq[c] \in Seq(DownMessage) /\ down[c] \in Seq(DownMessage)
      /\ up[c] \in Seq(UpMessage)
  BY DEF TypeOK
<1>2. ASSUME Range(sendq'[c]) \subseteq Range(sendq[c]),
             Range(down'[c]) \subseteq Range(down[c]),
             Range(up'[c]) \subseteq Range(up[c])
      PROVE  TrafficStep(c)
  BY <1>2, QuietTraffic
<1>3. ASSUME NEW d \in Conns,
             HandleHello(d) \/ HandleSample(d) \/ HandleHeartbeat(d)
      PROVE  TrafficStep(c)
  <2>1. /\ Config(settings) \in DownMessage /\ Config(settings).type = "config"
        /\ Ack \in DownMessage /\ Ack.type = "ack"
    BY MessageTypes DEF TypeOK, Config, Ack
  <2>2. PICK msg \in {Config(settings), Ack} :
           up[d] # <<>> /\ \E reg, b : Reply(d, reg, b, msg)
    BY <1>3 DEF HandleHello, HandleSample, HandleHeartbeat, Receives
  <2> QED BY <2>1, <2>2, ReplyTraffic
<1>4. ASSUME NEW d \in Conns, HandleAnswer(d)
      PROVE  TrafficStep(c)
  <2>1. /\ UNCHANGED <<sendq, down>>
        /\ up'[c] = up[c] \/ (up[c] # <<>> /\ up'[c] = Tail(up[c]))
    BY <1>4 DEF HandleAnswer, Receives, TypeOK
  <2>2. Range(up'[c]) \subseteq Range(up[c])
    BY <1>1, <2>1, RangeOfBuffer
  <2> QED BY <1>2, <2>1, <2>2
<1>5. ASSUME NEW d \in Conns, HandleDisconnect(d)
      PROVE  TrafficStep(c)
  <2>1. sendq'[c] \in {sendq[c], <<>>} /\ UNCHANGED <<down, up>>
    BY <1>5 DEF HandleDisconnect, Leave, TypeOK
  <2>2. Range(sendq'[c]) \subseteq Range(sendq[c])
    BY <1>1, <2>1, RangeOfBuffer
  <2> QED BY <1>2, <2>1, <2>2
<1>6. ASSUME NEW d \in Conns, Send(d)
      PROVE  TrafficStep(c)
  <2>1. CASE c = d
    <3>1. /\ sendq[c] # <<>> /\ sendq'[c] = Tail(sendq[c])
          /\ down'[c] = Append(down[c], Head(sendq[c])) /\ up' = up
      BY <1>6, <2>1 DEF Send, TypeOK
    <3>2. Head(sendq[c]) \in DownMessage
      BY <1>1, <3>1, HeadTailProperties
    <3>3. /\ Range(sendq'[c]) \subseteq Range(sendq[c])
          /\ Range(down'[c]) = Range(down[c]) \cup {Head(sendq[c])}
          /\ Head(sendq[c]) \in Range(sendq[c])
      BY <1>1, <3>1, <3>2, RangeOfBuffer
    <3> QED BY <3>1, <3>3, QuietTraffic
  <2>2. CASE c # d
    BY <1>2, <1>6, <2>2 DEF Send, TypeOK
  <2> QED BY <2>1, <2>2
<1>7. ASSUME NEW q \in Requests, NEW n \in Nodes, Request(q, n)
      PROVE  TrafficStep(c)
  <2>1. PICK outcome \in CallState :
           /\ broker' = Start(broker, q, n, outcome)
           /\ outcome # "idle"
           /\ \/ sendq' = sendq
              \/ sendq' = [sendq EXCEPT ![broker.conns[n]] =
                             Append(@, Ask(KindOf[q], q))]
    <3> DEFINE d == broker.conns[n]
               outcome == RequestOutcome(broker, n, d # NoConn /\ HasRoom(d))
    <3>1. outcome \in CallState /\ outcome # "idle"
      BY DEF RequestOutcome, CallState
    <3> QED BY <1>7, <3>1 DEF Request
  <2>2. /\ broker'.calls[q].state # "idle" /\ broker'.calls[q].node = n
    BY <2>1 DEF Start, TypeOK, Broker
  <2>3. Ask(KindOf[q], q) \in DownMessage
    BY BrokerAssumption, MessageTypes DEF BrokerAssumption, Kinds
  <2>4. UNCHANGED <<down, up>>
    BY <1>7 DEF Request
  <2>5. CASE sendq'[c] = sendq[c]
    BY <1>2, <2>4, <2>5
  <2>6. CASE sendq'[c] # sendq[c]
    <3>1. /\ broker.conns[n] = c
          /\ sendq'[c] = Append(sendq[c], Ask(KindOf[q], q))
      BY <2>1, <2>6 DEF TypeOK
    <3>2. Range(sendq'[c]) = Range(sendq[c]) \cup {Ask(KindOf[q], q)}
      BY <1>1, <2>3, <3>1, RangeOfBuffer
    <3>3. NewAsk(Ask(KindOf[q], q), c)
      BY <1>7, <2>2, <3>1 DEF NewAsk, Ask
    <3> QED BY <2>4, <3>2, <3>3 DEF TrafficStep, Asked, Answered
  <2> QED BY <2>5, <2>6
<1>8. CASE ChangeSettings
  <2>1. /\ sendq'[c] \in {sendq[c], Append(sendq[c], Config(settings + 1))}
        /\ UNCHANGED <<down, up>>
    BY <1>8 DEF ChangeSettings
  <2>2. /\ Config(settings + 1) \in DownMessage
        /\ Config(settings + 1).type # "ask"
    BY MessageTypes DEF TypeOK, Config
  <2>3. Range(Append(sendq[c], Config(settings + 1)))
           = Range(sendq[c]) \cup {Config(settings + 1)}
    BY <1>1, <2>2, RangeOfBuffer
  <2>4. Range(sendq'[c]) \subseteq Range(sendq[c]) \cup {Config(settings + 1)}
    BY <2>1, <2>3
  <2> QED BY <2>1, <2>2, <2>4, QuietTraffic
<1>9. ASSUME UNCHANGED <<sendq, down, up>>
      PROVE  TrafficStep(c)
  BY <1>2, <1>9
<1>10. ASSUME NEW n \in Nodes, SendSample(n) \/ SendHeartbeat(n)
       PROVE  TrafficStep(c)
  <2> DEFINE a == agent[n]
  <2>1. /\ a.msgSeq + 1 \in Nat /\ <<a.incarnation, a.collected>> \in Stamp
    BY DEF TypeOK, AgentProcess, Stamp
  <2>2. PICK m \in UpMessage : /\ up' = [up EXCEPT ![a.conn] = Append(@, m)]
                               /\ m.type # "answer"
    <3>1. CASE SendSample(n)
      <4>1. PICK valid \in BOOLEAN :
               up' = [up EXCEPT ![a.conn] = Append(@,
                       Sample(a.msgSeq + 1, <<a.incarnation, a.collected>>, valid))]
        BY <3>1 DEF SendSample
      <4> QED BY <2>1, <4>1, MessageTypes DEF Sample
    <3>2. CASE SendHeartbeat(n)
      <4>1. up' = [up EXCEPT ![a.conn] = Append(@, Heartbeat(a.msgSeq + 1))]
        BY <3>2 DEF SendHeartbeat
      <4> QED BY <2>1, <4>1, MessageTypes DEF Heartbeat
    <3> QED BY <1>10, <3>1, <3>2
  <2>3. up'[c] \in {up[c], Append(up[c], m)}
    BY <2>2 DEF TypeOK
  <2>4. Range(up'[c]) \subseteq Range(up[c]) \cup {m}
    <3>1. Range(Append(up[c], m)) = Range(up[c]) \cup {m}
      BY <1>1, RangeOfBuffer
    <3> QED BY <2>3, <3>1
  <2>5. UNCHANGED <<sendq, down>>
    BY <1>10 DEF SendSample, SendHeartbeat, managerVars
  <2> QED BY <2>2, <2>4, <2>5, QuietTraffic
<1>11. ASSUME NEW n \in Nodes, Receiving(n),
              down' = [down EXCEPT ![agent[n].conn] = Tail(@)]
       PROVE  /\ agent[n].conn \in Conns
              /\ Range(down'[c]) \subseteq Range(down[c])
              /\ Head(down[agent[n].conn]) \in Range(down[agent[n].conn])
              /\ Head(down[agent[n].conn]) \in DownMessage
  <2> DEFINE d == agent[n].conn
  <2>1. d \in Conns /\ down[d] # <<>> /\ down[d] \in Seq(DownMessage)
    BY <1>11 DEF Receiving, Online, TypeOK, AgentProcess
  <2>2. down'[c] = down[c] \/ (c = d /\ down'[c] = Tail(down[c]))
    BY <1>11 DEF TypeOK
  <2> HIDE DEF d
  <2>3. Range(down'[c]) \subseteq Range(down[c])
    BY <2>1, <2>2, RangeOfBuffer
  <2>4. Head(down[d]) \in Range(down[d]) /\ Head(down[d]) \in DownMessage
    BY <2>1, RangeOfBuffer
  <2> QED BY <2>1, <2>3, <2>4 DEF d
<1>12. ASSUME NEW n \in Nodes, ReceiveOther(n)
       PROVE  TrafficStep(c)
  <2>1. UNCHANGED <<sendq, up>> /\ Range(down'[c]) \subseteq Range(down[c])
    BY <1>11, <1>12 DEF ReceiveOther, managerVars
  <2> QED BY <1>2, <2>1
<1>13. ASSUME NEW n \in Nodes, ReceiveAsk(n)
       PROVE  TrafficStep(c)
  <2> DEFINE d == agent[n].conn
             a == Head(down[d])
  <2>1. /\ d \in Conns /\ Range(down'[c]) \subseteq Range(down[c])
        /\ a \in Range(down[d]) /\ a \in DownMessage
    BY <1>11, <1>13 DEF ReceiveAsk
  <2>2. /\ a.type = "ask" /\ sendq' = sendq
        /\ up' = [up EXCEPT ![d] = Append(@, Answer(a.kind, a.req))]
    BY <1>13 DEF ReceiveAsk, managerVars
  <2>3. Answer(a.kind, a.req) \in UpMessage
    BY <2>1, <2>2, MessageFields, MessageTypes
  <2>4. CASE c = d
    <3>1. Range(up'[c]) = Range(up[c]) \cup {Answer(a.kind, a.req)}
      <4>1. up'[c] = Append(up[c], Answer(a.kind, a.req))
        BY <2>2, <2>4 DEF TypeOK
      <4> QED BY <1>1, <2>3, <4>1, RangeOfBuffer
    <3>2. NewAnswer(Answer(a.kind, a.req), c)
      BY <1>13, <2>1, <2>2, <2>4 DEF NewAnswer, Answer, Asked
    <3> HIDE DEF a, d
    <3> QED BY <2>1, <2>2, <3>1, <3>2 DEF TrafficStep, Asked, Answered
  <2>5. CASE c # d
    <3>1. up'[c] = up[c]
      BY <2>2, <2>5 DEF TypeOK
    <3> QED BY <1>2, <2>1, <2>2, <3>1
  <2> QED BY <2>4, <2>5
<1>14. ASSUME NEW n \in Nodes, NewProcess(n)
       PROVE  TrafficStep(c)
  <2>1. CASE Online(n)
    <3>1. agent[n].conn \in Conns /\ Shut(agent[n].conn) /\ sendq' = sendq
      BY <1>14, <2>1 DEF NewProcess, Online, TypeOK, AgentProcess, managerVars
    <3> QED BY <1>2, <3>1, ShutTraffic
  <2>2. CASE ~Online(n)
    BY <1>9, <1>14, <2>2 DEF NewProcess, managerVars
  <2> QED BY <2>1, <2>2
<1>15. ASSUME NEW d \in Conns, Break(d)
       PROVE  TrafficStep(c)
  BY <1>2, <1>15, ShutTraffic DEF Break, managerVars
<1>16. ASSUME NEW d \in Conns, Connect(d)
       PROVE  TrafficStep(c)
  <2>1. up'[c] \in {up[c], <<Hello>>} /\ UNCHANGED <<sendq, down>>
    BY <1>16 DEF Connect, TypeOK
  <2>2. Hello \in UpMessage /\ Hello.type # "answer"
    BY MessageTypes DEF Hello
  <2>3. Range(up'[c]) \subseteq Range(up[c]) \cup {Hello}
    BY <1>1, <2>1, <2>2, RangeOfBuffer
  <2> QED BY <2>1, <2>2, <2>3, QuietTraffic
<1>17. CASE Manager
  <2>1. \A r \in Requests : RequestTimeout(r) \/ RequestReturns(r) =>
                               UNCHANGED <<sendq, down, up>>
    BY DEF RequestTimeout, RequestReturns
  <2>2. Tick => UNCHANGED <<sendq, down, up>>
    BY DEF Tick
  <2> QED BY <1>3, <1>4, <1>5, <1>6, <1>7, <1>8, <1>9, <1>17, <2>1, <2>2
          DEF Manager
<1>18. CASE Agents
  <2>1. \A n \in Nodes : Collect(n) \/ Notice(n) => UNCHANGED <<sendq, down, up>>
    BY DEF Collect, Notice, managerVars
  <2> QED BY <1>9, <1>10, <1>12, <1>13, <1>14, <1>18, <2>1
          DEF Agents, Exec, Crash
<1>19. CASE Network
  BY <1>15, <1>16, <1>19 DEF Network
<1>20. CASE UNCHANGED vars
  BY <1>9, <1>20 DEF vars, managerVars
<1> QED BY <1>17, <1>18, <1>19, <1>20 DEF Next

-----------------------------------------------------------------------------
(* What a step may do to an agent process and to the record of who served a *)
(* call: only an acknowledged restart, and only a new process, changes       *)
(* whether it is unwinding.                                                  *)

ProcessStep(n) ==
    /\ agent'[n].conn # NoConn /\ agent'[n].conn # agent[n].conn =>
          NodeOf[agent'[n].conn] = n
    /\ \/ /\ agent'[n].incarnation = agent[n].incarnation
          /\ agent'[n].unwinding = agent[n].unwinding
       \/ agent'[n].incarnation = agent[n].incarnation + 1
       \/ ReceiveAsk(n)

ServedStep ==
    \/ served' = served
    \/ \E n \in Nodes : ReceiveAsk(n)

LEMMA ServedStepAlways == [Next]_vars => ServedStep
  BY DEF Next, Manager, HandleHello, HandleSample, HandleHeartbeat,
         HandleAnswer, HandleDisconnect, Send, RequestTimeout, RequestReturns,
         Request, ChangeSettings, Tick, Agents, Collect, SendSample,
         SendHeartbeat, ReceiveOther, Notice, Exec, Crash, NewProcess,
         Network, Break, Connect, vars, ServedStep

LEMMA ProcessStepAlways ==
    TypeOK /\ [Next]_vars => \A n \in Nodes : ProcessStep(n)
<1> SUFFICES ASSUME TypeOK, [Next]_vars, NEW n \in Nodes
             PROVE  ProcessStep(n)
  OBVIOUS
<1>1. agent \in [Nodes -> AgentProcess] /\ agent[n] \in AgentProcess
  BY DEF TypeOK
<1>2. ASSUME UNCHANGED agent
      PROVE  ProcessStep(n)
  BY <1>2 DEF ProcessStep
<1>3. ASSUME NEW k \in Nodes, Collect(k) \/ SendSample(k) \/ SendHeartbeat(k)
      PROVE  ProcessStep(n)
  <2>1. PICK x, y, z :
           \/ agent' = [agent EXCEPT ![k].collected = x]
           \/ agent' = [agent EXCEPT ![k].msgSeq = y]
           \/ agent' = [agent EXCEPT ![k].msgSeq = y, ![k].sentSeq = z]
    BY <1>3 DEF Collect, SendSample, SendHeartbeat
  <2> QED BY <1>1, <2>1 DEF AgentProcess, ProcessStep
<1>4. ASSUME NEW k \in Nodes, ReceiveOther(k)
      PROVE  ProcessStep(n)
  <2>1. PICK v : agent' = [agent EXCEPT ![k].config = v] \/ agent' = agent
    BY <1>4 DEF ReceiveOther
  <2> QED BY <1>1, <2>1 DEF AgentProcess, ProcessStep
<1>5. ASSUME NEW k \in Nodes, ReceiveAsk(k)
      PROVE  ProcessStep(n)
  <2>1. agent'[n].conn = agent[n].conn
    BY <1>1, <1>5 DEF ReceiveAsk, AgentProcess
  <2>2. k # n => agent'[n] = agent[n]
    BY <1>1, <1>5 DEF ReceiveAsk
  <2> QED BY <1>5, <2>1, <2>2 DEF ProcessStep
<1>6. ASSUME NEW k \in Nodes, Notice(k) \/ NewProcess(k)
      PROVE  ProcessStep(n)
  BY <1>1, <1>6 DEF Notice, NewProcess, FreshProcess, AgentProcess,
                    ProcessStep
<1>7. ASSUME NEW c \in Conns, Connect(c)
      PROVE  ProcessStep(n)
  <2>1. /\ agent[NodeOf[c]] \in AgentProcess
        /\ agent' = [agent EXCEPT ![NodeOf[c]] =
                       [@ EXCEPT !.conn = c, !.msgSeq = 0, !.sentSeq = 0]]
    BY <1>7, <1>1, NodeOfType DEF Connect
  <2>2. CASE NodeOf[c] = n
    <3>1. /\ agent'[n].conn = c
          /\ agent'[n].incarnation = agent[n].incarnation
          /\ agent'[n].unwinding = agent[n].unwinding
      BY <1>1, <2>1, <2>2 DEF AgentProcess
    <3> QED BY <2>1, <2>2, <3>1 DEF ProcessStep
  <2>3. CASE NodeOf[c] # n
    BY <1>1, <2>1, <2>3 DEF ProcessStep
  <2> QED BY <2>2, <2>3
<1>8. CASE Manager
  BY <1>2, <1>8 DEF Manager, HandleHello, HandleSample, HandleHeartbeat,
       HandleAnswer, HandleDisconnect, Send, RequestTimeout, RequestReturns,
       Request, ChangeSettings, Tick
<1>9. CASE Agents
  BY <1>3, <1>4, <1>5, <1>6, <1>9 DEF Agents, Exec, Crash
<1>10. CASE Network
  BY <1>2, <1>7, <1>10 DEF Network, Break
<1>11. CASE UNCHANGED vars
  BY <1>2, <1>11 DEF vars
<1> QED BY <1>8, <1>9, <1>10, <1>11 DEF Next

\* A node's request is read by that node's agent.
LEMMA AskedOfItsNode ==
    ASSUME TypeOK, TrafficInv, OwnWebsocket, NEW n \in Nodes, ReceiveAsk(n)
    PROVE  LET m == Head(down[agent[n].conn])
           IN  /\ agent[n].conn \in Conns /\ NodeOf[agent[n].conn] = n
               /\ m \in Asked(agent[n].conn) /\ Concerns(m, agent[n].conn)
               /\ m.req \in Requests
<1> DEFINE c == agent[n].conn
           m == Head(down[c])
<1>1. c \in Conns /\ down[c] # <<>> /\ down[c] \in Seq(DownMessage)
  BY DEF ReceiveAsk, Receiving, Online, TypeOK, AgentProcess
<1>2. NodeOf[c] = n
  BY <1>1, IdentityAssumption DEF OwnWebsocket
<1>3. m \in Range(down[c]) /\ m \in DownMessage /\ m.type = "ask"
  BY <1>1, RangeOfBuffer DEF ReceiveAsk
<1>4. m \in Asked(c) /\ m.req \in Requests
  BY <1>3, MessageFields DEF Asked
<1>5. Concerns(m, c)
  BY <1>1, <1>4 DEF TrafficInv
<1> QED BY <1>1, <1>2, <1>4, <1>5

\* An acknowledged restart stays acknowledged: the process that answered reads
\* nothing more, and what replaces it is a later incarnation.
LEMMA AcknowledgedStep ==
    ASSUME TypeOK, LinkInv, TrafficInv, OwnWebsocket, [Next]_vars,
           NEW r \in Requests, KindOf[r] = "restart",
           broker.calls[r].state # "idle", broker.calls[r].node \in Nodes,
           Acknowledged(r)
    PROVE  Acknowledged(r)'
<1> DEFINE n == broker.calls[r].node
<1>1. broker'.calls[r].node = n
  BY CallStepAlways DEF CallStep
<1>2. /\ agent[n].incarnation \in Nat /\ agent[n].unwinding \in BOOLEAN
      /\ served[r] \in Int /\ ProcessStep(n) /\ ServedStep
  BY ProcessStepAlways, ServedStepAlways DEF TypeOK, AgentProcess
<1>3. ASSUME NEW k \in Nodes, ReceiveAsk(k)
      PROVE  Acknowledged(r)'
  <2> DEFINE m == Head(down[agent[k].conn])
  <2>1. /\ NodeOf[agent[k].conn] = k /\ Concerns(m, agent[k].conn)
        /\ m.req \in Requests
    BY <1>3, AskedOfItsNode
  <2>2. m.req = r => k = n /\ m.kind = "restart"
    BY <2>1 DEF Concerns
  <2>3. /\ served' = [served EXCEPT ![m.req] = agent[k].incarnation]
        /\ agent' = [agent EXCEPT ![k].unwinding = (m.kind = "restart")]
        /\ ~agent[k].unwinding
    BY <1>3 DEF ReceiveAsk, Receiving
  <2>4. CASE m.req = r
    <3>1. served'[r] = agent[n].incarnation
      BY <2>2, <2>3, <2>4 DEF TypeOK
    <3>2. /\ agent'[n].incarnation = agent[n].incarnation
          /\ agent'[n].unwinding
      BY <2>2, <2>3, <2>4 DEF TypeOK, AgentProcess
    <3> QED BY <1>1, <1>2, <3>1, <3>2 DEF Acknowledged
  <2>5. CASE m.req # r
    <3>1. served'[r] = served[r]
      BY <2>3, <2>5 DEF TypeOK
    <3>2. agent'[n].incarnation = agent[n].incarnation
      BY <2>3 DEF TypeOK, AgentProcess
    <3>3. k # n => agent'[n].unwinding = agent[n].unwinding
      BY <2>3 DEF TypeOK
    <3> QED BY <1>1, <2>3, <3>1, <3>2, <3>3 DEF Acknowledged
  <2> QED BY <2>4, <2>5
<1>4. ASSUME \A k \in Nodes : ~ReceiveAsk(k)
      PROVE  Acknowledged(r)'
  <2>1. served'[r] = served[r]
    BY <1>2, <1>4 DEF ServedStep
  <2>2. \/ /\ agent'[n].incarnation = agent[n].incarnation
           /\ agent'[n].unwinding = agent[n].unwinding
        \/ agent'[n].incarnation = agent[n].incarnation + 1
    BY <1>2, <1>4 DEF ProcessStep
  <2> QED BY <1>1, <1>2, <2>1, <2>2 DEF Acknowledged
<1> QED BY <1>3, <1>4

-----------------------------------------------------------------------------
(* The invariant is inductive. *)

\* No call is made and nothing travels before the first step.
LEMMA CallsInit == Init => CallsInvariant
<1> SUFFICES ASSUME Init PROVE CallsInvariant
  OBVIOUS
<1>1. RecordInv(broker, handler) /\ OwnWebsocket /\ AcceptedInv
  BY IdentityAssumption
  DEF Init, RecordInv, CallInv, NoBroker, OwnWebsocket, FreshProcess, AcceptedInv
<1>2. TrafficInv
  BY DEF Init, TrafficInv, Asked, Answered, Range
<1> QED BY <1>1, <1>2 DEF CallsInvariant

\* What travels keeps to its call.
LEMMA TrafficKept ==
    ASSUME TypeOK, LinkInv, CallsInvariant, [Next]_vars
    PROVE  TrafficInv'
<1> USE DEF CallsInvariant
<1> SUFFICES ASSUME NEW c \in Conns
             PROVE  /\ \A m \in Asked(c)' : Concerns(m, c)'
                    /\ \A m \in Answered(c)' :
                          /\ Concerns(m, c)'
                          /\ m.kind = "restart" => Acknowledged(m.req)'
  BY DEF TrafficInv
<1>1. TrafficStep(c)
  BY TrafficStepAlways
<1>2. /\ \A m \in Asked(c) : m.req \in Requests
      /\ \A m \in Answered(c) : m.req \in Requests
  <2>1. /\ Range(sendq[c]) \subseteq DownMessage
        /\ Range(down[c]) \subseteq DownMessage /\ Range(up[c]) \subseteq UpMessage
    BY RangeOfBuffer DEF TypeOK
  <2> QED BY <2>1, MessageFields DEF Asked, Answered
<1>3. ASSUME NEW m, m.req \in Requests, Concerns(m, c)
      PROVE  /\ m.kind = KindOf[m.req]
             /\ broker'.calls[m.req].state # "idle"
             /\ broker'.calls[m.req].node = NodeOf[c]
  BY <1>3, CallStepAlways DEF CallStep, Concerns
<1>4. ASSUME NEW m \in Asked(c)'
      PROVE  Concerns(m, c)'
  <2>1. CASE m \in Asked(c)
    BY <1>2, <1>3, <2>1 DEF TrafficInv, Concerns
  <2>2. CASE NewAsk(m, c)
    <3>1. PICK q \in Requests, n \in Nodes :
             /\ broker.conns[n] = c
             /\ broker'.calls[q].state # "idle" /\ broker'.calls[q].node = n
             /\ m.kind = KindOf[q] /\ m.req = q
      BY <2>2 DEF NewAsk
    <3>2. NodeOf[c] = n
      BY <3>1, IdentityAssumption DEF LinkInv, OwnerInv
    <3> QED BY <3>1, <3>2 DEF Concerns
  <2> QED BY <1>1, <2>1, <2>2 DEF TrafficStep
<1>5. ASSUME NEW m \in Answered(c)'
      PROVE  Concerns(m, c)' /\ (m.kind = "restart" => Acknowledged(m.req)')
  <2>1. CASE m \in Answered(c)
    <3>1. /\ m.req \in Requests /\ Concerns(m, c)
          /\ m.kind = "restart" => Acknowledged(m.req)
      BY <1>2, <2>1 DEF TrafficInv
    <3>2. broker.calls[m.req].node \in Nodes
      BY <3>1, NodeOfType DEF Concerns
    <3>3. Concerns(m, c)'
      BY <1>3, <3>1 DEF Concerns
    <3>4. m.kind = "restart" => Acknowledged(m.req)'
      BY <3>1, <3>2, AcknowledgedStep DEF Concerns
    <3> QED BY <3>3, <3>4
  <2>2. CASE NewAnswer(m, c)
    <3>1. PICK n \in Nodes : /\ ReceiveAsk(n) /\ agent[n].conn = c
                             /\ m.kind = Head(down[c]).kind
                             /\ m.req = Head(down[c]).req
      BY <2>2 DEF NewAnswer
    <3>2. NodeOf[c] = n /\ m.req \in Requests /\ Concerns(m, c)
      BY <3>1, AskedOfItsNode DEF Concerns
    <3>3. Concerns(m, c)'
      BY <1>3, <3>2 DEF Concerns
    <3>4. ASSUME m.kind = "restart"
          PROVE  Acknowledged(m.req)'
      <4>1. served'[m.req] = agent[n].incarnation
        BY <3>1, <3>2 DEF ReceiveAsk, TypeOK
      <4>2. /\ agent'[n].incarnation = agent[n].incarnation
            /\ agent'[n].unwinding /\ agent[n].incarnation \in Nat
        BY <3>1, <3>4 DEF ReceiveAsk, TypeOK, AgentProcess
      <4>3. broker'.calls[m.req].node = n
        BY <1>3, <3>2
      <4> QED BY <4>1, <4>2, <4>3 DEF Acknowledged
    <3> QED BY <3>3, <3>4
  <2> QED BY <1>1, <2>1, <2>2 DEF TrafficStep
<1> QED BY <1>4, <1>5

\* Every step of a handler, a caller, an agent or the network keeps the
\* invariant.
LEMMA CallsStep ==
    TypeOK /\ LinkInv /\ CallsInvariant /\ [Next]_vars => CallsInvariant'
<1> SUFFICES ASSUME TypeOK, LinkInv, CallsInvariant, [Next]_vars
             PROVE  CallsInvariant'
  OBVIOUS
<1> USE DEF CallsInvariant
<1>1. RecordInv(broker, handler)'
  BY RecordStep
<1>2. TrafficInv'
  BY TrafficKept
<1>3. OwnWebsocket'
  BY ProcessStepAlways DEF OwnWebsocket, ProcessStep
<1>4. AcceptedInv'
  <2> SUFFICES ASSUME NEW r \in Requests, KindOf[r] = "restart",
                      broker'.calls[r].state \in {"resolved", "ok"}
               PROVE  Acknowledged(r)'
    BY DEF AcceptedInv
  <2>1. CallStep(r)
    BY CallStepAlways
  <2>2. CASE broker.calls[r].state \in {"resolved", "ok"}
    <3>1. broker.calls[r].node \in Nodes
      BY <2>2, NodeOfType DEF RecordInv, CallInv
    <3> QED BY <2>2, <3>1, AcknowledgedStep DEF AcceptedInv
  <2>3. CASE \E c \in Conns :
                /\ HandleAnswer(c) /\ Head(up[c]).req = r
                /\ Resolves(broker, NodeOf[c], c, r, Head(up[c]).kind)
    <3>1. PICK c \in Conns :
             /\ HandleAnswer(c) /\ Head(up[c]).req = r
             /\ Resolves(broker, NodeOf[c], c, r, Head(up[c]).kind)
      BY <2>3
    <3>2. Head(up[c]) \in Answered(c)
      BY <3>1, RangeOfBuffer DEF HandleAnswer, Receives, TypeOK, Answered
    <3>3. Acknowledged(r)
      BY <3>1, <3>2 DEF TrafficInv, Resolves
    <3>4. broker.calls[r].state # "idle" /\ broker.calls[r].node \in Nodes
      BY <3>1, NodeOfType DEF Resolves
    <3> QED BY <3>3, <3>4, AcknowledgedStep
  <2> QED BY <2>1, <2>2, <2>3 DEF CallStep
<1> QED BY <1>1, <1>2, <1>3, <1>4

\* The inductive invariant of the calls holds in every state.
THEOREM CallsInvariantAlways == Spec => [](TypeOK /\ LinkInv /\ CallsInvariant)
<1>1. Init => TypeOK /\ LinkInv /\ CallsInvariant
  BY TypeInit, LinkInit, CallsInit
<1>2. TypeOK /\ LinkInv /\ CallsInvariant /\ [Next]_vars
        => (TypeOK /\ LinkInv /\ CallsInvariant)'
  BY TypeStep, LinkStep, CallsStep
<1> QED BY <1>1, <1>2, PTL DEF Spec

\* A call fails early only for want of its own connection, whatever other
\* nodes' and earlier connections' handlers do.
THEOREM FailsWithItsConnectionAlways == Spec => []CallFailsWithItsConnection
<1>1. CallsInvariant => CallFailsWithItsConnection
  BY DEF CallsInvariant, RecordInv, CallInv, CallFailsWithItsConnection
<1> QED BY <1>1, CallsInvariantAlways, PTL

\* A restart reported as accepted was answered by a process of that node that
\* is unwinding or already replaced, however answers, replacements and crashes
\* cross.
THEOREM AcceptedRestartAlways == Spec => []AcceptedRestartIsReal
<1>1. CallsInvariant => AcceptedRestartIsReal
  BY DEF CallsInvariant, AcceptedInv, Acknowledged, AcceptedRestartIsReal
<1> QED BY <1>1, CallsInvariantAlways, PTL
==============================================================================
