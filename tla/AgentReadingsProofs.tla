-------------------------- MODULE AgentReadingsProofs -------------------------
(***************************************************************************)
(* Theorems about the readings and the settings that travel between the    *)
(* manager and its agents, for any nodes, websockets, calls and bounds: no *)
(* sample of the connection that owns a node is dropped as a duplicate,    *)
(* an agent on a working websocket ends with the manager's settings, and,  *)
(* when hellos reach the manager in order, readings never move back.       *)
(***************************************************************************)
EXTENDS AgentCallsProofs

-----------------------------------------------------------------------------
(* The inductive invariant of one websocket: its messages are numbered and  *)
(* collected in order, the agent that holds it has numbered them all, and   *)
(* the manager has heard none of those still under way.                     *)

Numbered(m) == m.type \in {"sample", "heartbeat"}

Follows(m, k) ==
    /\ Numbered(m) /\ Numbered(k) => m.seq < k.seq
    /\ m.type = "sample" /\ k.type = "sample" => NotOlder(k.stamp, m.stamp)

Ordered(s) == \A i, j \in 1..Len(s) : i < j => Follows(s[i], s[j])

Now(a) == <<a.incarnation, a.collected>>

\* rt, h, lk, s and a stand for the runtime of c's node, c's handler, link
\* and messages to the manager, and the agent process of c's node.
StreamInv(rt, h, lk, s, a, c) ==
    /\ Ordered(s)
    /\ \A m \in Range(s) :
          /\ Numbered(m) =>
                m.seq >= 1 /\ (a.conn = c => m.seq <= a.msgSeq)
          /\ m.type = "sample" => NotOlder(Now(a), m.stamp)
    /\ rt.conn = c /\ h = "serving" =>
          /\ \A m \in Range(s) : Numbered(m) => m.seq > rt.lastSeq
          /\ a.conn = c => rt.lastSeq <= a.msgSeq
    /\ lk = "open" => a.conn = c /\ h # "none" /\ (h = "accepted" => s # <<>>)

NodeInv(rt, a) ==
    /\ rt.conn # NoConn => rt.known
    /\ NotOlder(Now(a), rt.stamp)

ReadingsInv ==
    /\ \A c \in Conns : StreamInv(latest[NodeOf[c]], handler[c], link[c],
                                  up[c], agent[NodeOf[c]], c)
    /\ \A n \in Nodes : NodeInv(latest[n], agent[n])
    /\ OwnWebsocket

\* When hellos reach the manager in order: a node has one websocket at most
\* whose hello is still to be read, it is the last one its agent opened, and
\* what it carries is as recent as all the manager shows or will still admit.
Owns(c) == latest[NodeOf[c]].conn = c /\ handler[c] = "serving"
Samples(c) == {m \in Range(up[c]) : m.type = "sample"}

ForwardInv ==
    \A c \in Conns :
        /\ Owns(c) \/ HelloPending(c) =>
              \A m \in Samples(c) : NotOlder(m.stamp, latest[NodeOf[c]].stamp)
        /\ HelloPending(c) =>
              /\ agent[NodeOf[c]].conn \in {c, NoConn}
              /\ \A d \in Conns :
                    NodeOf[d] = NodeOf[c] =>
                        /\ HelloPending(d) => d = c
                        /\ Owns(d) => \A m \in Samples(c), k \in Samples(d) :
                                         NotOlder(m.stamp, k.stamp)

\* The last config among the messages s is of version v; without one it is v
\* that the agent has applied already.
LastConfig(s, applied, v) ==
    \/ /\ \A i \in 1..Len(s) : s[i].type # "config"
       /\ applied = v
    \/ \E i \in 1..Len(s) :
          /\ s[i].type = "config" /\ s[i].version = v
          /\ \A j \in 1..Len(s) : j > i => s[j].type # "config"

Settled(c) == LastConfig(down[c] \o sendq[c], agent[NodeOf[c]].config, settings)

SettingsInv ==
    \A c \in Conns :
        handler[c] = "serving" /\ link[c] = "open" /\ c \notin missed => Settled(c)

-----------------------------------------------------------------------------
(* The order of collection, and what the loops do to an ordered buffer. *)

\* The order of collection is reflexive and transitive.
LEMMA StampOrder ==
    ASSUME NEW x \in Stamp, NEW y \in Stamp, NEW z \in Stamp
    PROVE  /\ NotOlder(x, x)
           /\ NotOlder(x, y) /\ NotOlder(y, z) => NotOlder(x, z)
  BY DEF Stamp, NotOlder

\* An ordered buffer stays so when its first message is read, when the end of
\* it is lost, and when a message is added that follows all it holds.
LEMMA OrderedBuffer ==
    ASSUME NEW s \in Seq(UpMessage), Ordered(s)
    PROVE  /\ s # <<>> => /\ Ordered(Tail(s))
                          /\ \A m \in Range(Tail(s)) : Follows(Head(s), m)
           /\ \A k \in 0..Len(s) : Ordered(SubSeq(s, 1, k))
           /\ \A m \in UpMessage :
                 (\A k \in Range(s) : Follows(k, m)) => Ordered(Append(s, m))
           /\ Ordered(<<>>)
           /\ \A m \in UpMessage : Ordered(<<m>>)
<1>1. Len(s) \in Nat /\ Range(s) = {s[i] : i \in 1..Len(s)}
  BY LenProperties, RangeEquality
<1>2. ASSUME s # <<>>
      PROVE  /\ Ordered(Tail(s))
             /\ \A m \in Range(Tail(s)) : Follows(Head(s), m)
  <2> DEFINE t == Tail(s)
  <2>1. /\ t \in Seq(UpMessage) /\ Len(t) = Len(s) - 1
        /\ \A i \in 1..Len(t) : t[i] = s[i + 1]
    BY <1>2, HeadTailProperties
  <2>2. Head(s) = s[1]
    BY <1>2
  <2>3. Len(t) \in Nat
    BY <2>1, LenProperties
  <2> HIDE DEF t
  <2>4. ASSUME NEW i \in 1..Len(t), NEW j \in 1..Len(t), i < j
        PROVE  Follows(t[i], t[j])
    <3>1. i + 1 \in 1..Len(s) /\ j + 1 \in 1..Len(s) /\ i + 1 < j + 1
      BY <1>1, <2>1, <2>3, <2>4
    <3>2. Follows(s[i + 1], s[j + 1])
      BY <3>1 DEF Ordered
    <3> QED BY <2>1, <3>2
  <2>5. ASSUME NEW i \in 1..Len(t)
        PROVE  Follows(Head(s), t[i])
    <3>1. 1 \in 1..Len(s) /\ i + 1 \in 1..Len(s) /\ 1 < i + 1
      BY <1>1, <2>1, <2>3
    <3>2. Follows(s[1], s[i + 1])
      BY <3>1 DEF Ordered
    <3> QED BY <2>1, <2>2, <3>2
  <2>6. Ordered(t)
    BY <2>4 DEF Ordered
  <2>7. Range(t) = {t[i] : i \in 1..Len(t)}
    BY <2>1, RangeEquality
  <2> QED BY <2>5, <2>6, <2>7 DEF t
<1>3. ASSUME NEW k \in 0..Len(s)
      PROVE  Ordered(SubSeq(s, 1, k))
  <2> DEFINE t == SubSeq(s, 1, k)
  <2>1. \A i \in 1..k : s[i] \in UpMessage
    BY <1>1, ElementOfSeq
  <2>2. Len(t) = k /\ \A i \in 1..k : t[i] = s[i]
    BY <1>1, <2>1, SubSeqProperties
  <2> HIDE DEF t
  <2>3. ASSUME NEW i \in 1..Len(t), NEW j \in 1..Len(t), i < j
        PROVE  Follows(t[i], t[j])
    <3>1. i \in 1..Len(s) /\ j \in 1..Len(s) /\ t[i] = s[i] /\ t[j] = s[j]
      BY <1>1, <2>2
    <3> QED BY <2>3, <3>1 DEF Ordered
  <2>4. Ordered(t)
    BY <2>3 DEF Ordered
  <2> QED BY <2>4 DEF t
<1>4. ASSUME NEW m \in UpMessage, \A k \in Range(s) : Follows(k, m)
      PROVE  Ordered(Append(s, m))
  <2> DEFINE t == Append(s, m)
  <2>1. /\ Len(t) = Len(s) + 1 /\ t[Len(s) + 1] = m
        /\ \A i \in 1..Len(s) : t[i] = s[i]
    BY AppendProperties
  <2> HIDE DEF t
  <2>2. ASSUME NEW i \in 1..Len(t), NEW j \in 1..Len(t), i < j
        PROVE  Follows(t[i], t[j])
    <3>1. i \in 1..Len(s) /\ t[i] = s[i] /\ s[i] \in Range(s)
      BY <1>1, <2>1, <2>2
    <3>2. CASE j = Len(s) + 1
      BY <1>4, <2>1, <3>1, <3>2
    <3>3. CASE j # Len(s) + 1
      <4>1. j \in 1..Len(s) /\ t[j] = s[j]
        BY <1>1, <2>1, <3>3
      <4> QED BY <2>2, <3>1, <4>1 DEF Ordered
    <3> QED BY <3>2, <3>3
  <2>3. Ordered(t)
    BY <2>2 DEF Ordered
  <2> QED BY <2>3 DEF t
<1>5. Ordered(<<>>)
  BY DEF Ordered
<1>6. ASSUME NEW m \in UpMessage
      PROVE  Ordered(<<m>>)
  <2>1. \A i, j \in 1..Len(<<m>>) : ~(i < j)
    OBVIOUS
  <2> QED BY <2>1 DEF Ordered
<1> QED BY <1>2, <1>3, <1>4, <1>5, <1>6

-----------------------------------------------------------------------------
(* What the handlers do to a runtime's readings. *)

SameReadings(rt, old) ==
    /\ rt.known = old.known /\ rt.conn = old.conn
    /\ rt.lastSeq = old.lastSeq /\ rt.stamp = old.stamp

\* A sample counts only on the connection that owns the node, and only once.
LEMMA SampleEffect ==
    ASSUME NEW reg \in [Nodes -> Runtime], NEW n \in Nodes, NEW c \in Conns,
           NEW seq \in Nat, NEW stamp \in Stamp, NEW valid \in BOOLEAN,
           reg[n].known, reg[n].conn # NoConn
    PROVE  LET rt == IngestSample(reg, n, c, seq, stamp, valid)[n]
           IN  /\ \A k \in Nodes \ {n} :
                     IngestSample(reg, n, c, seq, stamp, valid)[k] = reg[k]
               /\ \/ SameReadings(rt, reg[n])
                  \/ /\ rt.known /\ reg[n].conn = c /\ rt.conn = c
                     /\ rt.lastSeq = seq /\ rt.stamp = stamp
<1> DEFINE reg2 == IngestSample(reg, n, c, seq, stamp, valid)
<1>1. reg[n] \in Runtime
  OBVIOUS
<1>2. CASE reg2 = reg
  BY <1>2 DEF SameReadings
<1>3. CASE reg2 = [reg EXCEPT ![n].error = TRUE]
  BY <1>1, <1>3 DEF SameReadings, Runtime
<1>4. CASE Admits(reg[n], c, seq) /\ valid
  <2>1. reg[n].conn = c
    BY <1>4 DEF Admits, ConnectionMatches
  <2>2. reg2 = [reg EXCEPT ![n] =
                  [known |-> TRUE, conn |-> c, connected |-> TRUE,
                   lastSeq |-> seq, stamp |-> stamp, error |-> FALSE, age |-> 0]]
    BY <1>4 DEF IngestSample
  <2> HIDE DEF reg2
  <2>3. /\ reg2[n].known /\ reg2[n].conn = c /\ reg2[n].lastSeq = seq
        /\ reg2[n].stamp = stamp
        /\ \A k \in Nodes \ {n} : reg2[k] = reg[k]
    BY <2>2
  <2> QED BY <2>1, <2>3 DEF reg2
<1>5. CASE ~Admits(reg[n], c, seq) \/ ~valid
  BY <1>2, <1>3, <1>5 DEF IngestSample, RejectSample
<1> QED BY <1>4, <1>5

\* A heartbeat counts only on that connection, and shows no reading.
LEMMA HeartbeatEffect ==
    ASSUME NEW reg \in [Nodes -> Runtime], NEW n \in Nodes, NEW c \in Conns,
           NEW seq \in Nat, reg[n].known, reg[n].conn # NoConn
    PROVE  LET rt == IngestHeartbeat(reg, n, c, seq)[n]
           IN  /\ \A k \in Nodes \ {n} : IngestHeartbeat(reg, n, c, seq)[k] = reg[k]
               /\ \/ SameReadings(rt, reg[n])
                  \/ /\ rt.known /\ reg[n].conn = c /\ rt.conn = c
                     /\ rt.lastSeq = seq /\ rt.stamp = reg[n].stamp
<1> DEFINE reg2 == IngestHeartbeat(reg, n, c, seq)
<1>1. reg[n] \in Runtime /\ reg[n].known = TRUE
  BY DEF Runtime
<1>2. CASE ConnectionMatches(reg[n], c)
  <2>1. PICK last \in {seq, reg[n].lastSeq} :
           reg2 = [reg EXCEPT ![n] =
                     [reg[n] EXCEPT !.connected = TRUE, !.age = 0, !.lastSeq = last]]
    BY <1>1, <1>2 DEF IngestHeartbeat
  <2> HIDE DEF reg2
  <2>2. /\ reg2[n].known /\ reg2[n].conn = reg[n].conn
        /\ reg2[n].lastSeq = last /\ reg2[n].stamp = reg[n].stamp
        /\ \A k \in Nodes \ {n} : reg2[k] = reg[k]
    BY <1>1, <2>1 DEF Runtime
  <2>3. reg[n].conn = c
    BY <1>2 DEF ConnectionMatches
  <2> QED BY <1>1, <2>1, <2>2, <2>3 DEF SameReadings, reg2
<1>3. CASE ~ConnectionMatches(reg[n], c)
  <2>1. reg2 = reg
    BY <1>1, <1>3 DEF IngestHeartbeat
  <2> QED BY <2>1 DEF SameReadings
<1> QED BY <1>2, <1>3

\* A handler that ends keeps the readings.
LEMMA DisconnectEffect ==
    ASSUME NEW reg \in [Nodes -> Runtime], NEW n \in Nodes, NEW c
    PROVE  \A k \in Nodes : SameReadings(Disconnect(reg, n, c)[k], reg[k])
  BY DEF Disconnect, SameReadings, Runtime

\* A message that was handled, or whose reply found the queue full.
LEMMA ReplyEffect ==
    ASSUME TypeOK, NEW c \in Conns, NEW reg \in [Nodes -> Runtime], NEW b, NEW msg,
           Reply(c, reg, b, msg)
    PROVE  /\ \A n \in Nodes : SameReadings(latest'[n], reg[n])
           /\ \A d \in Conns \ {c} : /\ handler'[d] = handler[d]
                                     /\ link'[d] = link[d] /\ up'[d] = up[d]
           /\ \/ /\ handler'[c] = "serving" /\ link'[c] = link[c]
                 /\ up'[c] = Tail(up[c])
              \/ handler'[c] = "closed" /\ link'[c] = "shut" /\ up'[c] = <<>>
<1>1. CASE HasRoom(c)
  BY <1>1 DEF Reply, TypeOK, SameReadings
<1>2. CASE ~HasRoom(c)
  <2>1. latest' = Disconnect(reg, NodeOf[c], c)
    BY <1>2 DEF Reply, Leave
  <2>2. \A n \in Nodes : SameReadings(latest'[n], reg[n])
    BY <2>1, NodeOfType, DisconnectEffect
  <2> QED BY <1>2, <2>2 DEF Reply, Leave, TypeOK
<1> QED BY <1>1, <1>2

-----------------------------------------------------------------------------
(* The invariant of one websocket through the changes a step may make. *)

\* Messages are read or lost, other connections take the node over, the
\* handler ends.
LEMMA StreamShrinks ==
    ASSUME NEW rt, NEW h, NEW lk, NEW s, NEW a, NEW c, StreamInv(rt, h, lk, s, a, c),
           NEW rt2, NEW h2, NEW lk2, NEW t, Ordered(t), Range(t) \subseteq Range(s),
           rt2.conn = c /\ h2 = "serving" =>
              rt.conn = c /\ h = "serving" /\ rt2.lastSeq = rt.lastSeq,
           lk2 = "open" =>
              lk = "open" /\ h2 # "none" /\ (h2 = "accepted" => t # <<>>)
    PROVE  StreamInv(rt2, h2, lk2, t, a, c)
  BY DEF StreamInv

\* A reply keeps the invariants, if the registry that the handler computed
\* admits only what the rest of the websocket will follow.
LEMMA ReplyReadings ==
    ASSUME TypeOK, ReadingsInv, NEW c \in Conns, NEW reg \in [Nodes -> Runtime],
           NEW b, NEW msg, up[c] # <<>>, handler[c] \in {"accepted", "serving"},
           Reply(c, reg, b, msg), UNCHANGED agent,
           \A k \in Nodes \ {NodeOf[c]} : reg[k] = latest[k],
           \/ SameReadings(reg[NodeOf[c]], latest[NodeOf[c]]) /\ handler[c] = "serving"
           \/ /\ reg[NodeOf[c]].conn = c /\ reg[NodeOf[c]].known
              /\ \A m \in Range(Tail(up[c])) :
                    Numbered(m) => m.seq > reg[NodeOf[c]].lastSeq
              /\ agent[NodeOf[c]].conn = c =>
                    reg[NodeOf[c]].lastSeq <= agent[NodeOf[c]].msgSeq
              /\ NotOlder(Now(agent[NodeOf[c]]), reg[NodeOf[c]].stamp)
    PROVE  ReadingsInv'
<1> DEFINE n == NodeOf[c]
<1>1. n \in Nodes /\ up[c] \in Seq(UpMessage)
  BY NodeOfType DEF TypeOK
<1>2. /\ \A k \in Nodes : SameReadings(latest'[k], reg[k])
      /\ \A d \in Conns \ {c} : /\ handler'[d] = handler[d]
                                /\ link'[d] = link[d] /\ up'[d] = up[d]
      /\ \/ /\ handler'[c] = "serving" /\ link'[c] = link[c]
            /\ up'[c] = Tail(up[c])
         \/ handler'[c] = "closed" /\ link'[c] = "shut" /\ up'[c] = <<>>
  BY ReplyEffect
<1>3. \A d \in Conns : StreamInv(latest[NodeOf[d]], handler[d], link[d], up[d],
                                 agent[NodeOf[d]], d)
  BY DEF ReadingsInv
<1>4. /\ Ordered(Tail(up[c])) /\ Ordered(<<>>)
      /\ Range(Tail(up[c])) \subseteq Range(up[c]) /\ Range(<<>>) = {}
  BY <1>1, <1>3, OrderedBuffer, RangeOfBuffer DEF StreamInv
<1>5. ASSUME NEW d \in Conns \ {c}
      PROVE  StreamInv(latest[NodeOf[d]], handler[d], link[d], up[d],
                       agent[NodeOf[d]], d)'
  <2>1. latest'[NodeOf[d]].conn = d =>
           /\ latest[NodeOf[d]].conn = d
           /\ latest'[NodeOf[d]].lastSeq = latest[NodeOf[d]].lastSeq
    BY <1>2, NodeOfType DEF SameReadings
  <2>2. Ordered(up[d]) /\ (link[d] = "open" => handler[d] # "none" /\
                             (handler[d] = "accepted" => up[d] # <<>>))
    BY <1>3 DEF StreamInv
  <2>3. StreamInv(latest'[NodeOf[d]], handler[d], link[d], up[d],
                  agent[NodeOf[d]], d)
    BY <1>3, <2>1, <2>2, StreamShrinks
  <2> QED BY <1>2, <2>3
<1>6. StreamInv(latest[n], handler[c], link[c], up[c], agent[n], c)'
  <2>1. CASE handler'[c] = "closed" /\ link'[c] = "shut" /\ up'[c] = <<>>
    <3>1. StreamInv(latest'[n], "closed", "shut", <<>>, agent[n], c)
      BY <1>3, <1>4, StreamShrinks
    <3> QED BY <2>1, <3>1
  <2>2. CASE /\ handler'[c] = "serving" /\ link'[c] = link[c]
             /\ up'[c] = Tail(up[c])
    <3>1. CASE SameReadings(reg[n], latest[n]) /\ handler[c] = "serving"
      <4>1. latest'[n].conn = latest[n].conn /\ latest'[n].lastSeq = latest[n].lastSeq
        BY <1>1, <1>2, <3>1 DEF SameReadings
      <4>2. StreamInv(latest'[n], "serving", link[c], Tail(up[c]), agent[n], c)
        BY <1>3, <1>4, <3>1, <4>1, StreamShrinks
      <4> QED BY <2>2, <4>2
    <3>2. CASE /\ reg[n].conn = c
               /\ \A m \in Range(Tail(up[c])) : Numbered(m) => m.seq > reg[n].lastSeq
               /\ agent[n].conn = c => reg[n].lastSeq <= agent[n].msgSeq
      <4>1. latest'[n].conn = c /\ latest'[n].lastSeq = reg[n].lastSeq
        BY <1>1, <1>2, <3>2 DEF SameReadings
      <4>2. StreamInv(latest'[n], "serving", link[c], Tail(up[c]), agent[n], c)
        BY <1>3, <1>4, <3>2, <4>1 DEF StreamInv
      <4> QED BY <2>2, <4>2
    <3> QED BY <3>1, <3>2
  <2> QED BY <1>2, <2>1, <2>2
<1>7. ASSUME NEW k \in Nodes
      PROVE  NodeInv(latest[k], agent[k])'
  BY <1>1, <1>2 DEF ReadingsInv, NodeInv, SameReadings
<1>8. OwnWebsocket'
  BY DEF ReadingsInv, OwnWebsocket
<1> QED BY <1>5, <1>6, <1>7, <1>8 DEF ReadingsInv

\* The message a handler reads, and what is left after it.
LEMMA ReadMessage ==
    ASSUME TypeOK, ReadingsInv, NEW c \in Conns, up[c] # <<>>
    PROVE  /\ Head(up[c]) \in UpMessage /\ Head(up[c]) \in Range(up[c])
           /\ Range(Tail(up[c])) \subseteq Range(up[c])
           /\ \A m \in Range(Tail(up[c])) : m \in UpMessage /\ Follows(Head(up[c]), m)
<1>1. up[c] \in Seq(UpMessage) /\ Ordered(up[c])
  BY DEF TypeOK, ReadingsInv, StreamInv
<1>2. Range(up[c]) \subseteq UpMessage
  BY <1>1, RangeOfBuffer
<1> QED BY <1>1, <1>2, RangeOfBuffer, OrderedBuffer

\* The first message starts the count over, as the agent did.
LEMMA HelloReadings ==
    ASSUME TypeOK, LinkInv, ReadingsInv, NEW c \in Conns, HandleHello(c)
    PROVE  ReadingsInv'
<1> DEFINE n == NodeOf[c]
           reg == RegisterHello(latest, n, c)
<1>1. n \in Nodes /\ latest \in [Nodes -> Runtime] /\ agent[n] \in AgentProcess
  BY NodeOfType DEF TypeOK
<1>2. /\ handler[c] = "accepted" /\ up[c] # <<>> /\ UNCHANGED agent
      /\ \E b, msg : Reply(c, reg, b, msg)
  BY DEF HandleHello, Receives
<1>3. /\ reg \in [Nodes -> Runtime]
      /\ \A k \in Nodes \ {n} : reg[k] = latest[k]
      /\ reg[n].conn = c /\ reg[n].known /\ reg[n].lastSeq = 0
      /\ reg[n].stamp = latest[n].stamp
  BY <1>1, RegistryTypes DEF RegisterHello
<1>4. ASSUME NEW m \in Range(Tail(up[c])), Numbered(m)
      PROVE  m.seq > 0
  <2>1. m \in Range(up[c]) /\ m \in UpMessage
    BY <1>2, <1>4, ReadMessage
  <2>2. m.seq \in Nat /\ m.seq >= 1
    BY <1>4, <2>1, MessageFields DEF ReadingsInv, StreamInv, Numbered
  <2> QED BY <2>2
<1>5. agent[n].msgSeq >= 0 /\ NotOlder(Now(agent[n]), latest[n].stamp)
  BY <1>1 DEF AgentProcess, ReadingsInv, NodeInv
<1> HIDE DEF reg
<1> QED BY <1>2, <1>3, <1>4, <1>5, ReplyReadings

\* A sample or a heartbeat is the oldest of what its websocket still carries.
LEMMA IngestReadings ==
    ASSUME TypeOK, LinkInv, ReadingsInv, NEW c \in Conns,
           HandleSample(c) \/ HandleHeartbeat(c)
    PROVE  ReadingsInv'
<1> DEFINE n == NodeOf[c]
           m == Head(up[c])
<1>1. n \in Nodes /\ latest \in [Nodes -> Runtime] /\ agent[n] \in AgentProcess
  BY NodeOfType DEF TypeOK
<1>2. /\ handler[c] = "serving" /\ up[c] # <<>> /\ UNCHANGED agent
      /\ m.type \in {"sample", "heartbeat"}
  BY DEF HandleSample, HandleHeartbeat, Receives
<1>3. latest[n].known /\ latest[n].conn # NoConn
  BY <1>1, <1>2, IdentityAssumption DEF LinkInv, OwnerInv
<1>4. m \in UpMessage /\ m \in Range(up[c]) /\ m.seq \in Nat /\ Numbered(m)
  BY <1>2, ReadMessage, MessageFields DEF Numbered
<1>5. \A k \in Range(Tail(up[c])) : Numbered(k) => k.seq > m.seq
  <2> SUFFICES ASSUME NEW k \in Range(Tail(up[c])), Numbered(k)
               PROVE  k.seq > m.seq
    OBVIOUS
  <2>1. k \in UpMessage /\ Follows(m, k)
    BY <1>2, ReadMessage
  <2>2. k.seq \in Nat
    BY <2>1, MessageFields DEF Numbered
  <2> QED BY <1>4, <2>1, <2>2 DEF Follows
<1>6. agent[n].conn = c => m.seq <= agent[n].msgSeq
  BY <1>4 DEF ReadingsInv, StreamInv
<1>7. NotOlder(Now(agent[n]), latest[n].stamp)
  BY <1>1 DEF ReadingsInv, NodeInv
<1>8. CASE HandleSample(c)
  <2> DEFINE reg == IngestSample(latest, n, c, m.seq, m.stamp, m.valid)
  <2>1. \E b, msg : Reply(c, reg, b, msg)
    BY <1>8 DEF HandleSample
  <2>2. m.type = "sample" /\ m.stamp \in Stamp /\ m.valid \in BOOLEAN
    BY <1>4, <1>8, MessageFields DEF HandleSample, Receives
  <2>3. NotOlder(Now(agent[n]), m.stamp)
    BY <1>4, <2>2 DEF ReadingsInv, StreamInv
  <2>4. reg \in [Nodes -> Runtime]
    BY <1>1, <1>4, <2>2, IngestTypes
  <2>5. /\ \A k \in Nodes \ {n} : reg[k] = latest[k]
        /\ \/ SameReadings(reg[n], latest[n])
           \/ /\ reg[n].known /\ reg[n].conn = c
              /\ reg[n].lastSeq = m.seq /\ reg[n].stamp = m.stamp
    BY <1>1, <1>3, <1>4, <2>2, SampleEffect
  <2> HIDE DEF reg, m
  <2> QED BY <1>2, <1>5, <1>6, <2>1, <2>3, <2>4, <2>5, ReplyReadings
<1>9. CASE HandleHeartbeat(c)
  <2> DEFINE reg == IngestHeartbeat(latest, n, c, m.seq)
  <2>1. \E b, msg : Reply(c, reg, b, msg)
    BY <1>9 DEF HandleHeartbeat
  <2>2. reg \in [Nodes -> Runtime]
    BY <1>1, <1>4, IngestTypes DEF NoStamp, Stamp
  <2>3. /\ \A k \in Nodes \ {n} : reg[k] = latest[k]
        /\ \/ SameReadings(reg[n], latest[n])
           \/ /\ reg[n].known /\ reg[n].conn = c
              /\ reg[n].lastSeq = m.seq /\ reg[n].stamp = latest[n].stamp
    BY <1>1, <1>3, <1>4, HeartbeatEffect
  <2> HIDE DEF reg, m
  <2> QED BY <1>2, <1>5, <1>6, <1>7, <2>1, <2>2, <2>3, ReplyReadings
<1> QED BY <1>8, <1>9

\* Reading an answer, losing the end of a websocket, and the end of a handler
\* leave the registry's readings alone.
LEMMA QuietReadings ==
    ASSUME TypeOK, ReadingsInv, UNCHANGED agent,
           \A n \in Nodes : SameReadings(latest'[n], latest[n]),
           \A c \in Conns :
              /\ handler'[c] \in {handler[c], "closed"}
              /\ \/ up'[c] = up[c] /\ link'[c] \in {link[c], "shut"}
                 \/ /\ up[c] # <<>> /\ up'[c] = Tail(up[c])
                    /\ link'[c] = link[c] /\ handler'[c] = "serving"
                 \/ /\ \E k \in 0..Len(up[c]) : up'[c] = SubSeq(up[c], 1, k)
                    /\ link'[c] = "shut"
    PROVE  ReadingsInv'
<1>1. ASSUME NEW c \in Conns
      PROVE  StreamInv(latest[NodeOf[c]], handler[c], link[c], up[c],
                       agent[NodeOf[c]], c)'
  <2>1. /\ up[c] \in Seq(UpMessage)
        /\ StreamInv(latest[NodeOf[c]], handler[c], link[c], up[c],
                     agent[NodeOf[c]], c)
        /\ Ordered(up[c])
    BY DEF TypeOK, ReadingsInv, StreamInv
  <2>2. Ordered(up'[c]) /\ Range(up'[c]) \subseteq Range(up[c])
    <3>1. /\ up[c] # <<>> => Ordered(Tail(up[c])) /\
                            Range(Tail(up[c])) \subseteq Range(up[c])
          /\ \A k \in 0..Len(up[c]) :
                /\ Ordered(SubSeq(up[c], 1, k))
                /\ Range(SubSeq(up[c], 1, k)) \subseteq Range(up[c])
      BY <2>1, OrderedBuffer, RangeOfBuffer
    <3> QED BY <2>1, <3>1
  <2>3. /\ latest'[NodeOf[c]].conn = latest[NodeOf[c]].conn
        /\ latest'[NodeOf[c]].lastSeq = latest[NodeOf[c]].lastSeq
    BY NodeOfType DEF SameReadings
  <2>4. handler'[c] = "serving" => handler[c] = "serving"
    OBVIOUS
  <2>5. link'[c] = "open" =>
           /\ link[c] = "open" /\ handler'[c] # "none"
           /\ handler'[c] = "accepted" => up'[c] # <<>>
    BY <2>1 DEF StreamInv
  <2>6. StreamInv(latest'[NodeOf[c]], handler'[c], link'[c], up'[c],
                  agent[NodeOf[c]], c)
    BY <2>1, <2>2, <2>3, <2>4, <2>5, StreamShrinks
  <2> QED BY <2>6
<1>2. ASSUME NEW n \in Nodes
      PROVE  NodeInv(latest[n], agent[n])'
  BY DEF ReadingsInv, NodeInv, SameReadings
<1>3. OwnWebsocket'
  BY DEF ReadingsInv, OwnWebsocket
<1> QED BY <1>1, <1>2, <1>3 DEF ReadingsInv

\* What an agent may do to its process between two messages: it collects, it
\* gives its websocket up, it is replaced by a later incarnation.
LEMMA StreamAgent ==
    ASSUME NEW rt \in Runtime, NEW h, NEW lk, NEW s \in Seq(UpMessage),
           NEW a \in AgentProcess, NEW c, StreamInv(rt, h, lk, s, a, c),
           NodeInv(rt, a),
           NEW a2 \in AgentProcess,
           a2.conn = c => a.conn = c /\ a2.msgSeq = a.msgSeq,
           NotOlder(Now(a2), Now(a)),
           lk = "open" => a2.conn = c
    PROVE  StreamInv(rt, h, lk, s, a2, c) /\ NodeInv(rt, a2)
<1>1. Now(a) \in Stamp /\ Now(a2) \in Stamp /\ rt.stamp \in Stamp
  BY DEF Now, Stamp, AgentProcess, Runtime
<1>2. ASSUME NEW x \in Stamp, NotOlder(Now(a), x)
      PROVE  NotOlder(Now(a2), x)
  BY <1>1, <1>2, StampOrder
<1>3. NodeInv(rt, a2)
  BY <1>1, <1>2 DEF NodeInv
<1>4. Range(s) \subseteq UpMessage
  BY RangeOfBuffer
<1>5. \A m \in Range(s) : m.type = "sample" => NotOlder(Now(a2), m.stamp)
  BY <1>2, <1>4, MessageFields DEF StreamInv
<1> QED BY <1>3, <1>5 DEF StreamInv

\* A message that its agent adds to the end of its websocket.
LEMMA StreamGrows ==
    ASSUME NEW rt \in Runtime, NEW h, NEW s \in Seq(UpMessage),
           NEW a \in AgentProcess, NEW c, StreamInv(rt, h, "open", s, a, c),
           NodeInv(rt, a),
           NEW m \in UpMessage, NEW a2 \in AgentProcess,
           a2.conn = a.conn, Now(a2) = Now(a),
           IF Numbered(m) THEN m.seq = a.msgSeq + 1 /\ a2.msgSeq = a.msgSeq + 1
                          ELSE a2.msgSeq = a.msgSeq,
           m.type = "sample" => m.stamp = Now(a)
    PROVE  StreamInv(rt, h, "open", Append(s, m), a2, c) /\ NodeInv(rt, a2)
<1>1. a.msgSeq \in Nat /\ Now(a) \in Stamp /\ a.conn = c
  BY DEF AgentProcess, Now, Stamp, StreamInv
<1>2. /\ Range(s) \subseteq UpMessage
      /\ Range(Append(s, m)) = Range(s) \cup {m}
      /\ Append(s, m) # <<>>
  BY RangeOfBuffer, AppendProperties
<1>3. ASSUME NEW k \in Range(s)
      PROVE  /\ Numbered(k) => k.seq \in Nat /\ k.seq >= 1 /\ k.seq <= a.msgSeq
             /\ k.type = "sample" => NotOlder(Now(a), k.stamp)
  BY <1>1, <1>2, MessageFields DEF StreamInv, Numbered
<1>4. \A k \in Range(s) : Follows(k, m)
  BY <1>1, <1>3 DEF Follows
<1>5. Ordered(Append(s, m))
  BY <1>4, OrderedBuffer DEF StreamInv
<1>6. ASSUME NEW k \in Range(Append(s, m))
      PROVE  /\ Numbered(k) => k.seq >= 1 /\ k.seq <= a2.msgSeq
             /\ k.type = "sample" => NotOlder(Now(a2), k.stamp)
  <2>1. CASE k = m
    BY <1>1, <2>1, StampOrder
  <2>2. CASE k \in Range(s)
    BY <1>1, <1>3, <2>2
  <2> QED BY <1>2, <2>1, <2>2
<1>7. ASSUME rt.conn = c, h = "serving"
      PROVE  /\ \A k \in Range(Append(s, m)) : Numbered(k) => k.seq > rt.lastSeq
             /\ rt.lastSeq <= a2.msgSeq
  <2>1. rt.lastSeq <= a.msgSeq /\ rt.lastSeq \in Nat
    BY <1>1, <1>7 DEF StreamInv, Runtime
  <2>2. \A k \in Range(s) : Numbered(k) => k.seq > rt.lastSeq
    BY <1>7 DEF StreamInv
  <2> QED BY <1>1, <1>2, <2>1, <2>2
<1>8. NodeInv(rt, a2)
  BY DEF NodeInv
<1>9. a2.conn = c /\ h # "none"
  BY <1>1 DEF StreamInv
<1> QED BY <1>2, <1>5, <1>6, <1>7, <1>8, <1>9 DEF StreamInv

\* An agent that only changes its own process.
LEMMA ProcessReadings ==
    ASSUME TypeOK, ReadingsInv, NEW n \in Nodes, NEW a2 \in AgentProcess,
           agent' = [agent EXCEPT ![n] = a2], UNCHANGED <<latest, handler>>,
           \A c \in Conns :
              \/ up'[c] = up[c] /\ link'[c] \in {link[c], "shut"}
              \/ /\ \E k \in 0..Len(up[c]) : up'[c] = SubSeq(up[c], 1, k)
                 /\ link'[c] = "shut",
           a2.conn \in {agent[n].conn, NoConn},
           a2.conn # NoConn => a2.msgSeq = agent[n].msgSeq,
           NotOlder(Now(a2), Now(agent[n])),
           \A c \in Conns : NodeOf[c] = n /\ link'[c] = "open" => a2.conn = c
    PROVE  ReadingsInv'
<1>1. /\ \A k \in Nodes : latest[k] \in Runtime /\ agent[k] \in AgentProcess
      /\ \A k \in Nodes : agent'[k] = IF k = n THEN a2 ELSE agent[k]
  BY DEF TypeOK
<1>2. ASSUME NEW c \in Conns
      PROVE  StreamInv(latest[NodeOf[c]], handler[c], link[c], up[c],
                       agent[NodeOf[c]], c)'
  <2>1. /\ StreamInv(latest[NodeOf[c]], handler[c], link[c], up[c],
                     agent[NodeOf[c]], c)
        /\ up[c] \in Seq(UpMessage) /\ Ordered(up[c])
        /\ NodeInv(latest[NodeOf[c]], agent[NodeOf[c]])
    BY NodeOfType DEF ReadingsInv, StreamInv, TypeOK
  <2>2. Ordered(up'[c]) /\ Range(up'[c]) \subseteq Range(up[c])
    <3>1. \A k \in 0..Len(up[c]) :
             /\ Ordered(SubSeq(up[c], 1, k))
             /\ Range(SubSeq(up[c], 1, k)) \subseteq Range(up[c])
      BY <2>1, OrderedBuffer, RangeOfBuffer
    <3> QED BY <2>1, <3>1
  <2>3. StreamInv(latest[NodeOf[c]], handler[c], link'[c], up'[c],
                  agent[NodeOf[c]], c)
    <3>1. link'[c] = "open" =>
             /\ link[c] = "open" /\ handler[c] # "none"
             /\ handler[c] = "accepted" => up'[c] # <<>>
      BY <2>1 DEF StreamInv
    <3> QED BY <2>1, <2>2, <3>1, StreamShrinks
  <2>4. up'[c] \in Seq(UpMessage)
    <3>1. \A k \in 0..Len(up[c]) : SubSeq(up[c], 1, k) \in Seq(UpMessage)
      BY <2>1, RangeOfBuffer
    <3> QED BY <2>1, <3>1
  <2>5. CASE NodeOf[c] = n
    <3>1. a2.conn = c => agent[n].conn = c /\ a2.msgSeq = agent[n].msgSeq
      BY IdentityAssumption
    <3>2. StreamInv(latest[n], handler[c], link'[c], up'[c], a2, c)
      BY <1>1, <2>1, <2>3, <2>4, <2>5, <3>1, StreamAgent
    <3> QED BY <1>1, <2>5, <3>2
  <2>6. CASE NodeOf[c] # n
    BY <1>1, <2>3, <2>6, NodeOfType
  <2> QED BY <2>5, <2>6
<1>3. ASSUME NEW k \in Nodes
      PROVE  NodeInv(latest[k], agent[k])'
  <2>1. NodeInv(latest[k], agent[k])
    BY DEF ReadingsInv
  <2>2. CASE k = n
    <3>1. /\ Now(agent[n]) \in Stamp /\ Now(a2) \in Stamp
          /\ latest[n].stamp \in Stamp
      BY <1>1 DEF Now, Stamp, AgentProcess, Runtime
    <3> QED BY <1>1, <2>1, <2>2, <3>1, StampOrder DEF NodeInv
  <2>3. CASE k # n
    BY <1>1, <2>1, <2>3
  <2> QED BY <2>2, <2>3
<1>4. OwnWebsocket'
  BY <1>1 DEF ReadingsInv, OwnWebsocket
<1> QED BY <1>2, <1>3, <1>4 DEF ReadingsInv

\* An agent that adds a message to its websocket.
LEMMA MessageReadings ==
    ASSUME TypeOK, ReadingsInv, NEW n \in Nodes, Online(n),
           NEW m \in UpMessage, NEW a2 \in AgentProcess,
           agent' = [agent EXCEPT ![n] = a2],
           up' = [up EXCEPT ![agent[n].conn] = Append(@, m)],
           UNCHANGED <<latest, handler, link>>,
           a2.conn = agent[n].conn, Now(a2) = Now(agent[n]),
           IF Numbered(m)
           THEN m.seq = agent[n].msgSeq + 1 /\ a2.msgSeq = agent[n].msgSeq + 1
           ELSE a2.msgSeq = agent[n].msgSeq,
           m.type = "sample" => m.stamp = Now(agent[n])
    PROVE  ReadingsInv'
<1> DEFINE d == agent[n].conn
<1>1. /\ d \in Conns /\ NodeOf[d] = n /\ link[d] = "open"
  BY IdentityAssumption DEF Online, TypeOK, AgentProcess, ReadingsInv, OwnWebsocket
<1>2. /\ \A k \in Nodes : latest[k] \in Runtime /\ agent[k] \in AgentProcess
      /\ \A k \in Nodes : agent'[k] = IF k = n THEN a2 ELSE agent[k]
      /\ \A c \in Conns : up'[c] = IF c = d THEN Append(up[d], m) ELSE up[c]
      /\ \A c \in Conns : up[c] \in Seq(UpMessage)
  BY <1>1 DEF TypeOK
<1>3. /\ \A c \in Conns : StreamInv(latest[NodeOf[c]], handler[c], link[c], up[c],
                                   agent[NodeOf[c]], c)
      /\ \A k \in Nodes : NodeInv(latest[k], agent[k])
  BY DEF ReadingsInv
<1>4. /\ StreamInv(latest[n], handler[d], "open", Append(up[d], m), a2, d)
      /\ NodeInv(latest[n], a2)
  <2>1. /\ StreamInv(latest[n], handler[d], "open", up[d], agent[n], d)
        /\ NodeInv(latest[n], agent[n])
    BY <1>1, <1>3
  <2>2. /\ latest[n] \in Runtime /\ agent[n] \in AgentProcess
        /\ up[d] \in Seq(UpMessage)
    BY <1>1, <1>2
  <2> HIDE DEF d
  <2> QED BY <2>1, <2>2, StreamGrows
<1> HIDE DEF d
<1>5. ASSUME NEW c \in Conns
      PROVE  StreamInv(latest[NodeOf[c]], handler[c], link[c], up[c],
                       agent[NodeOf[c]], c)'
  <2>1. CASE c = d
    BY <1>1, <1>2, <1>4, <2>1
  <2>2. CASE c # d /\ NodeOf[c] = n
    <3>1. a2.conn # c /\ agent[n].conn # c
      BY <2>2 DEF d
    <3>2. StreamInv(latest[n], handler[c], link[c], up[c], a2, c)
      <4>1. StreamInv(latest[n], handler[c], link[c], up[c], agent[n], c)
        BY <1>3, <2>2
      <4> QED BY <3>1, <4>1 DEF StreamInv
    <3> QED BY <1>2, <2>2, <3>2
  <2>3. CASE NodeOf[c] # n
    <3>1. up'[c] = up[c] /\ agent'[NodeOf[c]] = agent[NodeOf[c]]
      BY <1>1, <1>2, <2>3, NodeOfType
    <3> QED BY <1>3, <3>1
  <2> QED BY <2>1, <2>2, <2>3
<1>6. ASSUME NEW k \in Nodes
      PROVE  NodeInv(latest[k], agent[k])'
  BY <1>2, <1>3, <1>4
<1>7. OwnWebsocket'
  BY <1>2 DEF ReadingsInv, OwnWebsocket
<1> QED BY <1>5, <1>6, <1>7 DEF ReadingsInv

\* A new websocket carries a hello, and its agent counts from zero.
LEMMA ConnectReadings ==
    ASSUME TypeOK, LinkInv, ReadingsInv, NEW c \in Conns, Connect(c)
    PROVE  ReadingsInv'
<1> DEFINE n == NodeOf[c]
<1>1. /\ n \in Nodes /\ agent[n] \in AgentProcess /\ agent[n].conn = NoConn
      /\ handler[c] = "none" /\ UNCHANGED latest
  BY NodeOfType DEF Connect, TypeOK
<1>2. PICK a2 \in AgentProcess :
         /\ agent' = [agent EXCEPT ![n] = a2]
         /\ a2.conn = c /\ Now(a2) = Now(agent[n])
  <2> DEFINE a2 == [agent[n] EXCEPT !.conn = c, !.msgSeq = 0, !.sentSeq = 0]
  <2>1. agent' = [agent EXCEPT ![n] = a2]
    BY DEF Connect
  <2>2. a2 \in AgentProcess /\ a2.conn = c /\ Now(a2) = Now(agent[n])
    BY <1>1 DEF AgentProcess, Now
  <2> QED BY <2>1, <2>2
<1>3. /\ \A k \in Nodes : agent'[k] = IF k = n THEN a2 ELSE agent[k]
      /\ \A d \in Conns \ {c} : /\ handler'[d] = handler[d] /\ up'[d] = up[d]
                                /\ link'[d] = link[d]
      /\ handler'[c] = "accepted" /\ up'[c] = <<Hello>>
  BY <1>1, <1>2 DEF TypeOK, Connect
<1>4. StreamInv(latest[n], handler[c], link[c], up[c], agent[n], c)'
  <2>1. Ordered(<<Hello>>) /\ Range(<<Hello>>) = {Hello} /\ ~Numbered(Hello)
    <3>1. /\ Hello \in UpMessage /\ up[c] \in Seq(UpMessage)
          /\ Ordered(up[c])
      BY MessageTypes DEF TypeOK, ReadingsInv, StreamInv
    <3>2. Ordered(<<Hello>>) /\ Range(<<Hello>>) = {Hello}
      BY <3>1, OrderedBuffer, RangeOfBuffer
    <3> QED BY <3>2 DEF Numbered, Hello
  <2>2. Hello.type # "sample" /\ <<Hello>> # <<>>
    BY DEF Hello
  <2>3. agent'[n].conn = c
    BY <1>1, <1>2, <1>3
  <2> QED BY <1>3, <2>1, <2>2, <2>3 DEF StreamInv
<1>5. ASSUME NEW d \in Conns \ {c}
      PROVE  StreamInv(latest[NodeOf[d]], handler[d], link[d], up[d],
                       agent[NodeOf[d]], d)'
  <2>1. StreamInv(latest[NodeOf[d]], handler[d], link[d], up[d],
                  agent[NodeOf[d]], d)
    BY DEF ReadingsInv
  <2>2. CASE NodeOf[d] = n
    <3>1. agent[n].conn # d /\ a2.conn # d
      BY <1>1, <1>2, IdentityAssumption
    <3>2. StreamInv(latest[n], handler[d], link[d], up[d], a2, d)
      BY <1>2, <2>1, <2>2, <3>1 DEF StreamInv
    <3> QED BY <1>1, <1>3, <2>2, <3>2
  <2>3. CASE NodeOf[d] # n
    BY <1>1, <1>3, <2>1, <2>3, NodeOfType
  <2> QED BY <2>2, <2>3
<1>6. ASSUME NEW k \in Nodes
      PROVE  NodeInv(latest[k], agent[k])'
  <2>1. NodeInv(latest[k], agent[k])
    BY DEF ReadingsInv
  <2> QED BY <1>1, <1>2, <1>3, <2>1 DEF NodeInv
<1>7. OwnWebsocket'
  BY <1>2, <1>3 DEF ReadingsInv, OwnWebsocket
<1> QED BY <1>4, <1>5, <1>6, <1>7 DEF ReadingsInv

-----------------------------------------------------------------------------
(* The invariant is inductive. *)

\* Nothing has been read or sent before the first step.
LEMMA ReadingsInit == Init => ReadingsInv
<1> SUFFICES ASSUME Init PROVE ReadingsInv
  OBVIOUS
<1>1. \A c \in Conns : up[c] = <<>> /\ link[c] = "unused" /\ handler[c] = "none"
  BY DEF Init
<1>2. Range(<<>>) = {} /\ Ordered(<<>>)
  BY DEF Range, Ordered
<1>3. \A c \in Conns : StreamInv(latest[NodeOf[c]], handler[c], link[c], up[c],
                                 agent[NodeOf[c]], c)
  BY <1>1, <1>2 DEF StreamInv
<1>4. \A n \in Nodes : NodeInv(latest[n], agent[n])
  <2> SUFFICES ASSUME NEW n \in Nodes PROVE NodeInv(latest[n], agent[n])
    OBVIOUS
  <2>1. /\ latest[n].conn = NoConn /\ latest[n].stamp = NoStamp
        /\ Now(agent[n]) = <<0, 0>>
    BY DEF Init, Absent, FreshProcess, Now
  <2>2. NotOlder(<<0, 0>>, NoStamp)
    BY DEF NotOlder, NoStamp
  <2> QED BY <2>1, <2>2 DEF NodeInv
<1>5. OwnWebsocket
  BY IdentityAssumption DEF Init, OwnWebsocket, FreshProcess
<1> QED BY <1>3, <1>4, <1>5 DEF ReadingsInv

\* A websocket that shuts keeps a beginning of what was travelling.
LEMMA ShutUp ==
    ASSUME TypeOK, NEW d, Shut(d)
    PROVE  \A c \in Conns :
              \/ up'[c] = up[c] /\ link'[c] \in {link[c], "shut"}
              \/ /\ \E k \in 0..Len(up[c]) : up'[c] = SubSeq(up[c], 1, k)
                 /\ link'[c] = "shut"
<1>1. PICK k \in 0..Len(up[d]) : up' = [up EXCEPT ![d] = SubSeq(@, 1, k)]
  BY DEF Shut
<1> QED BY <1>1 DEF Shut, TypeOK

\* Steps that read no sample, heartbeat or hello, and send nothing.
LEMMA QuietSteps ==
    ASSUME TypeOK, ReadingsInv,
           \/ \E c \in Conns : \/ HandleAnswer(c) \/ HandleDisconnect(c)
                               \/ Send(c) \/ Break(c)
           \/ \E r \in Requests : \/ RequestTimeout(r) \/ RequestReturns(r)
                                  \/ \E n \in Nodes : Request(r, n)
           \/ ChangeSettings \/ Tick \/ UNCHANGED vars
    PROVE  ReadingsInv'
<1>1. \A n \in Nodes : SameReadings(latest[n], latest[n])
  BY DEF SameReadings
<1>2. ASSUME UNCHANGED <<agent, latest, handler, link, up>>
      PROVE  ReadingsInv'
  BY <1>1, <1>2, QuietReadings
<1>3. ASSUME NEW c \in Conns, HandleAnswer(c)
      PROVE  ReadingsInv'
  <2>1. \A d \in Conns : \/ up'[d] = up[d]
                         \/ /\ up[d] # <<>> /\ up'[d] = Tail(up[d])
                            /\ handler[d] = "serving"
    BY <1>3 DEF HandleAnswer, Receives, TypeOK
  <2>2. UNCHANGED <<agent, latest, handler, link>>
    BY <1>3 DEF HandleAnswer
  <2> QED BY <1>1, <2>1, <2>2, QuietReadings
<1>4. ASSUME NEW c \in Conns, HandleDisconnect(c)
      PROVE  ReadingsInv'
  <2>1. /\ UNCHANGED <<agent, link, up>>
        /\ handler' = [handler EXCEPT ![c] = "closed"]
        /\ latest' = latest \/ latest' = Disconnect(latest, NodeOf[c], c)
    BY <1>4 DEF HandleDisconnect, Leave
  <2>2. \A n \in Nodes : SameReadings(latest'[n], latest[n])
    BY <1>1, <2>1, NodeOfType, DisconnectEffect DEF TypeOK
  <2>3. \A d \in Conns : handler'[d] \in {handler[d], "closed"}
    BY <2>1 DEF TypeOK
  <2> QED BY <2>1, <2>2, <2>3, QuietReadings
<1>5. ASSUME NEW c \in Conns, Break(c)
      PROVE  ReadingsInv'
  <2>1. UNCHANGED <<agent, latest, handler>> /\ Shut(c)
    BY <1>5 DEF Break, managerVars
  <2> QED BY <1>1, <2>1, ShutUp, QuietReadings
<1>6. ASSUME Tick
      PROVE  ReadingsInv'
  <2>1. UNCHANGED <<agent, handler, link, up>> /\ latest' = Older(latest)
    BY <1>6 DEF Tick
  <2>2. \A n \in Nodes : SameReadings(latest'[n], latest[n])
    BY <2>1 DEF Older, SameReadings, TypeOK, Runtime
  <2> QED BY <2>1, <2>2, QuietReadings
<1>7. ASSUME NEW r \in Requests,
             \/ RequestTimeout(r) \/ RequestReturns(r)
             \/ \E n \in Nodes : Request(r, n)
      PROVE  ReadingsInv'
  BY <1>2, <1>7 DEF RequestTimeout, RequestReturns, Request
<1>8. ASSUME ChangeSettings \/ UNCHANGED vars
      PROVE  ReadingsInv'
  BY <1>2, <1>8 DEF ChangeSettings, vars, managerVars
<1>9. ASSUME NEW c \in Conns, Send(c)
      PROVE  ReadingsInv'
  BY <1>2, <1>9 DEF Send
<1> QED BY <1>3, <1>4, <1>5, <1>6, <1>7, <1>8, <1>9

\* An agent that collects, applies settings, gives a dead websocket up or is
\* replaced.
LEMMA ProcessSteps ==
    ASSUME TypeOK, ReadingsInv, NEW n \in Nodes,
           \/ Collect(n) \/ ReceiveOther(n) \/ Notice(n) \/ NewProcess(n)
    PROVE  ReadingsInv'
<1> DEFINE a == agent[n]
<1>1. /\ a \in AgentProcess /\ agent \in [Nodes -> AgentProcess]
      /\ a.incarnation \in Nat /\ a.collected \in Nat /\ a.conn \in Conns \cup {NoConn}
      /\ Now(a) \in Stamp
  BY DEF TypeOK, AgentProcess, Now, Stamp
<1>2. \A c \in Conns : NodeOf[c] = n /\ link[c] = "open" => a.conn = c
  BY DEF ReadingsInv, StreamInv
<1>3. NotOlder(Now(a), Now(a))
  BY <1>1, StampOrder
<1>4. ASSUME NEW a2 \in AgentProcess, agent' = [agent EXCEPT ![n] = a2],
             UNCHANGED <<latest, handler, link, up>>,
             a2.conn = a.conn, a2.msgSeq = a.msgSeq, NotOlder(Now(a2), Now(a))
      PROVE  ReadingsInv'
  <2>1. /\ \A c \in Conns : up'[c] = up[c] /\ link'[c] = link[c]
        /\ a2.conn \in {a.conn, NoConn}
        /\ \A c \in Conns : NodeOf[c] = n /\ link'[c] = "open" => a2.conn = c
    BY <1>2, <1>4
  <2> QED BY <1>4, <2>1, ProcessReadings
<1>5. CASE Collect(n)
  <2> DEFINE a2 == [a EXCEPT !.collected = a.collected + 1]
  <2>1. agent' = [agent EXCEPT ![n] = a2] /\ UNCHANGED <<latest, handler, link, up>>
    BY <1>1, <1>5 DEF Collect, managerVars, AgentProcess
  <2>2. /\ a2 \in AgentProcess /\ a2.conn = a.conn /\ a2.msgSeq = a.msgSeq
        /\ a2.incarnation = a.incarnation /\ a2.collected = a.collected + 1
    BY <1>1 DEF AgentProcess
  <2>3. NotOlder(Now(a2), Now(a))
    BY <1>1, <2>2 DEF Now, NotOlder
  <2> HIDE DEF a2
  <2> QED BY <1>4, <2>1, <2>2, <2>3
<1>6. CASE ReceiveOther(n)
  <2>1. PICK v \in Nat : agent' = [agent EXCEPT ![n] = [a EXCEPT !.config = v]]
    <3> DEFINE m == Head(down[a.conn])
    <3>1. m \in DownMessage /\ a.config \in Nat
      BY <1>1, <1>6, HeadTailProperties
         DEF ReceiveOther, Receiving, Online, TypeOK, AgentProcess
    <3>2. CASE m.type = "config"
      <4>1. m.version \in Nat
        BY <3>1, <3>2, MessageFields
      <4>2. agent' = [agent EXCEPT ![n] = [a EXCEPT !.config = m.version]]
        BY <1>1, <1>6, <3>2 DEF ReceiveOther, AgentProcess
      <4> QED BY <4>1, <4>2
    <3>3. CASE m.type # "config"
      <4>1. agent' = agent
        BY <1>6, <3>3 DEF ReceiveOther
      <4>2. a = [a EXCEPT !.config = a.config]
        BY <1>1 DEF AgentProcess
      <4>3. agent = [agent EXCEPT ![n] = a]
        BY <1>1
      <4> QED BY <3>1, <4>1, <4>2, <4>3
    <3> QED BY <3>2, <3>3
  <2> DEFINE a2 == [a EXCEPT !.config = v]
  <2>2. /\ a2 \in AgentProcess /\ a2.conn = a.conn /\ a2.msgSeq = a.msgSeq
        /\ Now(a2) = Now(a)
    BY <1>1 DEF AgentProcess, Now
  <2>3. UNCHANGED <<latest, handler, link, up>>
    BY <1>6 DEF ReceiveOther, managerVars
  <2>4. agent' = [agent EXCEPT ![n] = a2]
    BY <2>1
  <2> HIDE DEF a2
  <2> QED BY <1>3, <1>4, <2>2, <2>3, <2>4
<1>7. CASE Notice(n)
  <2> DEFINE a2 == [a EXCEPT !.conn = NoConn]
  <2>1. /\ agent' = [agent EXCEPT ![n] = a2] /\ UNCHANGED <<latest, handler, link, up>>
        /\ link[a.conn] = "shut"
    BY <1>1, <1>7 DEF Notice, managerVars, AgentProcess
  <2>2. a2 \in AgentProcess /\ a2.conn = NoConn /\ Now(a2) = Now(a)
    BY <1>1 DEF AgentProcess, Now
  <2>3. \A c \in Conns : NodeOf[c] = n => link[c] # "open"
    BY <1>2, <2>1
  <2> HIDE DEF a2
  <2> QED BY <1>3, <2>1, <2>2, <2>3, ProcessReadings
<1>8. CASE NewProcess(n)
  <2> DEFINE a2 == FreshProcess(a.incarnation + 1)
  <2>1. agent' = [agent EXCEPT ![n] = a2] /\ UNCHANGED <<latest, handler>>
    BY <1>8 DEF NewProcess, managerVars
  <2>2. /\ a2 \in AgentProcess /\ a2.conn = NoConn /\ NotOlder(Now(a2), Now(a))
    BY <1>1 DEF FreshProcess, AgentProcess, Now, NotOlder
  <2>3. \A c \in Conns :
           /\ \/ up'[c] = up[c] /\ link'[c] \in {link[c], "shut"}
              \/ /\ \E k \in 0..Len(up[c]) : up'[c] = SubSeq(up[c], 1, k)
                 /\ link'[c] = "shut"
           /\ NodeOf[c] = n => link'[c] # "open"
    <3>1. CASE Online(n)
      <4>1. Shut(a.conn)
        BY <1>8, <3>1 DEF NewProcess
      <4>2. \A c \in Conns : NodeOf[c] = n => link'[c] # "open"
        BY <1>2, <4>1 DEF Shut, TypeOK
      <4> QED BY <4>1, <4>2, ShutUp
    <3>2. CASE ~Online(n)
      <4>1. UNCHANGED <<link, up>>
        BY <1>8, <3>2 DEF NewProcess
      <4>2. \A c \in Conns : NodeOf[c] = n => link[c] # "open"
        BY <1>2, <3>2, IdentityAssumption DEF Online
      <4> QED BY <4>1, <4>2
    <3> QED BY <3>1, <3>2
  <2> HIDE DEF a2
  <2> QED BY <2>1, <2>2, <2>3, ProcessReadings
<1> QED BY <1>5, <1>6, <1>7, <1>8

\* An agent that sends a sample, a heartbeat or an answer.
LEMMA SendSteps ==
    ASSUME TypeOK, ReadingsInv, NEW n \in Nodes,
           SendSample(n) \/ SendHeartbeat(n) \/ ReceiveAsk(n)
    PROVE  ReadingsInv'
<1> DEFINE a == agent[n]
<1>1. /\ a \in AgentProcess /\ agent \in [Nodes -> AgentProcess] /\ Online(n)
      /\ a.incarnation \in Nat /\ a.collected \in Nat /\ a.msgSeq \in Nat
      /\ a.msgSeq + 1 \in Nat /\ Now(a) \in Stamp
      /\ UNCHANGED <<latest, handler, link>>
  <2>1. /\ a \in AgentProcess /\ agent \in [Nodes -> AgentProcess]
        /\ a.incarnation \in Nat /\ a.collected \in Nat /\ a.msgSeq \in Nat
    BY DEF TypeOK, AgentProcess
  <2>2. a.msgSeq + 1 \in Nat /\ Now(a) \in Stamp
    BY <2>1 DEF Now, Stamp
  <2>3. Online(n) /\ UNCHANGED <<managerVars, link>>
    BY DEF SendSample, SendHeartbeat, ReceiveAsk, Receiving
  <2>4. UNCHANGED <<latest, handler, link>>
    BY <2>3 DEF managerVars
  <2> QED BY <2>1, <2>2, <2>3, <2>4
<1>2. CASE SendSample(n)
  <2> DEFINE a2 == [a EXCEPT !.msgSeq = a.msgSeq + 1, !.sentSeq = a.collected]
  <2>1. PICK valid \in BOOLEAN :
           up' = [up EXCEPT ![a.conn] =
                    Append(@, Sample(a.msgSeq + 1, Now(a), valid))]
    BY <1>2 DEF SendSample, Now
  <2>2. agent' = [agent EXCEPT ![n] = a2]
    BY <1>1, <1>2 DEF SendSample, AgentProcess
  <2>3. /\ a2 \in AgentProcess /\ a2.conn = a.conn /\ Now(a2) = Now(a)
        /\ a2.msgSeq = a.msgSeq + 1
    BY <1>1 DEF AgentProcess, Now
  <2> DEFINE m == Sample(a.msgSeq + 1, Now(a), valid)
  <2>4. /\ m \in UpMessage /\ Numbered(m) /\ m.seq = a.msgSeq + 1
        /\ m.stamp = Now(a)
    BY <1>1, MessageTypes DEF Sample, Numbered
  <2> HIDE DEF a2, m
  <2>5. up' = [up EXCEPT ![a.conn] = Append(@, m)]
    BY <2>1 DEF m
  <2> QED BY <1>1, <2>2, <2>3, <2>4, <2>5, MessageReadings
<1>3. CASE SendHeartbeat(n)
  <2> DEFINE a2 == [a EXCEPT !.msgSeq = a.msgSeq + 1]
             m == Heartbeat(a.msgSeq + 1)
  <2>1. up' = [up EXCEPT ![a.conn] = Append(@, m)]
    BY <1>3 DEF SendHeartbeat
  <2>2. agent' = [agent EXCEPT ![n] = a2]
    BY <1>1, <1>3 DEF SendHeartbeat, AgentProcess
  <2>3. /\ a2 \in AgentProcess /\ a2.conn = a.conn /\ Now(a2) = Now(a)
        /\ a2.msgSeq = a.msgSeq + 1
    BY <1>1 DEF AgentProcess, Now
  <2>4. /\ m \in UpMessage /\ Numbered(m) /\ m.seq = a.msgSeq + 1
        /\ m.type # "sample"
    BY <1>1, MessageTypes DEF Heartbeat, Numbered
  <2> HIDE DEF a2, m
  <2> QED BY <1>1, <2>1, <2>2, <2>3, <2>4, MessageReadings
<1>4. CASE ReceiveAsk(n)
  <2> DEFINE k == Head(down[a.conn])
             a2 == [a EXCEPT !.unwinding = (k.kind = "restart")]
             m == Answer(k.kind, k.req)
  <2>1. up' = [up EXCEPT ![a.conn] = Append(@, m)]
    BY <1>4 DEF ReceiveAsk
  <2>2. agent' = [agent EXCEPT ![n] = a2]
    BY <1>1, <1>4 DEF ReceiveAsk, AgentProcess
  <2>3. /\ a2 \in AgentProcess /\ a2.conn = a.conn /\ Now(a2) = Now(a)
        /\ a2.msgSeq = a.msgSeq
    BY <1>1 DEF AgentProcess, Now
  <2>4. k \in DownMessage /\ k.type = "ask"
    BY <1>1, <1>4, HeadTailProperties
       DEF ReceiveAsk, Receiving, Online, TypeOK, AgentProcess
  <2>5. m \in UpMessage /\ ~Numbered(m) /\ m.type # "sample"
    BY <2>4, MessageTypes, MessageFields DEF Answer, Numbered
  <2> HIDE DEF a2, m
  <2> QED BY <1>1, <2>1, <2>2, <2>3, <2>5, MessageReadings
<1> QED BY <1>2, <1>3, <1>4

\* Every step keeps the invariant.
LEMMA ReadingsStep ==
    TypeOK /\ LinkInv /\ ReadingsInv /\ [Next]_vars => ReadingsInv'
<1> SUFFICES ASSUME TypeOK, LinkInv, ReadingsInv, [Next]_vars PROVE ReadingsInv'
  OBVIOUS
<1>1. CASE Manager
  BY <1>1, HelloReadings, IngestReadings, QuietSteps DEF Manager
<1>2. CASE Agents
  BY <1>2, ProcessSteps, SendSteps DEF Agents, Exec, Crash
<1>3. CASE Network
  BY <1>3, QuietSteps, ConnectReadings DEF Network
<1>4. CASE UNCHANGED vars
  BY <1>4, QuietSteps
<1> QED BY <1>1, <1>2, <1>3, <1>4 DEF Next

\* The inductive invariant of the readings holds in every state.
THEOREM ReadingsInvariant == Spec => [](TypeOK /\ LinkInv /\ ReadingsInv)
<1>1. Init => TypeOK /\ LinkInv /\ ReadingsInv
  BY TypeInit, LinkInit, ReadingsInit
<1>2. TypeOK /\ LinkInv /\ ReadingsInv /\ [Next]_vars
        => (TypeOK /\ LinkInv /\ ReadingsInv)'
  BY TypeStep, LinkStep, ReadingsStep
<1> QED BY <1>1, <1>2, PTL DEF Spec

\* No sample of the connection that owns a node is dropped as a duplicate,
\* through replaced connections and restarted agents.
THEOREM OwnerIsHeardAlways == Spec => []OwnerIsHeard
<1>1. TypeOK /\ LinkInv /\ ReadingsInv => OwnerIsHeard
  <2> SUFFICES ASSUME TypeOK, LinkInv, ReadingsInv, NEW n \in Nodes,
                      latest[n].conn # NoConn,
                      handler[latest[n].conn] = "serving",
                      NEW i \in 1..Len(up[latest[n].conn]),
                      up[latest[n].conn][i].type = "sample"
               PROVE  up[latest[n].conn][i].seq > latest[n].lastSeq
    BY DEF OwnerIsHeard
  <2> DEFINE c == latest[n].conn
  <2>1. c \in Conns /\ NodeOf[c] = n
    BY DEF ReadingsInv, NodeInv, LinkInv, OwnerInv
  <2>2. up[c] \in Seq(UpMessage)
    BY <2>1 DEF TypeOK
  <2>3. up[c][i] \in Range(up[c])
    BY <2>2, RangeEquality
  <2>4. StreamInv(latest[n], handler[c], link[c], up[c], agent[n], c)
    BY <2>1 DEF ReadingsInv
  <2> QED BY <2>3, <2>4 DEF StreamInv, Numbered
<1> QED BY <1>1, ReadingsInvariant, PTL

-----------------------------------------------------------------------------
(* Readings never move back, when hellos reach the manager in order. *)

\* Messages are read or lost, handlers end, agents give websockets up.
LEMMA ForwardShrinks ==
    ASSUME ForwardInv,
           \A n \in Nodes : agent'[n].conn \in {agent[n].conn, NoConn},
           \A c \in Conns :
              /\ Owns(c)' => Owns(c)
              /\ HelloPending(c)' => HelloPending(c)
              /\ Samples(c)' \subseteq Samples(c)
              /\ Owns(c)' \/ HelloPending(c)' =>
                    \A m \in Samples(c)' :
                       NotOlder(m.stamp, latest'[NodeOf[c]].stamp)
    PROVE  ForwardInv'
<1> SUFFICES ASSUME NEW c \in Conns, HelloPending(c)'
             PROVE  /\ agent'[NodeOf[c]].conn \in {c, NoConn}
                    /\ \A d \in Conns :
                          NodeOf[d] = NodeOf[c] =>
                             /\ HelloPending(d)' => d = c
                             /\ Owns(d)' => \A m \in Samples(c)', k \in Samples(d)' :
                                               NotOlder(m.stamp, k.stamp)
  BY DEF ForwardInv
<1>1. HelloPending(c)
  OBVIOUS
<1> QED BY <1>1, NodeOfType DEF ForwardInv

\* As far as readings, handlers and buffers tell.
LEMMA QuietForward ==
    ASSUME ForwardInv,
           \A n \in Nodes : /\ agent'[n].conn \in {agent[n].conn, NoConn}
                            /\ SameReadings(latest'[n], latest[n]),
           \A c \in Conns : /\ handler'[c] \in {handler[c], "closed"}
                            /\ Samples(c)' \subseteq Samples(c)
                            /\ up[c] = <<>> => up'[c] = <<>>
    PROVE  ForwardInv'
<1>1. ASSUME NEW c \in Conns
      PROVE  /\ Owns(c)' => Owns(c)
             /\ HelloPending(c)' => HelloPending(c)
             /\ latest'[NodeOf[c]].stamp = latest[NodeOf[c]].stamp
  BY NodeOfType DEF Owns, HelloPending, SameReadings
<1>2. ASSUME NEW c \in Conns, Owns(c)' \/ HelloPending(c)', NEW m \in Samples(c)'
      PROVE  NotOlder(m.stamp, latest'[NodeOf[c]].stamp)
  BY <1>1, <1>2 DEF ForwardInv
<1> QED BY <1>1, <1>2, ForwardShrinks

\* A buffer that keeps a part of what it held holds no new sample.
LEMMA SamplesShrink ==
    ASSUME TypeOK, NEW c \in Conns,
           \/ up'[c] = up[c]
           \/ up[c] # <<>> /\ up'[c] = Tail(up[c])
           \/ \E k \in 0..Len(up[c]) : up'[c] = SubSeq(up[c], 1, k)
           \/ up'[c] = <<>>
    PROVE  Samples(c)' \subseteq Samples(c) /\ (up[c] = <<>> => up'[c] = <<>>)
<1>1. up[c] \in Seq(UpMessage)
  BY DEF TypeOK
<1>2. Range(up'[c]) \subseteq Range(up[c])
  <2>1. /\ up[c] # <<>> => Range(Tail(up[c])) \subseteq Range(up[c])
        /\ \A k \in 0..Len(up[c]) : Range(SubSeq(up[c], 1, k)) \subseteq Range(up[c])
        /\ Range(<<>>) = {}
    BY <1>1, RangeOfBuffer
  <2> QED BY <2>1
<1>3. up[c] = <<>> => up'[c] = <<>>
  <2> SUFFICES ASSUME up[c] = <<>>, NEW k \in 0..Len(up[c]),
                      up'[c] = SubSeq(up[c], 1, k)
               PROVE  up'[c] = <<>>
    OBVIOUS
  <2> QED BY SubSeqProperties
<1> QED BY <1>2, <1>3 DEF Samples

\* A reply to a message of c, by what it makes of the registry.
LEMMA ReplyForward ==
    ASSUME TypeOK, ForwardInv, NEW c \in Conns, NEW reg \in [Nodes -> Runtime],
           NEW b, NEW msg, up[c] # <<>>, Reply(c, reg, b, msg), UNCHANGED agent,
           \A k \in Nodes \ {NodeOf[c]} : reg[k] = latest[k],
           \/ SameReadings(reg[NodeOf[c]], latest[NodeOf[c]]) /\ handler[c] = "serving"
           \/ /\ reg[NodeOf[c]].conn = c
              /\ \A m \in Range(Tail(up[c])) :
                    m.type = "sample" => NotOlder(m.stamp, reg[NodeOf[c]].stamp)
              /\ \A d \in Conns \ {c} :
                    NodeOf[d] = NodeOf[c] /\ HelloPending(d) =>
                       /\ handler[c] = "serving" /\ latest[NodeOf[c]].conn = c
                       /\ \A m \in Samples(d) :
                             NotOlder(m.stamp, reg[NodeOf[c]].stamp)
    PROVE  ForwardInv'
<1> DEFINE n == NodeOf[c]
<1>1. n \in Nodes /\ up[c] \in Seq(UpMessage)
  BY NodeOfType DEF TypeOK
<1>2. /\ \A k \in Nodes : SameReadings(latest'[k], reg[k])
      /\ \A d \in Conns \ {c} : /\ handler'[d] = handler[d] /\ up'[d] = up[d]
      /\ \/ handler'[c] = "serving" /\ up'[c] = Tail(up[c])
         \/ handler'[c] = "closed" /\ up'[c] = <<>>
  BY ReplyEffect
<1>3. \A d \in Conns : /\ Samples(d)' \subseteq Samples(d)
                       /\ up[d] = <<>> => up'[d] = <<>>
  BY <1>2, SamplesShrink
<1>4. CASE SameReadings(reg[n], latest[n]) /\ handler[c] = "serving"
  <2>1. \A k \in Nodes : SameReadings(latest'[k], latest[k])
    BY <1>2, <1>4 DEF SameReadings
  <2>2. \A d \in Conns : handler'[d] \in {handler[d], "closed"}
    BY <1>2, <1>4
  <2> QED BY <1>3, <2>1, <2>2, QuietForward
<1>5. CASE /\ reg[n].conn = c
           /\ \A m \in Range(Tail(up[c])) :
                 m.type = "sample" => NotOlder(m.stamp, reg[n].stamp)
           /\ \A d \in Conns \ {c} :
                 NodeOf[d] = n /\ HelloPending(d) =>
                    /\ handler[c] = "serving" /\ latest[n].conn = c
                    /\ \A m \in Samples(d) : NotOlder(m.stamp, reg[n].stamp)
  <2>1. /\ latest'[n].conn = c /\ latest'[n].stamp = reg[n].stamp
        /\ \A k \in Nodes \ {n} : /\ latest'[k].conn = latest[k].conn
                                  /\ latest'[k].stamp = latest[k].stamp
    BY <1>1, <1>2, <1>5 DEF SameReadings
  <2>2. \A m \in Samples(c)' : NotOlder(m.stamp, reg[n].stamp)
    <3>1. Range(<<>>) = {}
      BY DEF Range
    <3> QED BY <1>2, <1>5, <3>1 DEF Samples
  <2>3. ~HelloPending(c)'
    BY <1>2 DEF HelloPending
  <2>4. \A d \in Conns \ {c} : /\ HelloPending(d)' => HelloPending(d)
                               /\ NodeOf[d] = n => ~Owns(d)'
                               /\ NodeOf[d] # n /\ Owns(d)' => Owns(d)
    BY <1>2, <2>1, NodeOfType DEF HelloPending, Owns
  <2>5. ASSUME NEW d \in Conns, NodeOf[d] = n, Owns(d)' \/ HelloPending(d)'
        PROVE  \A m \in Samples(d)' : NotOlder(m.stamp, latest'[n].stamp)
    BY <1>3, <1>5, <2>1, <2>2, <2>4, <2>5
  <2>6. ASSUME NEW d \in Conns, NodeOf[d] # n, Owns(d)' \/ HelloPending(d)'
        PROVE  \A m \in Samples(d)' : NotOlder(m.stamp, latest'[NodeOf[d]].stamp)
    BY <1>3, <2>1, <2>4, <2>6, NodeOfType DEF ForwardInv
  <2>7. CASE Owns(c)' => Owns(c)
    <3>1. \A d \in Conns : /\ Owns(d)' => Owns(d)
                           /\ HelloPending(d)' => HelloPending(d)
      BY <2>3, <2>4, <2>7
    <3> QED BY <1>3, <2>5, <2>6, <3>1, ForwardShrinks
  <2>8. CASE ~(Owns(c)' => Owns(c))
    <3>1. \A d \in Conns : NodeOf[d] = n => ~HelloPending(d)'
      BY <1>5, <2>3, <2>4, <2>8 DEF Owns
    <3>2. ASSUME NEW e \in Conns, HelloPending(e)'
          PROVE  /\ agent'[NodeOf[e]].conn \in {e, NoConn}
                 /\ \A d \in Conns :
                       NodeOf[d] = NodeOf[e] =>
                          /\ HelloPending(d)' => d = e
                          /\ Owns(d)' => \A m \in Samples(e)', k \in Samples(d)' :
                                            NotOlder(m.stamp, k.stamp)
      <4>1. NodeOf[e] # n /\ HelloPending(e) /\ e # c
        BY <2>4, <3>1, <3>2
      <4>2. \A d \in Conns : NodeOf[d] = NodeOf[e] =>
               /\ d # c
               /\ HelloPending(d)' => HelloPending(d)
               /\ Owns(d)' => Owns(d)
        BY <2>4, <4>1
      <4> QED BY <1>3, <4>1, <4>2 DEF ForwardInv
    <3> QED BY <2>5, <2>6, <3>2 DEF ForwardInv
  <2> QED BY <2>7, <2>8
<1> QED BY <1>4, <1>5

\* The three messages that change the registry: a hello is the only one under
\* way, a sample that counts is as recent as all that its websocket and the
\* next one carried before it.
LEMMA HandledForward ==
    ASSUME TypeOK, LinkInv, ReadingsInv, ForwardInv, NEW c \in Conns,
           HandleHello(c) \/ HandleSample(c) \/ HandleHeartbeat(c)
    PROVE  ForwardInv'
<1> DEFINE n == NodeOf[c]
           m == Head(up[c])
<1>1. n \in Nodes /\ latest \in [Nodes -> Runtime] /\ latest[n] \in Runtime
  BY NodeOfType DEF TypeOK
<1>2. /\ up[c] # <<>> /\ UNCHANGED agent
      /\ handler[c] = IF HandleHello(c) THEN "accepted" ELSE "serving"
  BY DEF HandleHello, HandleSample, HandleHeartbeat, Receives
<1>3. /\ m \in UpMessage /\ m \in Range(up[c])
      /\ Range(Tail(up[c])) \subseteq Range(up[c])
      /\ \A k \in Range(Tail(up[c])) : k \in UpMessage /\ Follows(m, k)
  BY <1>2, ReadMessage
<1>4. CASE HandleHello(c)
  <2> DEFINE reg == RegisterHello(latest, n, c)
  <2>1. \E b, msg : Reply(c, reg, b, msg)
    BY <1>4 DEF HandleHello
  <2>2. /\ reg \in [Nodes -> Runtime]
        /\ \A k \in Nodes \ {n} : reg[k] = latest[k]
        /\ reg[n].conn = c /\ reg[n].stamp = latest[n].stamp
    BY <1>1, RegistryTypes DEF RegisterHello
  <2> HIDE DEF reg
  <2>3. HelloPending(c)
    BY <1>2, <1>4 DEF HelloPending
  <2>4. \A d \in Conns \ {c} : NodeOf[d] = n => ~HelloPending(d)
    BY <2>3 DEF ForwardInv
  <2>5. \A k \in Range(Tail(up[c])) :
           k.type = "sample" => NotOlder(k.stamp, reg[n].stamp)
    BY <1>3, <2>2, <2>3 DEF ForwardInv, Samples
  <2> QED BY <1>2, <2>1, <2>2, <2>4, <2>5, ReplyForward
<1>5. CASE HandleSample(c) \/ HandleHeartbeat(c)
  <2>1. handler[c] = "serving"
    BY <1>5 DEF HandleSample, HandleHeartbeat, Receives
  <2>2. latest[n].known /\ latest[n].conn # NoConn
    BY <1>1, <2>1, IdentityAssumption DEF LinkInv, OwnerInv
  <2>3. CASE HandleSample(c)
    <3> DEFINE reg == IngestSample(latest, n, c, m.seq, m.stamp, m.valid)
    <3>1. \E b, msg : Reply(c, reg, b, msg)
      BY <2>3 DEF HandleSample
    <3>2. /\ m.type = "sample" /\ m.seq \in Nat /\ m.stamp \in Stamp
          /\ m.valid \in BOOLEAN
      BY <1>3, <2>3, MessageFields DEF HandleSample, Receives
    <3>3. reg \in [Nodes -> Runtime]
      BY <1>1, <3>2, IngestTypes
    <3>4. /\ \A k \in Nodes \ {n} : reg[k] = latest[k]
          /\ \/ SameReadings(reg[n], latest[n])
             \/ /\ latest[n].conn = c /\ reg[n].conn = c
                /\ reg[n].stamp = m.stamp
      BY <1>1, <2>2, <3>2, SampleEffect
    <3> HIDE DEF reg
    <3>5. CASE SameReadings(reg[n], latest[n])
      BY <1>2, <2>1, <3>1, <3>3, <3>4, <3>5, ReplyForward
    <3>6. CASE /\ latest[n].conn = c /\ reg[n].conn = c
               /\ reg[n].stamp = m.stamp
      <4>1. Owns(c) /\ m \in Samples(c)
        BY <1>3, <2>1, <3>2, <3>6 DEF Owns, Samples
      <4>2. \A k \in Range(Tail(up[c])) :
               k.type = "sample" => NotOlder(k.stamp, m.stamp)
        BY <1>3, <3>2 DEF Follows
      <4>3. \A d \in Conns \ {c} :
               NodeOf[d] = n /\ HelloPending(d) =>
                  \A k \in Samples(d) : NotOlder(k.stamp, m.stamp)
        BY <4>1 DEF ForwardInv
      <4> QED BY <1>2, <2>1, <3>1, <3>3, <3>4, <3>6, <4>2, <4>3, ReplyForward
    <3> QED BY <3>4, <3>5, <3>6
  <2>4. CASE HandleHeartbeat(c)
    <3> DEFINE reg == IngestHeartbeat(latest, n, c, m.seq)
    <3>1. \E b, msg : Reply(c, reg, b, msg)
      BY <2>4 DEF HandleHeartbeat
    <3>2. m.seq \in Nat
      BY <1>3, <2>4, MessageFields DEF HandleHeartbeat, Receives
    <3>3. /\ reg \in [Nodes -> Runtime]
          /\ \A k \in Nodes \ {n} : reg[k] = latest[k]
          /\ \/ SameReadings(reg[n], latest[n])
             \/ /\ latest[n].conn = c /\ reg[n].conn = c
                /\ reg[n].stamp = latest[n].stamp
      BY <1>1, <2>2, <3>2, HeartbeatEffect, IngestTypes DEF NoStamp, Stamp
    <3> HIDE DEF reg
    <3>4. CASE SameReadings(reg[n], latest[n])
      BY <1>2, <2>1, <3>1, <3>3, <3>4, ReplyForward
    <3>5. CASE /\ latest[n].conn = c /\ reg[n].conn = c
               /\ reg[n].stamp = latest[n].stamp
      <4>1. Owns(c)
        BY <2>1, <3>5 DEF Owns
      <4>2. \A k \in Range(Tail(up[c])) :
               k.type = "sample" => NotOlder(k.stamp, latest[n].stamp)
        BY <1>3, <4>1 DEF ForwardInv, Samples
      <4>3. \A d \in Conns \ {c} :
               NodeOf[d] = n /\ HelloPending(d) =>
                  \A k \in Samples(d) : NotOlder(k.stamp, latest[n].stamp)
        BY DEF ForwardInv
      <4> QED BY <1>2, <2>1, <3>1, <3>3, <3>5, <4>2, <4>3, ReplyForward
    <3> QED BY <3>3, <3>4, <3>5
  <2> QED BY <1>5, <2>3, <2>4
<1> QED BY <1>4, <1>5

\* A new websocket carries no sample yet, and no other hello of its node is
\* under way.
LEMMA ConnectForward ==
    ASSUME HelloInOrder, TypeOK, ForwardInv, NEW c \in Conns, Connect(c)
    PROVE  ForwardInv'
<1> DEFINE n == NodeOf[c]
<1>1. /\ n \in Nodes /\ UNCHANGED latest
      /\ \A k \in Nodes \ {n} : agent'[k] = agent[k]
      /\ agent'[n].conn = c
      /\ \A d \in Conns \ {c} : handler'[d] = handler[d] /\ up'[d] = up[d]
      /\ handler'[c] = "accepted" /\ up'[c] = <<Hello>>
      /\ \A d \in Conns : NodeOf[d] = n => ~HelloPending(d)
  BY NodeOfType DEF Connect, TypeOK, AgentProcess
<1>2. Samples(c)' = {}
  <2>1. Range(<<Hello>>) = {Hello}
    BY MessageTypes, RangeOfBuffer DEF TypeOK
  <2> QED BY <1>1, <2>1 DEF Samples, Hello
<1>3. ~Owns(c)'
  BY <1>1 DEF Owns
<1>4. \A d \in Conns \ {c} : /\ HelloPending(d)' = HelloPending(d)
                             /\ Samples(d)' = Samples(d) /\ Owns(d)' = Owns(d)
  BY <1>1 DEF HelloPending, Samples, Owns
<1>5. ASSUME NEW d \in Conns, Owns(d)' \/ HelloPending(d)'
      PROVE  \A m \in Samples(d)' : NotOlder(m.stamp, latest'[NodeOf[d]].stamp)
  BY <1>1, <1>2, <1>4, <1>5 DEF ForwardInv
<1>6. ASSUME NEW e \in Conns, HelloPending(e)'
      PROVE  /\ agent'[NodeOf[e]].conn \in {e, NoConn}
             /\ \A d \in Conns :
                   NodeOf[d] = NodeOf[e] =>
                      /\ HelloPending(d)' => d = e
                      /\ Owns(d)' => \A m \in Samples(e)', k \in Samples(d)' :
                                        NotOlder(m.stamp, k.stamp)
  <2>1. CASE e = c
    BY <1>1, <1>2, <1>4, <2>1
  <2>2. CASE e # c
    <3>1. HelloPending(e) /\ NodeOf[e] # n /\ NodeOf[e] \in Nodes
      BY <1>1, <1>4, <1>6, <2>2, NodeOfType
    <3>2. \A d \in Conns : NodeOf[d] = NodeOf[e] => d # c
      BY <3>1
    <3> QED BY <1>1, <1>4, <2>2, <3>1, <3>2 DEF ForwardInv
  <2> QED BY <2>1, <2>2
<1> QED BY <1>5, <1>6 DEF ForwardInv

\* A message that an agent sends: a sample is what it collected last.
LEMMA SentForward ==
    ASSUME TypeOK, ReadingsInv, ForwardInv, NEW n \in Nodes,
           SendSample(n) \/ SendHeartbeat(n) \/ ReceiveAsk(n)
    PROVE  ForwardInv'
<1>0. PICK c \in Conns : c = agent[n].conn
  BY IdentityAssumption
     DEF SendSample, SendHeartbeat, ReceiveAsk, Receiving, Online, TypeOK,
         AgentProcess
<1>1. /\ NodeOf[c] = n /\ link[c] = "open"
      /\ UNCHANGED <<latest, handler>>
  BY <1>0, IdentityAssumption
     DEF SendSample, SendHeartbeat, ReceiveAsk, Receiving, Online, TypeOK,
         AgentProcess, ReadingsInv, OwnWebsocket, managerVars
<1>2. \A k \in Nodes : agent'[k].conn = agent[k].conn
  <2>1. /\ agent \in [Nodes -> AgentProcess]
        /\ \A k \in Nodes \ {n} : agent'[k] = agent[k]
    BY DEF TypeOK, SendSample, SendHeartbeat, ReceiveAsk
  <2>2. SendSample(n) => agent'[n].conn = agent[n].conn
    BY <2>1 DEF SendSample, AgentProcess
  <2>3. SendHeartbeat(n) => agent'[n].conn = agent[n].conn
    BY <2>1 DEF SendHeartbeat, AgentProcess
  <2>4. ReceiveAsk(n) => agent'[n].conn = agent[n].conn
    BY <2>1 DEF ReceiveAsk, AgentProcess
  <2> QED BY <2>1, <2>2, <2>3, <2>4
<1>3. PICK m \in UpMessage :
         /\ up' = [up EXCEPT ![c] = Append(@, m)]
         /\ m.type = "sample" => m.stamp = Now(agent[n])
  <2>1. /\ agent[n] \in AgentProcess /\ agent[n].msgSeq + 1 \in Nat
        /\ Now(agent[n]) \in Stamp
    BY DEF TypeOK, AgentProcess, Now, Stamp
  <2>2. CASE SendSample(n)
    <3>1. PICK valid \in BOOLEAN :
             up' = [up EXCEPT ![c] =
                      Append(@, Sample(agent[n].msgSeq + 1, Now(agent[n]), valid))]
      BY <1>0, <2>2 DEF SendSample, Now
    <3> DEFINE m == Sample(agent[n].msgSeq + 1, Now(agent[n]), valid)
    <3>2. m \in UpMessage
      BY <2>1, MessageTypes
    <3>3. m.stamp = Now(agent[n])
      BY DEF Sample
    <3> HIDE DEF m
    <3>4. up' = [up EXCEPT ![c] = Append(@, m)]
      BY <3>1 DEF m
    <3> QED BY <3>2, <3>3, <3>4
  <2>3. CASE SendHeartbeat(n)
    BY <1>0, <2>1, <2>3, MessageTypes DEF SendHeartbeat, Heartbeat
  <2>4. CASE ReceiveAsk(n)
    <3>1. Head(down[c]) \in DownMessage /\ Head(down[c]).type = "ask"
      BY <1>0, <2>4, HeadTailProperties DEF ReceiveAsk, Receiving, TypeOK
    <3> DEFINE m == Answer(Head(down[c]).kind, Head(down[c]).req)
    <3>2. m \in UpMessage /\ m.type # "sample"
      BY <3>1, MessageTypes, MessageFields DEF Answer
    <3>3. up' = [up EXCEPT ![c] = Append(@, m)]
      BY <1>0, <2>4 DEF ReceiveAsk
    <3> HIDE DEF m
    <3> QED BY <3>2, <3>3
  <2> QED BY <2>2, <2>3, <2>4
<1>4. /\ \A d \in Conns \ {c} : up'[d] = up[d]
      /\ up'[c] = Append(up[c], m) /\ up[c] \in Seq(UpMessage)
  BY <1>1, <1>3 DEF TypeOK
<1>5. Range(up'[c]) = Range(up[c]) \cup {m}
  BY <1>3, <1>4, RangeOfBuffer
<1>6. /\ \A k \in Samples(c)' : k \in Samples(c) \/ k.stamp = Now(agent[n])
      /\ \A d \in Conns \ {c} : Samples(d)' = Samples(d)
  BY <1>3, <1>4, <1>5 DEF Samples
<1>7. handler[c] = "accepted" => up[c] # <<>>
  BY <1>1 DEF ReadingsInv, StreamInv
<1>8. \A d \in Conns : /\ HelloPending(d)' => HelloPending(d)
                       /\ Owns(d)' = Owns(d)
  BY <1>1, <1>4, <1>7 DEF HelloPending, Owns
<1>9. /\ NotOlder(Now(agent[n]), latest[n].stamp)
      /\ \A d \in Conns : NodeOf[d] = n =>
            \A k \in Samples(d) : NotOlder(Now(agent[n]), k.stamp)
  BY DEF ReadingsInv, NodeInv, StreamInv, Samples
<1>10. ASSUME NEW d \in Conns, Owns(d)' \/ HelloPending(d)', NEW k \in Samples(d)'
       PROVE  NotOlder(k.stamp, latest'[NodeOf[d]].stamp)
  <2>1. CASE k \in Samples(d)
    BY <1>1, <1>8, <1>10, <2>1 DEF ForwardInv
  <2>2. CASE k \notin Samples(d)
    <3>1. d = c /\ k.stamp = Now(agent[n])
      BY <1>6, <1>10, <2>2
    <3> QED BY <1>1, <1>9, <3>1
  <2> QED BY <2>1, <2>2
<1>11. ASSUME NEW e \in Conns, HelloPending(e)'
       PROVE  /\ agent'[NodeOf[e]].conn \in {e, NoConn}
              /\ \A d \in Conns :
                    NodeOf[d] = NodeOf[e] =>
                       /\ HelloPending(d)' => d = e
                       /\ Owns(d)' => \A k \in Samples(e)', q \in Samples(d)' :
                                         NotOlder(k.stamp, q.stamp)
  <2>1. HelloPending(e) /\ NodeOf[e] \in Nodes
    BY <1>8, <1>11, NodeOfType
  <2>2. agent[NodeOf[e]].conn \in {e, NoConn}
    BY <2>1 DEF ForwardInv
  <2>3. ASSUME NEW d \in Conns, NodeOf[d] = NodeOf[e], Owns(d),
               NEW k \in Samples(e)', NEW q \in Samples(d)'
        PROVE  NotOlder(k.stamp, q.stamp)
    <3>1. d # e
      BY <2>1, <2>3 DEF HelloPending, Owns
    <3>2. d # c
      BY <1>0, <1>1, <2>2, <2>3, <3>1, IdentityAssumption
    <3>3. q \in Samples(d)
      BY <1>6, <2>3, <3>2
    <3>4. CASE k \in Samples(e)
      BY <2>1, <2>3, <3>3, <3>4 DEF ForwardInv
    <3>5. CASE k \notin Samples(e)
      <4>1. e = c /\ k.stamp = Now(agent[n])
        BY <1>6, <2>3, <3>5
      <4> QED BY <1>1, <1>9, <2>3, <3>3, <4>1
    <3> QED BY <3>4, <3>5
  <2> QED BY <1>2, <1>8, <2>1, <2>2, <2>3 DEF ForwardInv
<1> QED BY <1>10, <1>11 DEF ForwardInv

\* Every other step loses messages, ends handlers, or gives websockets up.
LEMMA OtherForward ==
    ASSUME TypeOK, ForwardInv,
           \/ \E c \in Conns : \/ HandleAnswer(c) \/ HandleDisconnect(c)
                               \/ Send(c) \/ Break(c)
           \/ \E r \in Requests : \/ RequestTimeout(r) \/ RequestReturns(r)
                                  \/ \E n \in Nodes : Request(r, n)
           \/ \E n \in Nodes : \/ Collect(n) \/ ReceiveOther(n)
                               \/ Notice(n) \/ NewProcess(n)
           \/ ChangeSettings \/ Tick \/ UNCHANGED vars
    PROVE  ForwardInv'
<1>1. /\ \A n \in Nodes : SameReadings(latest[n], latest[n])
      /\ latest \in [Nodes -> Runtime] /\ agent \in [Nodes -> AgentProcess]
      /\ handler \in [Conns -> {"none", "accepted", "serving", "closed"}]
  BY DEF SameReadings, TypeOK
<1>2. ASSUME \A n \in Nodes : agent'[n].conn \in {agent[n].conn, NoConn},
             UNCHANGED <<latest, handler>>,
             \A c \in Conns :
                \/ up'[c] = up[c]
                \/ up[c] # <<>> /\ up'[c] = Tail(up[c])
                \/ \E k \in 0..Len(up[c]) : up'[c] = SubSeq(up[c], 1, k)
      PROVE  ForwardInv'
  BY <1>1, <1>2, SamplesShrink, QuietForward
<1>3. ASSUME UNCHANGED <<agent, latest, handler, up>>
      PROVE  ForwardInv'
  BY <1>2, <1>3
<1>4. ASSUME NEW c \in Conns, HandleAnswer(c)
      PROVE  ForwardInv'
  BY <1>2, <1>4 DEF HandleAnswer, Receives, TypeOK
<1>5. ASSUME NEW c \in Conns, HandleDisconnect(c)
      PROVE  ForwardInv'
  <2>1. /\ UNCHANGED <<agent, up>>
        /\ handler' = [handler EXCEPT ![c] = "closed"]
        /\ latest' = latest \/ latest' = Disconnect(latest, NodeOf[c], c)
    BY <1>5 DEF HandleDisconnect, Leave
  <2>2. \A n \in Nodes : SameReadings(latest'[n], latest[n])
    BY <1>1, <2>1, NodeOfType, DisconnectEffect
  <2>3. \A d \in Conns : handler'[d] \in {handler[d], "closed"}
    BY <1>1, <2>1
  <2> QED BY <2>1, <2>2, <2>3, SamplesShrink, QuietForward
<1>6. ASSUME NEW c \in Conns, Break(c)
      PROVE  ForwardInv'
  <2>1. UNCHANGED <<agent, latest, handler>> /\ Shut(c)
    BY <1>6 DEF Break, managerVars
  <2> QED BY <1>2, <2>1, ShutUp
<1>7. ASSUME Tick
      PROVE  ForwardInv'
  <2>1. UNCHANGED <<agent, handler, up>> /\ latest' = Older(latest)
    BY <1>7 DEF Tick
  <2>2. \A n \in Nodes : SameReadings(latest'[n], latest[n])
    BY <1>1, <2>1 DEF Older, SameReadings, Runtime
  <2> QED BY <2>1, <2>2, SamplesShrink, QuietForward
<1>8. ASSUME NEW r \in Requests,
             \/ RequestTimeout(r) \/ RequestReturns(r)
             \/ \E n \in Nodes : Request(r, n)
      PROVE  ForwardInv'
  BY <1>3, <1>8 DEF RequestTimeout, RequestReturns, Request
<1>9. ASSUME ChangeSettings \/ UNCHANGED vars
      PROVE  ForwardInv'
  BY <1>3, <1>9 DEF ChangeSettings, vars, managerVars
<1>10. ASSUME NEW c \in Conns, Send(c)
       PROVE  ForwardInv'
  BY <1>3, <1>10 DEF Send
<1>11. ASSUME NEW n \in Nodes,
              Collect(n) \/ ReceiveOther(n) \/ Notice(n) \/ NewProcess(n)
       PROVE  ForwardInv'
  <2>1. UNCHANGED <<latest, handler>>
    BY <1>11 DEF Collect, ReceiveOther, Notice, NewProcess, managerVars
  <2>2. \A k \in Nodes \ {n} : agent'[k] = agent[k]
    BY <1>1, <1>11 DEF Collect, ReceiveOther, Notice, NewProcess
  <2>3. /\ Collect(n) => agent'[n].conn = agent[n].conn
        /\ ReceiveOther(n) => agent'[n].conn = agent[n].conn
        /\ Notice(n) => agent'[n].conn = NoConn
        /\ NewProcess(n) => agent'[n].conn = NoConn
    <3>1. Collect(n) => agent'[n].conn = agent[n].conn
      BY <1>1 DEF Collect, AgentProcess
    <3>2. ReceiveOther(n) => agent'[n].conn = agent[n].conn
      BY <1>1 DEF ReceiveOther, AgentProcess
    <3>3. Notice(n) => agent'[n].conn = NoConn
      BY <1>1 DEF Notice, AgentProcess
    <3>4. NewProcess(n) => agent'[n].conn = NoConn
      BY <1>1 DEF NewProcess, FreshProcess
    <3> QED BY <3>1, <3>2, <3>3, <3>4
  <2>4. \A k \in Nodes : agent'[k].conn \in {agent[k].conn, NoConn}
    BY <1>11, <2>2, <2>3
  <2>5. \A c \in Conns : \/ up'[c] = up[c]
                         \/ \E k \in 0..Len(up[c]) : up'[c] = SubSeq(up[c], 1, k)
    <3>1. UNCHANGED up \/ Shut(agent[n].conn)
      BY <1>11 DEF Collect, ReceiveOther, Notice, NewProcess
    <3> QED BY <3>1, ShutUp
  <2> QED BY <1>2, <2>1, <2>4, <2>5
<1> QED BY <1>4, <1>5, <1>6, <1>7, <1>8, <1>9, <1>10, <1>11

\* Every step keeps the invariant.
LEMMA ForwardStep ==
    ASSUME HelloInOrder, TypeOK, LinkInv, ReadingsInv, ForwardInv, [Next]_vars
    PROVE  ForwardInv'
<1>1. CASE Manager
  BY <1>1, HandledForward, OtherForward DEF Manager
<1>2. CASE Agents
  BY <1>2, SentForward, OtherForward DEF Agents, Exec, Crash
<1>3. CASE Network
  BY <1>3, ConnectForward, OtherForward DEF Network
<1>4. CASE UNCHANGED vars
  BY <1>4, OtherForward
<1> QED BY <1>1, <1>2, <1>3, <1>4 DEF Next

\* Only a sample that counts changes the reading of a node, and it is as
\* recent as the one shown.
LEMMA StampMoves ==
    ASSUME TypeOK, LinkInv, ReadingsInv, ForwardInv, [Next]_vars, NEW n \in Nodes
    PROVE  NotOlder(latest'[n].stamp, latest[n].stamp)
<1>1. latest \in [Nodes -> Runtime] /\ latest[n] \in Runtime
  BY DEF TypeOK
<1>2. NotOlder(latest[n].stamp, latest[n].stamp)
  BY <1>1, StampOrder DEF Runtime
<1>3. ASSUME NEW c \in Conns, HandleSample(c)
      PROVE  NotOlder(latest'[n].stamp, latest[n].stamp)
  <2> DEFINE k == NodeOf[c]
             m == Head(up[c])
             reg == IngestSample(latest, k, c, m.seq, m.stamp, m.valid)
  <2>1. handler[c] = "serving" /\ up[c] # <<>> /\ m.type = "sample"
    BY <1>3 DEF HandleSample, Receives
  <2>2. /\ m \in Range(up[c]) /\ m.seq \in Nat /\ m.stamp \in Stamp
        /\ m.valid \in BOOLEAN
    BY <2>1, ReadMessage, MessageFields
  <2>3. k \in Nodes /\ latest[k].known /\ latest[k].conn # NoConn
    BY <2>1, NodeOfType, IdentityAssumption DEF LinkInv, OwnerInv
  <2>4. reg \in [Nodes -> Runtime]
    BY <1>1, <2>2, <2>3, IngestTypes
  <2>5. /\ \A i \in Nodes \ {k} : reg[i] = latest[i]
        /\ \/ SameReadings(reg[k], latest[k])
           \/ latest[k].conn = c /\ reg[k].stamp = m.stamp
    BY <1>1, <2>2, <2>3, SampleEffect
  <2>6. latest'[n].stamp = reg[n].stamp
    <3>1. \E b, msg : Reply(c, reg, b, msg)
      BY <1>3 DEF HandleSample
    <3> HIDE DEF reg
    <3> QED BY <2>4, <3>1, ReplyEffect DEF SameReadings
  <2> HIDE DEF reg
  <2>7. CASE n = k /\ latest[k].conn = c /\ reg[k].stamp = m.stamp
    <3>1. Owns(c) /\ m \in Samples(c)
      BY <2>1, <2>2, <2>7 DEF Owns, Samples
    <3> QED BY <2>6, <2>7, <3>1 DEF ForwardInv
  <2>8. CASE reg[n].stamp = latest[n].stamp
    BY <1>2, <2>6, <2>8
  <2> QED BY <2>5, <2>7, <2>8 DEF SameReadings
<1>4. ASSUME NEW c \in Conns, HandleHello(c)
      PROVE  latest'[n].stamp = latest[n].stamp
  <2> DEFINE reg == RegisterHello(latest, NodeOf[c], c)
  <2>1. /\ reg \in [Nodes -> Runtime] /\ reg[n].stamp = latest[n].stamp
    BY <1>1, NodeOfType, RegistryTypes DEF RegisterHello
  <2>2. \E b, msg : Reply(c, reg, b, msg)
    BY <1>4 DEF HandleHello
  <2> HIDE DEF reg
  <2> QED BY <2>1, <2>2, ReplyEffect DEF SameReadings
<1>5. ASSUME NEW c \in Conns, HandleHeartbeat(c)
      PROVE  latest'[n].stamp = latest[n].stamp
  <2> DEFINE k == NodeOf[c]
             reg == IngestHeartbeat(latest, k, c, Head(up[c]).seq)
  <2>1. /\ handler[c] = "serving" /\ up[c] # <<>>
        /\ Head(up[c]).type = "heartbeat"
    BY <1>5 DEF HandleHeartbeat, Receives
  <2>2. Head(up[c]).seq \in Nat
    BY <2>1, ReadMessage, MessageFields
  <2>3. k \in Nodes /\ latest[k].known /\ latest[k].conn # NoConn
    BY <2>1, NodeOfType, IdentityAssumption DEF LinkInv, OwnerInv
  <2>4. reg \in [Nodes -> Runtime]
    BY <1>1, <2>2, <2>3, IngestTypes DEF NoStamp, Stamp
  <2>5. reg[n].stamp = latest[n].stamp
    BY <1>1, <2>2, <2>3, HeartbeatEffect DEF SameReadings
  <2>6. \E b, msg : Reply(c, reg, b, msg)
    BY <1>5 DEF HandleHeartbeat
  <2> HIDE DEF reg
  <2> QED BY <2>4, <2>5, <2>6, ReplyEffect DEF SameReadings
<1>6. ASSUME NEW c \in Conns, HandleDisconnect(c)
      PROVE  latest'[n].stamp = latest[n].stamp
  <2>1. latest' = latest \/ latest' = Disconnect(latest, NodeOf[c], c)
    BY <1>6 DEF HandleDisconnect, Leave
  <2> QED BY <1>1, <2>1, NodeOfType, DisconnectEffect DEF SameReadings
<1>7. Tick => latest'[n].stamp = latest[n].stamp
  BY <1>1 DEF Tick, Older, Runtime
<1>8. ASSUME latest' = latest
      PROVE  NotOlder(latest'[n].stamp, latest[n].stamp)
  BY <1>2, <1>8
<1>9. CASE Manager
  <2>1. /\ \A c \in Conns : HandleAnswer(c) \/ Send(c) => latest' = latest
        /\ \A r \in Requests : RequestTimeout(r) \/ RequestReturns(r) => latest' = latest
        /\ \A r \in Requests, k \in Nodes : Request(r, k) => latest' = latest
        /\ ChangeSettings => latest' = latest
    BY DEF HandleAnswer, Send, RequestTimeout, RequestReturns, Request,
           ChangeSettings
  <2> QED BY <1>2, <1>3, <1>4, <1>5, <1>6, <1>7, <1>8, <1>9, <2>1 DEF Manager
<1>10. CASE Agents \/ Network \/ UNCHANGED vars
  <2>1. latest' = latest
    BY <1>10 DEF Agents, Network, Collect, SendSample, SendHeartbeat,
                 ReceiveOther, ReceiveAsk, Notice, Exec, Crash, NewProcess,
                 Break, Connect, vars, managerVars
  <2> QED BY <1>8, <2>1
<1> QED BY <1>9, <1>10 DEF Next

\* The readings shown for a node never go back to an older sample, through
\* replaced connections and restarted agents, when the hello of an abandoned
\* websocket is read before the next one connects or never.
THEOREM ReadingsForwardAlways ==
    ASSUME HelloInOrder PROVE Spec => ReadingsMoveForward
<1>1. Init => ForwardInv
  <2> SUFFICES ASSUME Init PROVE ForwardInv
    OBVIOUS
  <2>1. \A c \in Conns : handler[c] = "none"
    BY DEF Init
  <2> QED BY <2>1 DEF ForwardInv, Owns, HelloPending
<1>2. TypeOK /\ LinkInv /\ ReadingsInv /\ ForwardInv /\ [Next]_vars => ForwardInv'
  BY ForwardStep
<1>3. TypeOK /\ LinkInv /\ ReadingsInv /\ ForwardInv /\ [Next]_vars
        => [\A n \in Nodes : NotOlder(latest'[n].stamp, latest[n].stamp)]_vars
  BY StampMoves
<1> QED BY <1>1, <1>2, <1>3, ReadingsInvariant, PTL DEF Spec, ReadingsMoveForward

-----------------------------------------------------------------------------
(* The manager's settings reach the agents. *)

\* A message added to the end: a config becomes the last one, another message
\* changes nothing.
LEMMA LastOfAppend ==
    ASSUME NEW s \in Seq(DownMessage), NEW m \in DownMessage, NEW applied, NEW v
    PROVE  /\ m.type = "config" => LastConfig(Append(s, m), applied, m.version)
           /\ m.type # "config" /\ LastConfig(s, applied, v) =>
                 LastConfig(Append(s, m), applied, v)
<1> DEFINE t == Append(s, m)
<1>1. /\ Len(t) = Len(s) + 1 /\ Len(s) \in Nat /\ t[Len(s) + 1] = m
      /\ \A i \in 1..Len(s) : t[i] = s[i]
  BY AppendProperties, LenProperties
<1> HIDE DEF t
<1>2. ASSUME m.type = "config"
      PROVE  LastConfig(t, applied, m.version)
  <2>1. /\ Len(t) \in 1..Len(t) /\ t[Len(t)] = m
        /\ \A j \in 1..Len(t) : ~(j > Len(t))
    BY <1>1
  <2> QED BY <1>2, <2>1 DEF LastConfig
<1>3. ASSUME m.type # "config", LastConfig(s, applied, v)
      PROVE  LastConfig(t, applied, v)
  <2>1. CASE (\A i \in 1..Len(s) : s[i].type # "config") /\ applied = v
    <3>1. \A i \in 1..Len(t) : t[i].type # "config"
      BY <1>1, <1>3, <2>1
    <3> QED BY <2>1, <3>1 DEF LastConfig
  <2>2. ASSUME NEW i \in 1..Len(s), s[i].type = "config", s[i].version = v,
               \A j \in 1..Len(s) : j > i => s[j].type # "config"
        PROVE  LastConfig(t, applied, v)
    <3>1. i \in 1..Len(t) /\ t[i] = s[i]
      BY <1>1
    <3>2. \A j \in 1..Len(t) : j > i => t[j].type # "config"
      BY <1>1, <1>3, <2>2
    <3> QED BY <2>2, <3>1, <3>2 DEF LastConfig
  <2> QED BY <1>3, <2>1, <2>2 DEF LastConfig
<1> QED BY <1>2, <1>3 DEF t

\* A message read from the front: a config is applied.
LEMMA LastOfTail ==
    ASSUME NEW s \in Seq(DownMessage), s # <<>>, NEW applied, NEW v,
           LastConfig(s, applied, v)
    PROVE  LastConfig(Tail(s), IF Head(s).type = "config" THEN Head(s).version
                               ELSE applied, v)
<1> DEFINE t == Tail(s)
           now == IF Head(s).type = "config" THEN Head(s).version ELSE applied
<1>1. /\ Len(t) = Len(s) - 1 /\ Len(s) \in Nat /\ Len(t) \in Nat
      /\ \A i \in 1..Len(t) : t[i] = s[i + 1]
      /\ Head(s) = s[1]
  BY HeadTailProperties, LenProperties
<1> HIDE DEF t
<1>2. CASE (\A i \in 1..Len(s) : s[i].type # "config") /\ applied = v
  <2>1. \A i \in 1..Len(t) : t[i].type # "config"
    BY <1>1, <1>2
  <2>2. 1 \in 1..Len(s)
    BY <1>1
  <2>3. now = v
    BY <1>1, <1>2, <2>2
  <2> QED BY <2>1, <2>3 DEF LastConfig, t
<1>3. ASSUME NEW i \in 1..Len(s), s[i].type = "config", s[i].version = v,
             \A j \in 1..Len(s) : j > i => s[j].type # "config"
      PROVE  LastConfig(t, now, v)
  <2>1. CASE i = 1
    <3>1. now = v
      BY <1>1, <1>3, <2>1
    <3>2. \A j \in 1..Len(t) : t[j].type # "config"
      BY <1>1, <1>3, <2>1
    <3> QED BY <3>1, <3>2 DEF LastConfig
  <2>2. CASE i # 1
    <3>1. i - 1 \in 1..Len(t) /\ t[i - 1] = s[i]
      BY <1>1, <2>2
    <3>2. \A j \in 1..Len(t) : j > i - 1 => t[j].type # "config"
      BY <1>1, <1>3
    <3> QED BY <1>3, <3>1, <3>2 DEF LastConfig
  <2> QED BY <2>1, <2>2
<1> QED BY <1>2, <1>3 DEF LastConfig, t

\* The queue and the websocket are one buffer: what is put on the queue comes
\* last, the sender task changes nothing, the agent reads from the front.
LEMMA OneBuffer ==
    ASSUME NEW d \in Seq(DownMessage), NEW q \in Seq(DownMessage)
    PROVE  /\ d \o q \in Seq(DownMessage)
           /\ \A m \in DownMessage : d \o Append(q, m) = Append(d \o q, m)
           /\ q # <<>> => Append(d, Head(q)) \o Tail(q) = d \o q
           /\ d # <<>> => /\ d \o q # <<>>
                          /\ Head(d \o q) = Head(d)
                          /\ Tail(d) \o q = Tail(d \o q)
<1>1. d \o q \in Seq(DownMessage)
  BY ConcatProperties
<1>2. ASSUME NEW m \in DownMessage
      PROVE  d \o Append(q, m) = Append(d \o q, m)
  <2>1. <<m>> \in Seq(DownMessage)
    OBVIOUS
  <2>2. Append(q, m) = q \o <<m>> /\ Append(d \o q, m) = (d \o q) \o <<m>>
    BY <1>1, AppendIsConcat
  <2> QED BY <2>1, <2>2, ConcatAssociative
<1>3. ASSUME q # <<>>
      PROVE  Append(d, Head(q)) \o Tail(q) = d \o q
  <2>1. /\ Head(q) \in DownMessage /\ Tail(q) \in Seq(DownMessage)
        /\ <<Head(q)>> \in Seq(DownMessage)
    BY <1>3, HeadTailProperties
  <2>2. Append(d, Head(q)) = d \o <<Head(q)>>
    BY <2>1, AppendIsConcat
  <2>3. <<Head(q)>> \o Tail(q) = q
    BY <1>3
  <2> QED BY <2>1, <2>2, <2>3, ConcatAssociative
<1>4. ASSUME d # <<>>
      PROVE  /\ d \o q # <<>> /\ Head(d \o q) = Head(d)
             /\ Tail(d) \o q = Tail(d \o q)
  <2>1. /\ Head(d) \in DownMessage /\ Tail(d) \in Seq(DownMessage)
        /\ <<Head(d)>> \in Seq(DownMessage)
    BY <1>4, HeadTailProperties
  <2>2. d = <<Head(d)>> \o Tail(d)
    BY <1>4
  <2>3. d \o q = <<Head(d)>> \o (Tail(d) \o q)
    BY <2>1, <2>2, ConcatAssociative
  <2>4. Tail(d) \o q \in Seq(DownMessage)
    BY <2>1, ConcatProperties
  <2> QED BY <2>1, <2>3, <2>4
<1> QED BY <1>1, <1>2, <1>3, <1>4

\* Between an agent that has the settings ahead of it and a step that puts no
\* config on its way.
LEMMA SettledKept ==
    ASSUME TypeOK, NEW c \in Conns, Settled(c), UNCHANGED settings,
           agent'[NodeOf[c]].config = agent[NodeOf[c]].config,
           \/ down'[c] \o sendq'[c] = down[c] \o sendq[c]
           \/ /\ down'[c] = down[c]
              /\ \E m \in DownMessage : /\ m.type # "config"
                                        /\ sendq'[c] = Append(sendq[c], m)
    PROVE  Settled(c)'
<1>1. down[c] \in Seq(DownMessage) /\ sendq[c] \in Seq(DownMessage)
  BY DEF TypeOK
<1>2. CASE down'[c] \o sendq'[c] = down[c] \o sendq[c]
  BY <1>2 DEF Settled
<1>3. ASSUME NEW m \in DownMessage, m.type # "config",
             down'[c] = down[c], sendq'[c] = Append(sendq[c], m)
      PROVE  Settled(c)'
  <2> DEFINE s == down[c] \o sendq[c]
  <2>1. /\ s \in Seq(DownMessage)
        /\ down[c] \o Append(sendq[c], m) = Append(s, m)
    BY <1>1, OneBuffer
  <2>2. LastConfig(s, agent[NodeOf[c]].config, settings)
    BY DEF Settled
  <2> HIDE DEF s
  <2>3. LastConfig(Append(s, m), agent[NodeOf[c]].config, settings)
    BY <1>3, <2>1, <2>2, LastOfAppend
  <2> QED BY <1>3, <2>1, <2>3 DEF Settled
<1> QED BY <1>2, <1>3

\* A config of the current version on the queue settles it.
LEMMA ConfigSettles ==
    ASSUME TypeOK, NEW c \in Conns, settings' \in Nat, down'[c] = down[c],
           sendq'[c] = Append(sendq[c], Config(settings'))
    PROVE  Settled(c)'
<1> DEFINE s == down[c] \o sendq[c]
           m == Config(settings')
<1>1. /\ down[c] \in Seq(DownMessage) /\ sendq[c] \in Seq(DownMessage)
      /\ m \in DownMessage /\ m.type = "config" /\ m.version = settings'
  BY MessageTypes DEF TypeOK, Config
<1> HIDE DEF m
<1>2. /\ s \in Seq(DownMessage)
      /\ down[c] \o Append(sendq[c], m) = Append(s, m)
  BY <1>1, OneBuffer
<1> HIDE DEF s
<1>3. \A applied : LastConfig(Append(s, m), applied, settings')
  BY <1>1, <1>2, LastOfAppend
<1> QED BY <1>2, <1>3 DEF Settled, m

\* A reply: an ack to a served websocket, or the config that answers a hello.
LEMMA ReplySettled ==
    ASSUME TypeOK, SettingsInv, NEW d \in Conns, NEW reg, NEW b, NEW msg,
           Reply(d, reg, b, msg), UNCHANGED <<agent, settings, missed>>,
           msg = Config(settings) \/ (msg = Ack /\ handler[d] = "serving"),
           NEW c \in Conns, handler'[c] = "serving", link'[c] = "open",
           c \notin missed
    PROVE  Settled(c)'
<1>1. CASE c # d
  <2>1. /\ handler[c] = "serving" /\ link[c] = "open"
        /\ down'[c] = down[c] /\ sendq'[c] = sendq[c]
    BY <1>1 DEF Reply, Leave, TypeOK
  <2>2. Settled(c)
    BY <2>1 DEF SettingsInv
  <2> QED BY <2>1, <2>2, SettledKept
<1>2. CASE c = d
  <2>1. /\ link[c] = "open" /\ down'[c] = down[c]
        /\ sendq'[c] = Append(sendq[c], msg)
    BY <1>2 DEF Reply, Leave, TypeOK
  <2>2. CASE msg = Config(settings)
    BY <2>1, <2>2, ConfigSettles DEF TypeOK
  <2>3. CASE msg = Ack /\ handler[d] = "serving"
    <3>1. Settled(c)
      BY <1>2, <2>1, <2>3 DEF SettingsInv
    <3>2. msg \in DownMessage /\ msg.type # "config"
      BY <2>3, MessageTypes DEF Ack
    <3> QED BY <2>1, <3>1, <3>2, SettledKept
  <2> QED BY <2>2, <2>3
<1> QED BY <1>1, <1>2

\* The agent reads a message: a config is applied.
LEMMA ReadSettled ==
    ASSUME TypeOK, NEW c \in Conns, Settled(c), down[c] # <<>>,
           down'[c] = Tail(down[c]), UNCHANGED <<sendq, settings>>,
           agent'[NodeOf[c]].config = IF Head(down[c]).type = "config"
                                      THEN Head(down[c]).version
                                      ELSE agent[NodeOf[c]].config
    PROVE  Settled(c)'
<1> DEFINE s == down[c] \o sendq[c]
           a == agent[NodeOf[c]].config
<1>1. /\ s \in Seq(DownMessage) /\ s # <<>> /\ Head(s) = Head(down[c])
      /\ Tail(down[c]) \o sendq[c] = Tail(s)
  BY OneBuffer DEF TypeOK
<1>2. LastConfig(s, a, settings)
  BY DEF Settled
<1> HIDE DEF s
<1>3. LastConfig(Tail(s), IF Head(s).type = "config" THEN Head(s).version ELSE a,
                 settings)
  BY <1>1, <1>2, LastOfTail
<1> QED BY <1>1, <1>3 DEF Settled

\* Every step keeps the invariant.
LEMMA SettingsStep ==
    ASSUME TypeOK, ReadingsInv, SettingsInv, [Next]_vars
    PROVE  SettingsInv'
<1> SUFFICES ASSUME NEW c \in Conns, handler'[c] = "serving", link'[c] = "open",
                    c \notin missed'
             PROVE  Settled(c)'
  BY DEF SettingsInv
<1> DEFINE n == NodeOf[c]
<1>1. /\ n \in Nodes /\ agent \in [Nodes -> AgentProcess]
      /\ link[c] = "open" => agent[n].conn = c
      /\ handler[c] = "serving" /\ link[c] = "open" /\ c \notin missed => Settled(c)
  BY NodeOfType DEF TypeOK, ReadingsInv, StreamInv, SettingsInv
<1>2. ASSUME handler[c] = "serving", link[c] = "open", c \notin missed,
             UNCHANGED <<settings, sendq>>, down'[c] = down[c],
             agent'[n].config = agent[n].config
      PROVE  Settled(c)'
  BY <1>1, <1>2, SettledKept
<1>3. ASSUME NEW d \in Conns,
             HandleHello(d) \/ HandleSample(d) \/ HandleHeartbeat(d)
      PROVE  Settled(c)'
  <2>1. PICK msg : /\ \E reg, b : Reply(d, reg, b, msg)
                   /\ msg = Config(settings) \/ (msg = Ack /\ handler[d] = "serving")
    BY <1>3 DEF HandleHello, HandleSample, HandleHeartbeat, Receives
  <2>2. UNCHANGED <<agent, settings, missed>>
    BY <1>3 DEF HandleHello, HandleSample, HandleHeartbeat
  <2> QED BY <2>1, <2>2, ReplySettled
<1>4. ASSUME NEW d \in Conns, HandleAnswer(d)
      PROVE  Settled(c)'
  BY <1>2, <1>4 DEF HandleAnswer
<1>5. ASSUME NEW d \in Conns, HandleDisconnect(d)
      PROVE  Settled(c)'
  <2>1. /\ UNCHANGED <<settings, link, down, agent, missed>>
        /\ handler' = [handler EXCEPT ![d] = "closed"]
        /\ sendq' = [sendq EXCEPT ![d] = <<>>]
    BY <1>5 DEF HandleDisconnect, Leave
  <2>2. c # d /\ handler[c] = "serving" /\ sendq'[c] = sendq[c]
    BY <2>1 DEF TypeOK
  <2> QED BY <1>1, <2>1, <2>2, SettledKept
<1>6. ASSUME NEW d \in Conns, Send(d)
      PROVE  Settled(c)'
  <2>1. /\ UNCHANGED <<settings, handler, link, agent, missed>>
        /\ \/ down'[c] = down[c] /\ sendq'[c] = sendq[c]
           \/ /\ sendq[c] # <<>> /\ sendq'[c] = Tail(sendq[c])
              /\ down'[c] = Append(down[c], Head(sendq[c]))
    BY <1>6 DEF Send, TypeOK
  <2>2. down'[c] \o sendq'[c] = down[c] \o sendq[c]
    <3>1. down[c] \in Seq(DownMessage) /\ sendq[c] \in Seq(DownMessage)
      BY DEF TypeOK
    <3>2. sendq[c] # <<>> =>
             Append(down[c], Head(sendq[c])) \o Tail(sendq[c])
                = down[c] \o sendq[c]
      BY <3>1, OneBuffer
    <3> QED BY <2>1, <3>2
  <2> QED BY <1>1, <2>1, <2>2, SettledKept
<1>7. CASE ChangeSettings
  <2>1. /\ UNCHANGED <<handler, link, down, agent>> /\ settings' = settings + 1
        /\ handler[c] = "serving"
        /\ sendq'[c] = IF Live(c) /\ HasRoom(c)
                       THEN Append(sendq[c], Config(settings + 1)) ELSE sendq[c]
        /\ Live(c) /\ ~HasRoom(c) => c \in missed'
    BY <1>7 DEF ChangeSettings
  <2>2. sendq'[c] = Append(sendq[c], Config(settings'))
    BY <2>1 DEF Live
  <2> QED BY <2>1, <2>2, ConfigSettles DEF TypeOK
<1>8. ASSUME NEW r \in Requests, NEW k \in Nodes, Request(r, k)
      PROVE  Settled(c)'
  <2>1. /\ UNCHANGED <<settings, handler, link, down, agent, missed>>
        /\ \/ sendq'[c] = sendq[c]
           \/ sendq'[c] = Append(sendq[c], Ask(KindOf[r], r))
    BY <1>8 DEF Request, TypeOK
  <2>2. Ask(KindOf[r], r) \in DownMessage /\ Ask(KindOf[r], r).type # "config"
    BY MessageTypes, BrokerAssumption DEF BrokerAssumption, Kinds, Ask
  <2> QED BY <1>1, <2>1, <2>2, SettledKept
<1>9. ASSUME NEW d \in Conns, Break(d)
      PROVE  Settled(c)'
  <2>1. /\ UNCHANGED <<settings, handler, sendq, agent, missed>>
        /\ link' = [link EXCEPT ![d] = "shut"]
        /\ down' = [down EXCEPT ![d] = <<>>]
    BY <1>9 DEF Break, Shut, managerVars
  <2>2. c # d /\ link[c] = "open" /\ down'[c] = down[c]
    BY <2>1 DEF TypeOK
  <2> QED BY <1>2, <2>1, <2>2
<1>10. ASSUME NEW d \in Conns, Connect(d)
       PROVE  Settled(c)'
  <2>1. /\ UNCHANGED <<settings, sendq, down, missed>>
        /\ link' = [link EXCEPT ![d] = "open"]
        /\ handler' = [handler EXCEPT ![d] = "accepted"]
    BY <1>10 DEF Connect
  <2>2. c # d /\ link[c] = "open" /\ handler[c] = "serving"
    BY <2>1 DEF TypeOK
  <2>3. agent'[n].config = agent[n].config
    BY <1>1, <1>10 DEF Connect, AgentProcess
  <2> QED BY <1>2, <2>1, <2>2, <2>3
<1>11. ASSUME NEW k \in Nodes,
              \/ Collect(k) \/ SendSample(k) \/ SendHeartbeat(k) \/ Notice(k)
       PROVE  Settled(c)'
  <2>1. UNCHANGED <<settings, sendq, handler, link, down, missed>>
    BY <1>11 DEF Collect, SendSample, SendHeartbeat, Notice, managerVars
  <2>2. /\ Collect(k) => agent'[n].config = agent[n].config
        /\ SendSample(k) => agent'[n].config = agent[n].config
        /\ SendHeartbeat(k) => agent'[n].config = agent[n].config
        /\ Notice(k) => agent'[n].config = agent[n].config
    <3>1. Collect(k) => agent'[n].config = agent[n].config
      BY <1>1 DEF Collect, AgentProcess
    <3>2. SendSample(k) => agent'[n].config = agent[n].config
      BY <1>1 DEF SendSample, AgentProcess
    <3>3. SendHeartbeat(k) => agent'[n].config = agent[n].config
      BY <1>1 DEF SendHeartbeat, AgentProcess
    <3>4. Notice(k) => agent'[n].config = agent[n].config
      BY <1>1 DEF Notice, AgentProcess
    <3> QED BY <3>1, <3>2, <3>3, <3>4
  <2> QED BY <1>2, <1>11, <2>1, <2>2
<1>12. ASSUME NEW k \in Nodes, ReceiveOther(k) \/ ReceiveAsk(k)
       PROVE  Settled(c)'
  <2>1. /\ UNCHANGED <<settings, sendq, handler, link, missed>>
        /\ down[agent[k].conn] # <<>>
        /\ down' = [down EXCEPT ![agent[k].conn] = Tail(@)]
    BY <1>12 DEF ReceiveOther, ReceiveAsk, Receiving, managerVars
  <2>2. Settled(c) /\ agent[n].conn = c
    BY <1>1, <2>1
  <2>3. CASE k = n
    <3>1. agent'[n].config = IF Head(down[c]).type = "config"
                             THEN Head(down[c]).version ELSE agent[n].config
      <4>1. ReceiveOther(n) => agent'[n].config =
                                  IF Head(down[c]).type = "config"
                                  THEN Head(down[c]).version ELSE agent[n].config
        BY <1>1, <2>2 DEF ReceiveOther, AgentProcess
      <4>2. ReceiveAsk(n) => /\ Head(down[c]).type = "ask"
                             /\ agent'[n].config = agent[n].config
        BY <1>1, <2>2 DEF ReceiveAsk, AgentProcess
      <4> QED BY <1>12, <2>3, <4>1, <4>2
    <3>2. down[c] # <<>> /\ down'[c] = Tail(down[c])
      BY <2>1, <2>2, <2>3 DEF TypeOK
    <3> QED BY <2>1, <2>2, <3>1, <3>2, ReadSettled
  <2>4. CASE k # n
    <3>1. agent'[n] = agent[n]
      BY <1>1, <1>12, <2>4 DEF ReceiveOther, ReceiveAsk
    <3>2. agent[k].conn # c
      BY <1>12, <2>4 DEF ReceiveOther, ReceiveAsk, Receiving, Online,
                         ReadingsInv, OwnWebsocket, TypeOK, AgentProcess
    <3> QED BY <1>2, <1>1, <2>1, <2>2, <3>1, <3>2, SettledKept DEF TypeOK
  <2> QED BY <2>3, <2>4
<1>13. ASSUME NEW k \in Nodes, NewProcess(k)
       PROVE  Settled(c)'
  <2>1. UNCHANGED <<settings, sendq, handler, missed>>
    BY <1>13 DEF NewProcess, managerVars
  <2>2. \/ UNCHANGED <<link, down>>
        \/ /\ link' = [link EXCEPT ![agent[k].conn] = "shut"]
           /\ down' = [down EXCEPT ![agent[k].conn] = <<>>]
    BY <1>13 DEF NewProcess, Shut
  <2>3. link[c] = "open" /\ down'[c] = down[c]
    BY <2>2 DEF TypeOK
  <2>4. k # n
    <3>1. CASE k = n
      <4>1. Online(k)
        BY <1>1, <2>3, <3>1, IdentityAssumption DEF Online
      <4> QED BY <1>1, <1>13, <2>3, <3>1, <4>1 DEF NewProcess, Shut, TypeOK
    <3> QED BY <3>1
  <2>5. agent'[n] = agent[n]
    BY <1>1, <1>13, <2>4 DEF NewProcess
  <2> QED BY <1>2, <2>1, <2>3, <2>5
<1>14. ASSUME UNCHANGED <<settings, sendq, handler, link, down, agent, missed>>
       PROVE  Settled(c)'
  BY <1>2, <1>14
<1>15. CASE Manager
  <2>1. /\ \A r \in Requests :
              RequestTimeout(r) \/ RequestReturns(r) =>
                 UNCHANGED <<settings, sendq, handler, link, down, agent, missed>>
        /\ Tick => UNCHANGED <<settings, sendq, handler, link, down, agent, missed>>
    BY DEF RequestTimeout, RequestReturns, Tick
  <2> QED BY <1>3, <1>4, <1>5, <1>6, <1>7, <1>8, <1>14, <1>15, <2>1 DEF Manager
<1>16. CASE Agents
  BY <1>11, <1>12, <1>13, <1>16 DEF Agents, Exec, Crash
<1>17. CASE Network
  BY <1>9, <1>10, <1>17 DEF Network
<1>18. CASE UNCHANGED vars
  BY <1>14, <1>18 DEF vars, managerVars
<1> QED BY <1>15, <1>16, <1>17, <1>18 DEF Next

\* The greatest of a set of indices is the one that no other exceeds.
LEMMA LastIndex ==
    ASSUME NEW N \in Nat, NEW S, S \subseteq 1..N, NEW i \in S,
           \A j \in S : ~(j > i)
    PROVE  (CHOOSE k \in S : \A j \in S : j <= k) = i
<1>1. \A j \in S : j \in Int
  OBVIOUS
<1>2. \A j \in S : j <= i
  BY <1>1
<1>3. \A k \in S : (\A j \in S : j <= k) => k = i
  BY <1>1, <1>2
<1> QED BY <1>2, <1>3

\* A served agent that stays connected ends up with the manager's settings, in
\* spite of updates racing its hello, unless a full queue lost a broadcast.
THEOREM SettingsReachAgentAlways == Spec => []SettingsReachAgent
<1>1. Init => SettingsInv
  BY DEF Init, SettingsInv
<1>2. TypeOK /\ ReadingsInv /\ SettingsInv /\ [Next]_vars => SettingsInv'
  BY SettingsStep
<1>3. TypeOK /\ SettingsInv => SettingsReachAgent
  <2> SUFFICES ASSUME TypeOK, NEW c \in Conns, Settled(c)
               PROVE  ConfigsAhead(c) = settings
    BY DEF SettingsInv, SettingsReachAgent
  <2> DEFINE s == down[c] \o sendq[c]
             configs == {i \in 1..Len(s) : s[i].type = "config"}
  <2>1. Len(s) \in Nat
    BY OneBuffer, LenProperties DEF TypeOK
  <2>2. CASE (\A i \in 1..Len(s) : s[i].type # "config")
             /\ agent[NodeOf[c]].config = settings
    BY <2>2 DEF ConfigsAhead
  <2>3. ASSUME NEW i \in 1..Len(s), s[i].type = "config",
               s[i].version = settings,
               \A j \in 1..Len(s) : j > i => s[j].type # "config"
        PROVE  ConfigsAhead(c) = settings
    <3>1. i \in configs /\ configs \subseteq 1..Len(s)
      BY <2>3
    <3>2. \A j \in configs : ~(j > i)
      BY <2>3
    <3> HIDE DEF s, configs
    <3>3. (CHOOSE k \in configs : \A j \in configs : j <= k) = i
      BY <2>1, <3>1, <3>2, LastIndex
    <3> USE DEF s, configs
    <3>4. configs # {}
      BY <3>1
    <3> QED BY <2>3, <3>3, <3>4 DEF ConfigsAhead
  <2> QED BY <2>2, <2>3 DEF Settled, LastConfig
<1> QED BY <1>1, <1>2, <1>3, ReadingsInvariant, PTL DEF Spec
==============================================================================
