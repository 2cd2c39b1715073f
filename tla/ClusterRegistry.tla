--------------------------- MODULE ClusterRegistry ---------------------------
(***************************************************************************)
(* cluster.py, class ClusterState: the manager's registry of nodes.        *)
(*                                                                         *)
(* The registry is one function from nodes to NodeRuntime records, and     *)
(* each method is an operator from a registry to a registry, so that a     *)
(* websocket handler, which calls several methods between two awaits, is   *)
(* one action that composes them in the code's order.                      *)
(*                                                                         *)
(* A connection identity (`object()` in the code) is an element of Conns.  *)
(* A sample's payload is its stamp <<incarnation of the agent, collector   *)
(* sequence>>.  Elapsed time since last_seen_at is the counter `age`.      *)
(***************************************************************************)
EXTENDS Integers, Identities

CONSTANTS StaleAfter,    \* ticks of silence after which a node is stale
          OfflineAfter,  \* ticks of silence after which a node is offline
          MaxAge         \* bound of the age counter

ASSUME RegistryAssumption ==
    StaleAfter \in Nat /\ OfflineAfter \in Nat /\ MaxAge \in Nat

NoStamp == <<0, 0>>
Stamp == Nat \X Nat

\* Order of collection: a later incarnation of the agent, or a later sample of
\* the same one.
NotOlder(new, old) ==
    \/ new[1] > old[1]
    \/ new[1] = old[1] /\ new[2] >= old[2]

Runtime == [known : BOOLEAN, conn : Conns \cup {NoConn}, connected : BOOLEAN,
            lastSeq : Nat, stamp : Stamp, error : BOOLEAN, age : 0..MaxAge]

\* A node that is not a key of latest_by_node.
Absent == [known |-> FALSE, conn |-> NoConn, connected |-> FALSE,
           lastSeq |-> 0, stamp |-> NoStamp, error |-> FALSE, age |-> 0]

ConnectionMatches(rt, c) == rt.conn \in {NoConn, c}

\* Mutation: last_seq starts from the -1 that cluster_ws starts from.
RegisterHelloMinusOne(reg, n, c) ==
    [reg EXCEPT ![n] = [@ EXCEPT !.known = TRUE, !.conn = c,
                                 !.connected = TRUE, !.lastSeq = -1, !.age = 0]]

\* Mutation: last_seq survives the reconnection.
RegisterHelloKeepsSeq(reg, n, c) ==
    [reg EXCEPT ![n] = [@ EXCEPT !.known = TRUE, !.conn = c,
                                 !.connected = TRUE, !.age = 0]]

\* Mutation: a node that looks connected keeps its connection.
RegisterHelloIfOffline(reg, n, c) ==
    IF reg[n].connected THEN reg
    ELSE [reg EXCEPT ![n] = [@ EXCEPT !.known = TRUE, !.conn = c,
                                      !.connected = TRUE, !.lastSeq = 0, !.age = 0]]

\* register_hello: a new runtime, or the old one taken over by connection c.
RegisterHello(reg, n, c) ==
    [reg EXCEPT ![n] = [known |-> TRUE, conn |-> c, connected |-> TRUE,
                        lastSeq |-> 0, stamp |-> @.stamp, error |-> @.error,
                        age |-> 0]]

\* Mutation: samples are filtered by sequence alone.
AdmitsAnyConnection(rt, c, seq) == rt.known => seq > rt.lastSeq

\* The two early returns of ingest_sample.
Admits(rt, c, seq) ==
    rt.known => ConnectionMatches(rt, c) /\ seq > rt.lastSeq

\* reject_sample: keep the last readings, flag the snapshot.
RejectSample(reg, n, c) ==
    IF reg[n].known /\ ConnectionMatches(reg[n], c)
    THEN [reg EXCEPT ![n].error = TRUE]
    ELSE reg

\* ingest_sample with its caller's `except`: an admitted sample replaces the
\* runtime, an admitted sample that does not decode is rejected.
IngestSample(reg, n, c, seq, stamp, valid) ==
    IF ~Admits(reg[n], c, seq) THEN reg
    ELSE IF ~valid THEN RejectSample(reg, n, c)
    ELSE [reg EXCEPT ![n] = [known |-> TRUE, conn |-> c, connected |-> TRUE,
                             lastSeq |-> seq, stamp |-> stamp,
                             error |-> FALSE, age |-> 0]]

\* ingest_heartbeat: registers an unknown node, else refreshes a matching one.
IngestHeartbeat(reg, n, c, seq) ==
    LET known == IF reg[n].known THEN reg ELSE RegisterHello(reg, n, c)
        rt == known[n]
    IN  IF ConnectionMatches(rt, c)
        THEN [known EXCEPT ![n] =
                [rt EXCEPT !.connected = TRUE, !.age = 0,
                           !.lastSeq = IF seq > rt.lastSeq THEN seq
                                                           ELSE rt.lastSeq]]
        ELSE known

\* disconnect: only the connection that owns the runtime takes it offline.
Disconnect(reg, n, c) ==
    IF reg[n].known /\ ConnectionMatches(reg[n], c)
    THEN [reg EXCEPT ![n].connected = FALSE]
    ELSE reg

\* Mutation: only the websocket tells whether a node is offline.
StatusWithoutClock(rt) ==
    IF rt.connected THEN IF rt.error THEN "error" ELSE "online" ELSE "offline"

\* _status, evaluated whenever a snapshot is served.
Status(rt) ==
    CASE ~rt.connected \/ rt.age > OfflineAfter -> "offline"
      [] rt.connected /\ rt.age <= OfflineAfter /\ rt.age > StaleAfter -> "stale"
      [] rt.connected /\ rt.age <= OfflineAfter /\ rt.age <= StaleAfter ->
            IF rt.error THEN "error" ELSE "online"

\* The passage of time, seen by time.time() - last_seen_at.
Older(reg) ==
    [n \in Nodes |->
        IF reg[n].known /\ reg[n].age < MaxAge
        THEN [reg[n] EXCEPT !.age = @ + 1] ELSE reg[n]]
=============================================================================
