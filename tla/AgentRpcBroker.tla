--------------------------- MODULE AgentRpcBroker ----------------------------
(***************************************************************************)
(* agent_rpc.py, class AgentRpcBroker: which connection serves each node,  *)
(* and the futures that manager-side callers wait on.                      *)
(*                                                                         *)
(* A broker is a record [conns, calls].  calls[r] follows one call of      *)
(* `_request` from its check to what it returns or raises:                 *)
(*   idle      not called yet                                              *)
(*   waiting   in _pending, its future not done                            *)
(*   resolved  in _pending, set_result done, the caller not yet awake      *)
(*   failed    in _pending, set_exception done, the caller not yet awake   *)
(*   ok, timeout, unavailable, unsupported     what the caller got         *)
(***************************************************************************)
EXTENDS Identities

CONSTANTS Requests,    \* uuid4 request ids, one per call
          KindOf,      \* "restart" or "lookup": the pair of message types
          NoNode,      \* a call that has not named its node
          Capable      \* nodes whose hello advertises both capabilities

ASSUME BrokerAssumption ==
    /\ NoNode \notin Nodes
    /\ Capable \subseteq Nodes
    /\ KindOf \in [Requests -> {"restart", "lookup"}]

CallState == {"idle", "waiting", "resolved", "failed",
              "ok", "timeout", "unavailable", "unsupported"}
Call == [state : CallState, node : Nodes \cup {NoNode},
         conn : Conns \cup {NoConn}]
Broker == [conns : [Nodes -> Conns \cup {NoConn}], calls : [Requests -> Call]]

NoBroker == [conns |-> [n \in Nodes |-> NoConn],
             calls |-> [r \in Requests |->
                          [state |-> "idle", node |-> NoNode, conn |-> NoConn]]]

SettledStates == {"ok", "timeout", "unavailable", "unsupported"}

\* Mutation: the calls of every node fail.
FailAllPending(calls, n) ==
    [r \in Requests |->
        IF calls[r].state = "waiting"
        THEN [calls[r] EXCEPT !.state = "failed"] ELSE calls[r]]

\* _fail_pending: every future of the node that is not done gets an exception.
FailPending(calls, n) ==
    [r \in Requests |->
        IF calls[r].state = "waiting" /\ calls[r].node = n
        THEN [calls[r] EXCEPT !.state = "failed"] ELSE calls[r]]

\* Mutation: a replaced connection leaves its calls to their timeouts.
RegisterQuietly(b, n, c) == [b EXCEPT !.conns[n] = c]

\* register: a replaced connection fails the calls that were sent on it.
Register(b, n, c) ==
    [conns |-> [b.conns EXCEPT ![n] = c],
     calls |-> IF b.conns[n] \in {NoConn, c} THEN b.calls
                                             ELSE FailPending(b.calls, n)]

\* Mutation: whoever ends removes the node's connection.
UnregisterAnyone(b, n, c) ==
    [conns |-> [b.conns EXCEPT ![n] = NoConn], calls |-> FailPending(b.calls, n)]

\* unregister: only the registered connection removes itself.
Unregister(b, n, c) ==
    IF b.conns[n] # c THEN b
    ELSE [conns |-> [b.conns EXCEPT ![n] = NoConn],
          calls |-> FailPending(b.calls, n)]

\* _resolve_response: the answer counts only on the registered connection, for
\* a call of that node and response type whose future is not done.
Resolves(b, n, c, r, kind) ==
    /\ b.conns[n] = c
    /\ b.calls[r].state = "waiting"
    /\ b.calls[r].node = n
    /\ KindOf[r] = kind

\* Mutation: futures are found by node alone.
ResolveByNode(b, n, c, r, kind) ==
    IF b.conns[n] # c THEN b
    ELSE [b EXCEPT !.calls = [q \in Requests |->
            IF @[q].state = "waiting" /\ @[q].node = n
            THEN [@[q] EXCEPT !.state = "resolved"] ELSE @[q]]]

Resolve(b, n, c, r, kind) ==
    IF Resolves(b, n, c, r, kind)
    THEN [b EXCEPT !.calls[r].state = "resolved"] ELSE b

\* The end of `_request`: the caller leaves with an outcome.
Settle(b, r, outcome) == [b EXCEPT !.calls[r].state = outcome]

\* The head of `_request`: what it decides before it may await.
RequestOutcome(b, n, hasRoom) ==
    CASE b.conns[n] = NoConn -> "unavailable"
      [] b.conns[n] # NoConn /\ n \notin Capable -> "unsupported"
      [] b.conns[n] # NoConn /\ n \in Capable ->
            IF hasRoom THEN "waiting" ELSE "unavailable"

Start(b, r, n, outcome) ==
    [b EXCEPT !.calls[r] = [state |-> outcome, node |-> n, conn |-> b.conns[n]]]
=============================================================================
