------------------------------ MODULE ViewerFeed ------------------------------
(***************************************************************************)
(* A browser that watches the cluster: app.py's cluster_ws handler next to *)
(* the link with the agents.  The handler sends the whole cluster when the *)
(* registry's sequence number has changed, and every five seconds anyway,  *)
(* since a node becomes stale or offline by time alone, which wakes no     *)
(* waiter.  A tick of the registry's clock is at least these five seconds. *)
(***************************************************************************)
EXTENDS AgentLink

VARIABLES due,     \* the handler's next turn sends
          shown    \* what the browser was sent last, of each node

feedVars == <<due, shown>>
allVars == <<vars, feedVars>>

\* ClusterState.snapshot: the status of each node, when it is asked for.
Served == [n \in Nodes |-> IF latest[n].known THEN Status(latest[n]) ELSE "absent"]

\* The browser connects: last_seq = -1, so that the first turn sends.
FeedInit ==
    /\ Init
    /\ due = TRUE
    /\ shown = [n \in Nodes |-> "absent"]

\* Mutation: only what the registry is told makes the handler send.
NewsAlone == latest' # latest /\ latest' # Older(latest)

\* What makes it send: _bump, which all that is told to the registry calls,
\* or the passing of time.
News == latest' # latest

LinkStep ==
    /\ Next
    /\ due' = (due \/ News)
    /\ UNCHANGED shown

\* One turn of the handler's loop: snapshot and send_text.
SendCluster ==
    /\ due
    /\ shown' = Served
    /\ due' = FALSE
    /\ UNCHANGED vars

\* The websocket failed and the page connects again; it keeps what it shows.
Reconnect ==
    /\ due' = TRUE
    /\ UNCHANGED <<vars, shown>>

FeedNext == LinkStep \/ SendCluster \/ Reconnect

\* Besides the link's fairness: the handler's task runs.
FeedSpec ==
    /\ FeedInit /\ [][FeedNext]_allVars
    /\ Fairness
    /\ WF_allVars(SendCluster)

-----------------------------------------------------------------------------
\* A browser ends up showing what lasts of a node: that it is online, stale or
\* offline in the end, by the registry's clock as by its messages, and also
\* when nothing reaches the registry any more.
ViewersSeeWhatLasts ==
    \A n \in Nodes, status \in {"online", "stale", "offline"} :
        <>[](Served[n] = status) => <>[](shown[n] = status)
=============================================================================
