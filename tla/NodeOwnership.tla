---------------------------- MODULE NodeOwnership ----------------------------
(***************************************************************************)
(* What agent_ws promises about a node, whatever its connections do: the   *)
(* session that said hello last owns the node until it ends itself, and a  *)
(* session that was taken over can end, but never disturb its successor.   *)
(***************************************************************************)
CONSTANTS Nodes, Sessions, None, NodeOf

VARIABLES session,   \* of each session: before, during, after
          owner      \* of each node: the session that owns it, or None

OwnershipInit ==
    /\ session = [s \in Sessions |-> "before"]
    /\ owner = [n \in Nodes |-> None]

\* A hello makes the session the owner of its node.
TakeOver(s) ==
    /\ session[s] = "before"
    /\ session' = [session EXCEPT ![s] = "during"]
    /\ owner' = [owner EXCEPT ![NodeOf[s]] = s]

\* A session ends; its node is free if the session still owned it.
End(s) ==
    /\ session[s] = "during"
    /\ session' = [session EXCEPT ![s] = "after"]
    /\ owner' = [n \in Nodes |-> IF owner[n] = s THEN None ELSE owner[n]]

\* A session that ends as soon as it has taken over (its queue was full of
\* broadcasts), or before it could (no hello came).
Abort(s) ==
    /\ session[s] = "before"
    /\ session' = [session EXCEPT ![s] = "after"]
    /\ \/ owner' = owner
       \/ owner' = [owner EXCEPT ![NodeOf[s]] = None]

OwnershipNext == \E s \in Sessions : TakeOver(s) \/ End(s) \/ Abort(s)

Ownership == OwnershipInit /\ [][OwnershipNext]_<<session, owner>>
=============================================================================
