----------------------------- MODULE MCAgentLink -----------------------------
(* One or two nodes, a few websockets, one or two calls. *)
EXTENDS AgentLink, TLC

CONSTANTS n1, n2, c1, c2, c3, r1, r2

Symmetry == Permutations(Conns)

OneNode == {n1}
TwoNodes == {n1, n2}
AllToOne == [c \in Conns |-> n1]
Split == [c \in Conns |-> IF c = c2 THEN n2 ELSE n1]
Restart == [r \in Requests |-> "restart"]
Lookup == [r \in Requests |-> "lookup"]
Both == [r \in Requests |-> IF r = r1 THEN "restart" ELSE "lookup"]
=============================================================================
