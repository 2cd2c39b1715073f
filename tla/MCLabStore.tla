------------------------------ MODULE MCLabStore ------------------------------
(* Two users with one email, and two accounts of a node. *)
EXTENDS LabStore, TLC

CONSTANTS u1, u2, s1, s2, e1, r1, r2, a1, a2

OneEmail == [s \in Subjects |-> {e1}]
SharedNode == {[node |-> 1, uid |-> a] : a \in {a1, a2}}

Symmetry == Permutations(Users) \cup Permutations(Subjects)
              \cup Permutations(Requests) \cup Permutations({a1, a2})
=============================================================================
