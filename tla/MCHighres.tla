------------------------------ MODULE MCHighres ------------------------------
(* Eight snapshots wrap the ring of seven; the sidecar sees four regular ones. *)
EXTENDS HighresStream

Snapshots == [manager |-> 8, sidecar |-> 4]
Odd == [manager |-> 2, sidecar |-> 0]
=============================================================================
