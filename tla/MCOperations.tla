----------------------------- MODULE MCOperations -----------------------------
(* The sidecar stands for the local agent too: both are started alike. *)
EXTENDS Operations

Commands == [host |-> 3, node |-> 2]
TwoServices == <<"manager", "sidecar">>
=============================================================================
