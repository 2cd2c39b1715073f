----------------------------- MODULE Identities ------------------------------
(***************************************************************************)
(* The names that the manager's registry and its RPC broker share.         *)
(***************************************************************************)
CONSTANTS Nodes,   \* node_id values
          Conns,   \* connection identities (`object()`) the manager creates
          NoConn   \* None

ASSUME IdentityAssumption == NoConn \notin Conns
=============================================================================
