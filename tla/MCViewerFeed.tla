----------------------------- MODULE MCViewerFeed -----------------------------
(* The link of MCAgentLink, watched by one browser. *)
EXTENDS MCAgentLink, ViewerFeed
=============================================================================
