---------------------------- MODULE MCMcpSessions ----------------------------
(* Connections c1, c2, ... are given to the two handlers by the cfg files.  *)
EXTENDS McpSessions
=============================================================================
