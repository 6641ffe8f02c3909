--------------------------- MODULE MCMcpSessions ----------------------------
(* The instance of McpSessions that TLC checks.  It is also checked for    *)
(* liveness, which rules out symmetry.                                     *)
EXTENDS McpSessions
=============================================================================
