--------------------------- MODULE MCMcpRegistry ---------------------------
(***************************************************************************)
(* Small instances of McpRegistry.                                         *)
(***************************************************************************)
EXTENDS McpRegistry

CONSTANTS k1, k2, k3

=============================================================================
