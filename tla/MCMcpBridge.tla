---------------------------- MODULE MCMcpBridge ----------------------------
(* A small instance of McpBridge.                                          *)
EXTENDS McpBridge
=============================================================================
