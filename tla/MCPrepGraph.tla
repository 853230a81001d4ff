---------------------------- MODULE MCPrepGraph ----------------------------
(* Constants of the PrepGraph runs.                                        *)
EXTENDS PrepGraph

CONSTANTS j1, a, b, c
============================================================================
