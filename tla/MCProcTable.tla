-------------------------- MODULE MCProcTable --------------------------
(* ProcTable on small tables for TLC. *)
EXTENDS ProcTable
========================================================================
