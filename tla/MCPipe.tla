----------------------------- MODULE MCPipe -----------------------------
(* Pipe with few processes, for TLC. *)
EXTENDS Pipe
=========================================================================
