-------------------------- MODULE MCFileWrite --------------------------
(* FileWrite with small blocks and a short log. *)
EXTENDS FileWrite
========================================================================
