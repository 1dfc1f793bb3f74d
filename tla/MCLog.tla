---------------------------- MODULE MCLog ----------------------------
(* Log with few blocks and two calls. *)
EXTENDS Log
======================================================================
