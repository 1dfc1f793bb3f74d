---------------------------- MODULE MCRecords ----------------------------
(* ChildRecords with short arrays. *)
EXTENDS ChildRecords
==========================================================================
