--------------------------- MODULE MCLogSpace ---------------------------
(* LogSpace with few processes, for TLC. *)
EXTENDS LogSpace
=========================================================================
