--------------------------- MODULE ByteStream ---------------------------
(***************************************************************************)
(* What a pipe promises: the bytes written come out once and in order, the *)
(* pipe never holds more than Capacity of them, and a reader is told that  *)
(* the stream has ended only when no writer is left and it is empty.       *)
(***************************************************************************)
EXTENDS Integers, Sequences

CONSTANTS Bytes, Capacity, Nothing, Eof

VARIABLES
  queue,    \* bytes in the pipe
  out,      \* what was read last
  writable  \* the write end is open

streamVars == <<queue, out, writable>>

StreamInit == queue = <<>> /\ out = Nothing /\ writable = TRUE

Put(b) ==
  /\ writable /\ Len(queue) < Capacity
  /\ queue' = Append(queue, b)
  /\ UNCHANGED <<out, writable>>

Get ==
  /\ queue # <<>>
  /\ out' = Head(queue) /\ queue' = Tail(queue)
  /\ UNCHANGED writable

Finish ==
  /\ writable' = FALSE
  /\ UNCHANGED <<queue, out>>

TellEof ==
  /\ ~writable /\ queue = <<>>
  /\ out' = Eof
  /\ UNCHANGED <<queue, writable>>

StreamNext == Get \/ Finish \/ TellEof \/ \E b \in Bytes : Put(b)

StreamSpec == StreamInit /\ [][StreamNext]_streamVars

=============================================================================
