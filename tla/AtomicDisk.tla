--------------------------- MODULE AtomicDisk ---------------------------
(***************************************************************************)
(* What log.c promises to the file system: the updates of a group of calls *)
(* reach the disk all together, in between calls, and a crash takes the    *)
(* disk back to the last such point.                                       *)
(***************************************************************************)
CONSTANTS Calls, Blocks, Values

VARIABLES
  open,    \* the calls between begin_op and end_op
  mem,     \* what a read of a block returns
  stable   \* what it would return after a crash

diskVars == <<open, mem, stable>>

DiskInit == open = {} /\ mem \in [Blocks -> Values] /\ stable = mem

\* A group of calls begins only when the one before it is on the disk.
Open(o) ==
  /\ o \notin open
  /\ open = {} => stable = mem
  /\ open' = open \cup {o}
  /\ UNCHANGED <<mem, stable>>

Update(o, b, v) ==
  /\ o \in open
  /\ mem' = [mem EXCEPT ![b] = v]
  /\ UNCHANGED <<open, stable>>

Close(o) ==
  /\ o \in open
  /\ open' = open \ {o}
  /\ UNCHANGED <<mem, stable>>

Commit ==
  /\ open = {}
  /\ stable' = mem
  /\ UNCHANGED <<open, mem>>

Lose ==
  /\ open' = {}
  /\ mem' = stable
  /\ UNCHANGED stable

DiskNext ==
  \/ \E o \in Calls : Open(o) \/ Close(o)
  \/ \E o \in Calls, b \in Blocks, v \in Values : Update(o, b, v)
  \/ Commit
  \/ Lose

DiskSpec == DiskInit /\ [][DiskNext]_diskVars

=============================================================================
