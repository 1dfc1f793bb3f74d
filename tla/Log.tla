------------------------------ MODULE Log ------------------------------
(***************************************************************************)
(* The write-ahead log of log.c with the contents of the blocks: what      *)
(* log_write records, the order of the disk writes in commit() and in      *)
(* recover_from_log(), and crashes between any two of them.                *)
(*                                                                         *)
(* bwrite returns when the disk has the block, and one block is written or *)
(* not written.  A buffer that log_write marked B_DIRTY is not evicted, so *)
(* a read of a block returns cache[b].                                     *)
(***************************************************************************)
EXTENDS LogSpace, Sequences, SequencesExt

CONSTANTS Blocks, Values, NoBlock

VARIABLES
  disk,    \* home locations
  logblk,  \* the blocks log.start + 1 ... of the log area
  head,    \* block numbers in the header block on disk
  cache,   \* contents of the buffers
  lh,      \* log.lh.block[0 .. n-1]
  held,    \* the buffer that a process is changing (it holds its lock)
  step,    \* the disk write that commit() or recover_from_log() does next
  tail     \* local variable of write_log and install_trans

durable == <<disk, logblk, head>>
dataVars == <<durable, cache, lh, held, step, tail>>
logVars == <<spaceVars, dataVars>>

\* A file system made by mkfs, whose log header is zero.
LogInit ==
  /\ SpaceInit
  /\ disk \in [Blocks -> Values]
  /\ logblk \in {[i \in 1 .. LOGBLOCKS - 1 |-> v] : v \in Values}
  /\ head = <<>>
  /\ cache = disk
  /\ lh = <<>>
  /\ held = [o \in Ops |-> NoBlock]
  /\ step = "install" /\ tail = 0

-----------------------------------------------------------------------------
(* A file system call. *)

Begin(o) == begin_op(o) /\ UNCHANGED dataVars

\* bread, a change of the data, and the first half of log_write.
Modify(o, b, v) ==
  /\ \A p \in Ops : held[p] # b
  /\ LogWriteCheck(o, ~Contains(lh, b))
  /\ cache' = [cache EXCEPT ![b] = v]
  /\ held' = [held EXCEPT ![o] = b]
  /\ UNCHANGED <<durable, lh, step, tail>>

\* Mutant of Record: no absorption, every log_write appends.
Record_append(b) == Append(lh, b)

\* The entry for block b: the one there is, or a new one.
Record(b) == IF Contains(lh, b) THEN lh ELSE Append(lh, b)

\* The second half of log_write, and brelse.
LogWrite(o) ==
  /\ LogWriteAdd(o)
  /\ lh' = Record(held[o])
  /\ held' = [held EXCEPT ![o] = NoBlock]
  /\ UNCHANGED <<durable, cache, step, tail>>

\* Mutant of CommitFrom: the header is written before the log blocks.
CommitFrom_head == "head"

\* The first disk write of commit().
CommitFrom == "log"

End(o) ==
  /\ end_op(o)
  /\ step' = IF outstanding = 1 THEN CommitFrom ELSE step
  /\ tail' = IF outstanding = 1 THEN 0 ELSE tail
  /\ UNCHANGED <<durable, cache, lh, held>>

-----------------------------------------------------------------------------
(* commit(), for a log that is not empty; recovery shares its second half. *)

Committing(o) == at[o] = "commit" /\ lh # <<>>

\* One iteration of write_log: copy from the cache to the log.
write_log(o) ==
  /\ Committing(o) /\ step = "log" /\ tail < Len(lh)
  /\ logblk' = [logblk EXCEPT ![tail + 1] = cache[lh[tail + 1]]]
  /\ tail' = tail + 1
  /\ UNCHANGED <<spaceVars, disk, head, cache, lh, held, step>>

\* write_head: the true commit.
write_head(o) ==
  /\ Committing(o)
  /\ \/ step = "log" /\ tail = Len(lh)
     \/ step = "head"
  /\ head' = lh
  /\ step' = "install" /\ tail' = 0
  /\ UNCHANGED <<spaceVars, disk, logblk, cache, lh, held>>

\* One iteration of install_trans: copy from the log to the home location.
install_trans ==
  /\ booting \/ \E o \in Ops : Committing(o)
  /\ step = "install" /\ tail < Len(lh)
  /\ cache' = [cache EXCEPT ![lh[tail + 1]] = logblk[tail + 1]]
  /\ disk' = [disk EXCEPT ![lh[tail + 1]] = logblk[tail + 1]]
  /\ tail' = tail + 1
  /\ UNCHANGED <<spaceVars, logblk, head, lh, held, step>>

\* log.lh.n = 0; write_head.
Clear ==
  /\ step = "install" /\ tail = Len(lh)
  /\ lh' = <<>> /\ head' = <<>>
  /\ step' = "none" /\ tail' = 0
  /\ UNCHANGED <<disk, logblk, cache, held>>

Erase(o) == CommitClear(o) /\ Clear

Done(o) == CommitEnd(o) /\ step' = "none" /\ tail' = 0 /\ UNCHANGED <<durable, cache, lh, held>>

-----------------------------------------------------------------------------
(* Crash and recovery. *)

\* Memory is lost; initlog reads the header.
Reboot ==
  /\ Crash(Len(head))
  /\ cache' = disk
  /\ lh' = head
  /\ held' = [o \in Ops |-> NoBlock]
  /\ step' = "install" /\ tail' = 0
  /\ UNCHANGED durable

Recovered == RecoverClear /\ Clear

LogOpStep(o) ==
  \/ Begin(o)
  \/ \E b \in Blocks, v \in Values : Modify(o, b, v)
  \/ LogWrite(o) \/ End(o)
  \/ write_log(o) \/ write_head(o) \/ Erase(o) \/ Done(o)

LogNext ==
  \/ ~panicked /\ (install_trans \/ Recovered \/ \E o \in Ops : LogOpStep(o))
  \/ Reboot

LogSpec == LogInit /\ [][LogNext]_logVars

-----------------------------------------------------------------------------
(* Properties *)

\* What recover_from_log would make of the disk as it is now.
AfterRecovery ==
  [b \in Blocks |-> IF \E i \in 1 .. Len(head) : head[i] = b
                    THEN logblk[CHOOSE i \in 1 .. Len(head) : head[i] = b]
                    ELSE disk[b]]

\* The blocks of a transaction are distinct, each has room in the log area,
\* log.lh.n counts them, and the header on disk names them or nothing.
LogTypeOK ==
  /\ disk \in [Blocks -> Values] /\ cache \in [Blocks -> Values]
  /\ logblk \in [1 .. LOGBLOCKS - 1 -> Values]
  /\ lh \in Seq(Blocks) /\ Len(lh) = n /\ IsInjective(lh)
  /\ head \in {<<>>, lh}
  /\ held \in [Ops -> Blocks \cup {NoBlock}]
  /\ step \in {"none", "log", "head", "install"}
  /\ tail \in 0 .. Len(lh)

\* The calls of a group reach the disk atomically, whenever the machine stops
\* and however often it stops again while it recovers.
Abstract == INSTANCE AtomicDisk WITH
  Calls <- Ops,
  open <- {o \in Ops : at[o] \in {"active", "add", "absorb"}},
  mem <- IF booting THEN AfterRecovery ELSE cache,
  stable <- AfterRecovery
ImplementsAtomicDisk == Abstract!DiskSpec

=============================================================================
