---------------------------- MODULE LogSpace ----------------------------
(***************************************************************************)
(* How log.c shares the on-disk log among the file system calls that run   *)
(* at the same time: begin_op admits a call if the log could still hold    *)
(* MAXOPBLOCKS blocks of every call, log_write adds a block, and the       *)
(* end_op of the last call commits and empties the log.                    *)
(*                                                                         *)
(* log.lock makes the body of begin_op, the head and the tail of end_op,   *)
(* and the second half of log_write atomic.  The tests at the head of      *)
(* log_write are made without it.  What is in the blocks, and the disk     *)
(* writes of a commit and of recovery, are in module Log.                  *)
(***************************************************************************)
EXTENDS Integers, FiniteSets

CONSTANTS
  Ops,          \* the processes that make file system calls
  LOGSIZE,      \* entries of log.lh.block
  LOGBLOCKS,    \* log.size: blocks of the log area, its header included
  MAXOPBLOCKS,  \* what begin_op reserves for a call
  OpBlocks      \* workload: entries that one call adds at most

ASSUME LogSpaceAssumption ==
  /\ IsFiniteSet(Ops)
  /\ LOGSIZE \in Nat /\ LOGBLOCKS \in Nat
  /\ MAXOPBLOCKS \in Nat /\ OpBlocks \in Nat

VARIABLES
  n,            \* log.lh.n
  outstanding,  \* log.outstanding
  committing,   \* log.committing
  at,           \* where each process is
  used,         \* entries that its current call has added
  booting,      \* initlog has not finished
  panicked

countVars == <<n, outstanding, committing>>
spaceVars == <<countVars, at, used, booting, panicked>>

\* "begin" is the loop of begin_op, "asleep" its sleep(&log, &log.lock);
\* "add" and "absorb" are between the two halves of log_write.
Places == {"idle", "begin", "asleep", "active", "add", "absorb", "commit"}

SpaceInit ==
  /\ n = 0 /\ outstanding = 0 /\ committing = FALSE
  /\ at = [o \in Ops |-> "idle"]
  /\ used = [o \in Ops |-> 0]
  /\ booting = TRUE
  /\ panicked = FALSE

-----------------------------------------------------------------------------
\* wakeup(&log)
Woken == [o \in Ops |-> IF at[o] = "asleep" THEN "begin" ELSE at[o]]

\* Mutants of Admits: the caller itself is not counted; a commit in progress
\* does not keep it out.
Admits_self == ~committing /\ n + outstanding * MAXOPBLOCKS <= LOGSIZE
Admits_always == n + (outstanding + 1) * MAXOPBLOCKS <= LOGSIZE

Admits == ~committing /\ n + (outstanding + 1) * MAXOPBLOCKS <= LOGSIZE

\* One turn of the loop of begin_op.
begin_op(o) ==
  /\ ~booting /\ at[o] \in {"idle", "begin"}
  /\ IF Admits
     THEN /\ outstanding' = outstanding + 1
          /\ at' = [at EXCEPT ![o] = "active"]
     ELSE /\ UNCHANGED outstanding
          /\ at' = [at EXCEPT ![o] = "asleep"]
  /\ used' = [used EXCEPT ![o] = 0]
  /\ UNCHANGED <<n, committing, booting, panicked>>

\* log_write up to acquire, for a block that is (fresh = FALSE) or is not yet
\* in the log.
LogWriteCheck(o, fresh) ==
  /\ at[o] = "active"
  /\ IF fresh THEN used[o] < OpBlocks ELSE n > 0
  /\ IF n >= LOGSIZE \/ n >= LOGBLOCKS - 1 \/ outstanding < 1
     THEN panicked' = TRUE /\ UNCHANGED at
     ELSE /\ at' = [at EXCEPT ![o] = IF fresh THEN "add" ELSE "absorb"]
          /\ UNCHANGED panicked
  /\ UNCHANGED <<countVars, used, booting>>

\* The rest of log_write: append, or find the entry that is there.
LogWriteAdd(o) ==
  /\ at[o] \in {"add", "absorb"}
  /\ n' = IF at[o] = "add" THEN n + 1 ELSE n
  /\ used' = [used EXCEPT ![o] = IF at[o] = "add" THEN @ + 1 ELSE @]
  /\ at' = [at EXCEPT ![o] = "active"]
  /\ UNCHANGED <<outstanding, committing, booting, panicked>>

\* Mutant of end_op: the call is taken off the count twice.
end_op_twice(o) ==
  /\ at[o] = "active"
  /\ outstanding' = outstanding - 2
  /\ panicked' = committing
  /\ IF outstanding = 1
     THEN committing' = TRUE /\ at' = [at EXCEPT ![o] = "commit"]
     ELSE UNCHANGED committing /\ at' = [Woken EXCEPT ![o] = "idle"]
  /\ UNCHANGED <<n, used, booting>>

\* end_op up to its first release.
end_op(o) ==
  /\ at[o] = "active"
  /\ outstanding' = outstanding - 1
  /\ panicked' = committing
  /\ IF outstanding = 1
     THEN committing' = TRUE /\ at' = [at EXCEPT ![o] = "commit"]
     ELSE UNCHANGED committing /\ at' = [Woken EXCEPT ![o] = "idle"]
  /\ UNCHANGED <<n, used, booting>>

\* commit() has installed the blocks and clears the log.
CommitClear(o) ==
  /\ at[o] = "commit" /\ n > 0
  /\ n' = 0
  /\ UNCHANGED <<outstanding, committing, at, used, booting, panicked>>

\* Mutant of CommitEnd: the processes asleep in begin_op are forgotten.
CommitEnd_silent(o) ==
  /\ at[o] = "commit" /\ n = 0
  /\ committing' = FALSE
  /\ at' = [at EXCEPT ![o] = "idle"]
  /\ UNCHANGED <<n, outstanding, used, booting, panicked>>

\* The rest of end_op.
CommitEnd(o) ==
  /\ at[o] = "commit" /\ n = 0
  /\ committing' = FALSE
  /\ at' = [Woken EXCEPT ![o] = "idle"]
  /\ UNCHANGED <<n, outstanding, used, booting, panicked>>

\* The machine stops at any time, and boots: read_head finds m entries, those
\* of the transaction that was being committed or recovered, or none.
Crash(m) ==
  /\ m = 0 \/ (m = n /\ (committing \/ booting))
  /\ n' = m /\ outstanding' = 0 /\ committing' = FALSE
  /\ at' = [o \in Ops |-> "idle"]
  /\ used' = [o \in Ops |-> 0]
  /\ booting' = TRUE
  /\ panicked' = FALSE

\* recover_from_log has installed the blocks and clears the log.
RecoverClear ==
  /\ booting
  /\ n' = 0 /\ booting' = FALSE
  /\ UNCHANGED <<outstanding, committing, at, used, panicked>>

OpStep(o) ==
  \/ begin_op(o)
  \/ \E fresh \in BOOLEAN : LogWriteCheck(o, fresh)
  \/ LogWriteAdd(o) \/ end_op(o) \/ CommitClear(o) \/ CommitEnd(o)

SpaceNext ==
  \/ ~panicked /\ (RecoverClear \/ \E o \in Ops : OpStep(o))
  \/ \E m \in {0, n} : Crash(m)

SpaceSpec == SpaceInit /\ [][SpaceNext]_spaceVars

\* A process that is not asleep goes on, and a call comes to its end_op.
SpaceFairSpec ==
  /\ SpaceSpec
  /\ WF_spaceVars(RecoverClear)
  /\ \A o \in Ops :
       /\ WF_spaceVars(~panicked /\ at[o] = "begin" /\ begin_op(o))
       /\ WF_spaceVars(~panicked /\ (LogWriteAdd(o) \/ CommitClear(o) \/ CommitEnd(o)))
       /\ SF_spaceVars(~panicked /\ end_op(o))

-----------------------------------------------------------------------------
(* Properties *)

\* Each variable has its type: end_op never takes outstanding below zero, and
\* no call logs more than its blocks.
SpaceTypeOK ==
  /\ n \in Nat /\ outstanding \in Nat /\ committing \in BOOLEAN
  /\ at \in [Ops -> Places]
  /\ used \in [Ops -> 0 .. OpBlocks]
  /\ booting \in BOOLEAN /\ panicked \in BOOLEAN

\* A call adds fewer blocks than begin_op reserves for it, and the log holds
\* more than one reservation.  (LOGSIZE entries are one more than the log area
\* of mkfs has room for, so a call may not add all of MAXOPBLOCKS.)
Sized == OpBlocks < MAXOPBLOCKS /\ MAXOPBLOCKS < LOGSIZE /\ LOGSIZE <= LOGBLOCKS

\* log_write and end_op never panic.  For log_write this rests on what
\* begin_op reserved, and on no call adding more than its share.
NoPanic == ~panicked

\* The log never grows past the array log.lh.block nor past the log area of
\* the disk, although log_write tests the room before it takes log.lock.
LogInArea == n <= LOGSIZE /\ n <= LOGBLOCKS - 1

\* "there is never any reasoning required about whether a commit might write
\* an uncommitted system call's updates to disk" (log.c): no call is between
\* begin_op and end_op while a commit is in progress.
CommitAlone ==
  committing => \A o \in Ops : at[o] \notin {"active", "add", "absorb"}

\* Whoever sleeps in begin_op will be woken: there is a call whose end_op is
\* still to come, or a commit in progress.
SleeperHasWaker ==
  (\E o \in Ops : at[o] = "asleep") =>
    \E o \in Ops : at[o] \in {"active", "add", "absorb", "commit"}

\* A process does not sleep in begin_op for ever.
SleeperWakes == \A o \in Ops : at[o] = "asleep" ~> (at[o] # "asleep" \/ panicked)

=============================================================================
