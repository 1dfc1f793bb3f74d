---------------------------- MODULE FileWrite ----------------------------
(***************************************************************************)
(* filewrite() of file.c on an inode, with writei() and bmap() of fs.c:    *)
(* how a write() is cut into file system calls, which blocks each of these *)
(* logs, and how processes that share a struct file (after fork or dup)    *)
(* share its offset.                                                       *)
(*                                                                         *)
(* The blocks of a file are numbered from 0; the ones below its size are   *)
(* allocated.  Bytes are counted, their values are left out.               *)
(***************************************************************************)
EXTENDS Integers, FiniteSets, FiniteSetsExt

CONSTANTS
  Writers,    \* processes that write through the same struct file
  BSIZE, NDIRECT, NINDIRECT, LOGSIZE,
  MaxBytes    \* bound: bytes of one write()

ASSUME FileWriteAssumption ==
  /\ BSIZE \in Nat \ {0} /\ NDIRECT \in Nat /\ NINDIRECT \in Nat
  /\ LOGSIZE \in Nat /\ MaxBytes \in Nat

VARIABLES
  size,     \* ip->size
  off,      \* f->off
  n,        \* argument of each writer's filewrite
  i,        \* bytes it has written
  result,   \* what it returned, or NotYet
  start,    \* f->off when the write()s began
  logged    \* blocks logged by the last file system call

fileVars == <<size, off, n, i, result, start, logged>>

MaxFileSize == (NDIRECT + NINDIRECT) * BSIZE
NotYet == -2

FileInit ==
  /\ size \in 0 .. MaxFileSize
  /\ off \in 0 .. size
  /\ n \in [Writers -> 0 .. MaxBytes]
  /\ i = [w \in Writers |-> 0]
  /\ result = [w \in Writers |-> NotYet]
  /\ start = off
  /\ logged = {}

-----------------------------------------------------------------------------
\* Mutant of max: room for one allocation block per block is forgotten.
max_whole == (LOGSIZE - 1 - 1 - 2) * BSIZE

max == ((LOGSIZE - 1 - 1 - 2) \div 2) * BSIZE

\* Mutant of Chunk: the last chunk is not cut off at n.
Chunk_full(w) == max

Chunk(w) == IF n[w] - i[w] > max THEN max ELSE n[w] - i[w]

\* The blocks that hold bytes o .. o + m - 1.
Span(o, m) == (o \div BSIZE) .. ((o + m - 1) \div BSIZE)

\* The data blocks of the span for which bmap finds no block.
Fresh(o, m) == {b \in Span(o, m) : b * BSIZE >= size}

\* What writei logs: the data blocks; for a fresh one, which balloc clears,
\* the bitmap block (there is one) and maybe the indirect block; and the
\* inode if the file grows.
Logged(o, m) ==
  {<<"data", b>> : b \in Span(o, m)}
    \cup (IF Fresh(o, m) # {} THEN {<<"bitmap", 0>>} ELSE {})
    \cup (IF \E b \in Fresh(o, m) : b >= NDIRECT THEN {<<"indirect", 0>>} ELSE {})
    \cup (IF o + m > size THEN {<<"inode", 0>>} ELSE {})

\* Mutant of At: the offset is read before the inode is locked.
At_first(w) == start + i[w]

\* Where a writer that holds the inode's lock writes.
At(w) == off

\* One begin_op ... end_op: writei writes all of the chunk ...
WriteChunk(w) ==
  LET m == Chunk(w) IN
  /\ result[w] = NotYet /\ i[w] < n[w]
  /\ At(w) <= size /\ At(w) + m <= MaxFileSize
  /\ off' = At(w) + m
  /\ size' = IF At(w) + m > size THEN At(w) + m ELSE size
  /\ i' = [i EXCEPT ![w] = @ + m]
  /\ logged' = Logged(At(w), m)
  /\ UNCHANGED <<n, result, start>>

\* ... or nothing, because the file would get too big.
WriteFails(w) ==
  /\ result[w] = NotYet /\ i[w] < n[w]
  /\ At(w) > size \/ At(w) + Chunk(w) > MaxFileSize
  /\ result' = [result EXCEPT ![w] = -1]
  /\ logged' = {}
  /\ UNCHANGED <<size, off, n, i, start>>

Return(w) ==
  /\ result[w] = NotYet /\ i[w] >= n[w]
  /\ result' = [result EXCEPT ![w] = IF i[w] = n[w] THEN n[w] ELSE -1]
  /\ UNCHANGED <<size, off, n, i, start, logged>>

FileNext == \E w \in Writers : WriteChunk(w) \/ WriteFails(w) \/ Return(w)

FileSpec == FileInit /\ [][FileNext]_fileVars

-----------------------------------------------------------------------------
(* Properties *)

\* The offset is within the file, no writer has written more than it was asked
\* to, and filewrite returns n or -1.
FileTypeOK ==
  /\ size \in 0 .. MaxFileSize /\ off \in 0 .. size
  /\ \A w \in Writers : i[w] \in 0 .. n[w] /\ result[w] \in {NotYet, -1, n[w]}

\* Writers that share an offset never write over each other's bytes: the
\* offset has moved by exactly what all of them have written.
NoOverlap == off = start + MapThenSumSet(LAMBDA w : i[w], Writers)

\* Alone, a file system call of filewrite never finds the log full: log_write
\* panics once LOGSIZE - 1 blocks are in it.
OneCallFits == Cardinality(logged) <= LOGSIZE - 1

=============================================================================
