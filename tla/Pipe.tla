------------------------------ MODULE Pipe ------------------------------
(***************************************************************************)
(* A pipe of pipe.c between processes that hold its write end and          *)
(* processes that hold its read end.                                       *)
(*                                                                         *)
(* p->lock is a variable: a call holds it from its first test to its       *)
(* return, except while it sleeps.  sleep() gives up p->lock and falls     *)
(* asleep in one step, but a kill() can still fall between the test of     *)
(* proc->killed and that step, because kill() takes only ptable.lock.      *)
(***************************************************************************)
EXTENDS Integers, Sequences

CONSTANTS
  Writers, Readers,  \* the processes at either end
  PIPESIZE,
  UintMod,           \* nread and nwrite are uint: 2^32 in the code
  Bytes,
  Killable,          \* workload: the processes that kill() is called for
  Sizes,             \* workload: the sizes of calls
  Nobody, Nothing, Eof

ASSUME PipeAssumption ==
  /\ Writers \cap Readers = {} /\ Nobody \notin Writers \cup Readers
  /\ PIPESIZE \in Nat \ {0} /\ UintMod \in Nat \ {0}
  /\ UintMod % PIPESIZE = 0 /\ PIPESIZE < UintMod
  /\ Killable \subseteq Writers \cup Readers /\ Sizes \subseteq Nat

Users == Writers \cup Readers

VARIABLES
  data, nread, nwrite, readopen, writeopen,  \* struct pipe
  lock,      \* who holds p->lock
  at,        \* where each process is
  left,      \* n - i of its call
  fresh,     \* its piperead has not copied a byte yet
  out,       \* the last byte that piperead copied, or Eof
  holds,     \* the process has a descriptor of its end
  killed

bufVars == <<data, nread, nwrite>>
endVars == <<readopen, writeopen, holds>>
callVars == <<left, fresh, out>>
pipeVars == <<bufVars, endVars, callVars, lock, at, killed>>

\* "falling": on the way into sleep(); "asleep"; "woken": still inside it.
PipeInit ==
  /\ data = [k \in 0 .. PIPESIZE - 1 |-> Nothing]
  /\ nread = 0 /\ nwrite = 0 /\ readopen = TRUE /\ writeopen = TRUE
  /\ lock = Nobody
  /\ at = [p \in Users |-> "user"]
  /\ left = [p \in Users |-> 0]
  /\ fresh = [p \in Users |-> FALSE]
  /\ out = Nothing
  /\ holds = [p \in Users |-> TRUE]
  /\ killed = [p \in Users |-> FALSE]

-----------------------------------------------------------------------------
\* Mutant of Full: the pipe holds one byte more.
Full_late == nwrite = (nread + PIPESIZE + 1) % UintMod

Full == nwrite = (nread + PIPESIZE) % UintMod
Empty == nread = nwrite

\* wakeup(&p->nread) and wakeup(&p->nwrite): one channel for each end.
Wake(S) == [q \in Users |-> IF q \in S /\ at[q] = "asleep" THEN "woken" ELSE at[q]]

\* A system call with argument m; a killed process makes none.
Call(p, m) ==
  /\ at[p] = "user" /\ holds[p] /\ ~killed[p] /\ lock = Nobody
  /\ lock' = p
  /\ at' = [at EXCEPT ![p] = "test"]
  /\ left' = [left EXCEPT ![p] = m]
  /\ fresh' = [fresh EXCEPT ![p] = TRUE]
  /\ UNCHANGED <<bufVars, endVars, out, killed>>

\* Release p->lock and leave.
Leave(p, places) ==
  /\ lock' = Nobody
  /\ at' = [places EXCEPT ![p] = "user"]

Sleep(p) ==
  /\ at[p] = "falling"
  /\ lock' = Nobody
  /\ at' = [at EXCEPT ![p] = "asleep"]
  /\ UNCHANGED <<bufVars, endVars, callVars, killed>>

\* Mutant of Again: a woken reader does not test for an empty pipe again.
Again_once(p) == IF p \in Readers THEN "copy" ELSE "test"

\* The while loop around sleep().
Again(p) == "test"

Wakes(p) ==
  /\ at[p] = "woken" /\ lock = Nobody
  /\ lock' = p
  /\ at' = [at EXCEPT ![p] = Again(p)]
  /\ UNCHANGED <<bufVars, endVars, callVars, killed>>

-----------------------------------------------------------------------------
(* pipewrite *)

WriteByte(w, b) ==
  /\ at[w] = "test" /\ left[w] > 0 /\ ~Full
  /\ data' = [data EXCEPT ![nwrite % PIPESIZE] = b]
  /\ nwrite' = (nwrite + 1) % UintMod
  /\ left' = [left EXCEPT ![w] = @ - 1]
  /\ UNCHANGED <<nread, endVars, fresh, out, lock, at, killed>>

WriteFails(w) ==
  /\ at[w] = "test" /\ left[w] > 0 /\ Full
  /\ ~readopen \/ killed[w]
  /\ Leave(w, at)
  /\ UNCHANGED <<bufVars, endVars, callVars, killed>>

\* Mutant of WriteFull: the readers are not told before the writer sleeps.
WriteFull_silent(w) ==
  /\ at[w] = "test" /\ left[w] > 0 /\ Full
  /\ readopen /\ ~killed[w]
  /\ at' = [at EXCEPT ![w] = "falling"]
  /\ UNCHANGED <<bufVars, endVars, callVars, lock, killed>>

WriteFull(w) ==
  /\ at[w] = "test" /\ left[w] > 0 /\ Full
  /\ readopen /\ ~killed[w]
  /\ at' = [Wake(Readers) EXCEPT ![w] = "falling"]
  /\ UNCHANGED <<bufVars, endVars, callVars, lock, killed>>

WriteDone(w) ==
  /\ at[w] = "test" /\ left[w] = 0
  /\ Leave(w, Wake(Readers))
  /\ UNCHANGED <<bufVars, endVars, callVars, killed>>

-----------------------------------------------------------------------------
(* piperead *)

ReadEmpty(r) ==
  /\ at[r] = "test" /\ Empty /\ writeopen
  /\ IF killed[r] THEN Leave(r, at)
     ELSE at' = [at EXCEPT ![r] = "falling"] /\ UNCHANGED lock
  /\ UNCHANGED <<bufVars, endVars, callVars, killed>>

ReadStart(r) ==
  /\ at[r] = "test" /\ ~(Empty /\ writeopen)
  /\ at' = [at EXCEPT ![r] = "copy"]
  /\ UNCHANGED <<bufVars, endVars, callVars, lock, killed>>

ReadByte(r) ==
  /\ at[r] = "copy" /\ left[r] > 0 /\ ~Empty
  /\ out' = data[nread % PIPESIZE]
  /\ nread' = (nread + 1) % UintMod
  /\ left' = [left EXCEPT ![r] = @ - 1]
  /\ fresh' = [fresh EXCEPT ![r] = FALSE]
  /\ UNCHANGED <<data, nwrite, endVars, lock, at, killed>>

\* Mutant of ReadDone: the writers are not told that there is room.
ReadDone_silent(r) ==
  /\ at[r] = "copy"
  /\ left[r] = 0 \/ Empty
  /\ out' = IF fresh[r] /\ left[r] > 0 THEN Eof ELSE out
  /\ Leave(r, at)
  /\ UNCHANGED <<bufVars, endVars, left, fresh, killed>>

\* piperead returns the number of bytes; none, of some asked for, is Eof.
ReadDone(r) ==
  /\ at[r] = "copy"
  /\ left[r] = 0 \/ Empty
  /\ out' = IF fresh[r] /\ left[r] > 0 THEN Eof ELSE out
  /\ Leave(r, Wake(Writers))
  /\ UNCHANGED <<bufVars, endVars, left, fresh, killed>>

-----------------------------------------------------------------------------
(* pipeclose and kill *)

\* A process gives up its descriptor; with the last one at an end, fileclose
\* calls pipeclose.
pipeclose(p) ==
  LET mine == IF p \in Writers THEN Writers ELSE Readers
      last == \A q \in mine \ {p} : ~holds[q]
  IN /\ at[p] = "user" /\ holds[p] /\ lock = Nobody
     /\ holds' = [holds EXCEPT ![p] = FALSE]
     /\ writeopen' = (writeopen /\ ~(last /\ p \in Writers))
     /\ readopen' = (readopen /\ ~(last /\ p \in Readers))
     /\ at' = IF last THEN Wake(Users \ mine) ELSE at
     /\ UNCHANGED <<bufVars, callVars, lock, killed>>

kill(p) ==
  /\ p \in Killable /\ holds[p] /\ ~killed[p]
  /\ killed' = [killed EXCEPT ![p] = TRUE]
  /\ at' = [at EXCEPT ![p] = IF @ = "asleep" THEN "woken" ELSE @]
  /\ UNCHANGED <<bufVars, endVars, callVars, lock>>

-----------------------------------------------------------------------------
WriterStep(w) ==
  \/ \E b \in Bytes : WriteByte(w, b)
  \/ WriteFails(w) \/ WriteFull(w) \/ WriteDone(w)

ReaderStep(r) == ReadEmpty(r) \/ ReadStart(r) \/ ReadByte(r) \/ ReadDone(r)

\* The rest of a call that has begun.
CallStep(p) ==
  \/ Sleep(p) \/ Wakes(p)
  \/ p \in Writers /\ WriterStep(p)
  \/ p \in Readers /\ ReaderStep(p)

UserStep(p) == (\E m \in Sizes : Call(p, m)) \/ pipeclose(p)

PipeNext == \E p \in Users : CallStep(p) \/ UserStep(p) \/ kill(p)

PipeSpec == PipeInit /\ [][PipeNext]_pipeVars

\* A call goes on, a spinlock is handed out fairly, and a reader reads on
\* until it closes its end (a killed one exits, which closes it).
PipeFairSpec ==
  /\ PipeSpec
  /\ \A p \in Users : SF_pipeVars(CallStep(p))
  /\ \A r \in Readers : SF_pipeVars((\E m \in Sizes \ {0} : Call(r, m)) \/ (killed[r] /\ pipeclose(r)))

-----------------------------------------------------------------------------
(* Properties *)

Held == (nwrite - nread) % UintMod

\* Each variable has its type, and the pipe never holds more than PIPESIZE bytes.
PipeTypeOK ==
  /\ data \in [0 .. PIPESIZE - 1 -> Bytes \cup {Nothing}]
  /\ nread \in 0 .. UintMod - 1 /\ nwrite \in 0 .. UintMod - 1
  /\ Held \in 0 .. PIPESIZE
  /\ readopen \in BOOLEAN /\ writeopen \in BOOLEAN
  /\ lock \in Users \cup {Nobody}
  /\ at \in [Users -> {"user", "test", "copy", "falling", "asleep", "woken"}]
  /\ left \in [Users -> UNION {0 .. m : m \in Sizes}] /\ fresh \in [Users -> BOOLEAN]
  /\ out \in Bytes \cup {Nothing, Eof}
  /\ holds \in [Users -> BOOLEAN] /\ killed \in [Users -> BOOLEAN]

\* The pipe is a bounded stream of bytes, also when the counters wrap around
\* and when several processes read or write.
Stream == INSTANCE ByteStream WITH
  Capacity <- PIPESIZE,
  queue <- [k \in 1 .. Held |-> data[(nread + k - 1) % PIPESIZE]],
  writable <- writeopen
ImplementsStream == Stream!StreamSpec

\* No wakeup is lost: a process sleeps only while there is nothing for it to
\* do, or while the other end is inside the call that is going to wake it.
SleepersMustWait ==
  /\ \A r \in Readers : at[r] = "asleep" =>
       (Empty /\ writeopen) \/ lock \in Writers
  /\ \A w \in Writers : at[w] = "asleep" =>
       (Full /\ readopen) \/ lock \in Readers

\* A writer does not sleep for ever on a full pipe whose readers read on.
WriterProceeds == \A w \in Writers : at[w] = "asleep" ~> at[w] # "asleep"

=============================================================================
