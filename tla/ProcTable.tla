---------------------------- MODULE ProcTable ----------------------------
(***************************************************************************)
(* The process table of proc.c: the life of a process from allocproc to    *)
(* wait, and the context switches between a CPU's scheduler and the        *)
(* processes it runs.                                                      *)
(*                                                                         *)
(* A slot of ptable.proc is a number in Procs; the table is scanned in     *)
(* that order.  ptable.lock is held across every swtch: the thread that    *)
(* switches away acquired it, the thread that is switched to releases it.  *)
(* The model therefore has the lock as a variable, and one action per      *)
(* stretch of code between two points where another CPU could observe or   *)
(* disturb the table.  The accesses that the code makes without the lock   *)
(* (a failing fork freeing its slot, np->parent, the test of p->killed)    *)
(* are actions that do not look at the lock.                               *)
(*                                                                         *)
(* Which RUNNABLE process a scheduler picks is left open here; module      *)
(* Scheduler decides it.                                                   *)
(***************************************************************************)
EXTENDS Integers

CONSTANTS
  NPROC,     \* number of slots of the table
  NCPU,      \* number of processors
  Chans,     \* sleep channels other than the slots themselves
  TICKS,     \* the channel &ticks, on which sys_sleep sleeps
  KillPids,  \* the arguments that kill is called with
  MaxPid     \* bound: no fork once nextpid has passed it

ASSUME ProcTableAssumption ==
  /\ NPROC \in Nat \ {0}
  /\ NCPU \in Nat \ {0}
  /\ TICKS \in Chans
  /\ Chans \cap (0 .. NPROC) = {}
  /\ KillPids \subseteq Nat
  /\ MaxPid \in Nat

Procs == 1 .. NPROC
CPUs == 0 .. NCPU - 1
NULL == 0          \* the null struct proc pointer and the null channel
FREE == -1         \* ptable.lock is not held
initproc == 1      \* userinit's allocproc takes the first slot

VARIABLES
  state,      \* p->state
  pid,        \* p->pid
  parent,     \* p->parent
  chan,       \* p->chan
  killed,     \* p->killed
  pc,         \* the system call the kernel thread of p is in
  sw,         \* where the kernel thread of p is with respect to sched()
  child,      \* np, the local variable of fork
  nextpid,
  lock,       \* the CPU that holds ptable.lock, or FREE
  proc,       \* cpu->proc
  stack,      \* whose kernel stack the CPU runs on; NULL: its scheduler's
  panicked

tableVars == <<state, pid, parent, chan, killed, nextpid>>
threadVars == <<pc, sw, child>>
cpuVars == <<lock, proc, stack>>
vars == <<tableVars, threadVars, cpuVars, panicked>>

States == {"UNUSED", "EMBRYO", "SLEEPING", "RUNNABLE", "RUNNING", "ZOMBIE"}
PCs == {"user", "fork", "forked", "wait", "exit"}
SWs == {"none", "timer", "yield", "sleep", "wait", "exit", "forkret"}

\* userinit has published the first process; every CPU enters scheduler().
Init ==
  /\ state = [p \in Procs |-> IF p = initproc THEN "RUNNABLE" ELSE "UNUSED"]
  /\ pid = [p \in Procs |-> IF p = initproc THEN 1 ELSE 0]
  /\ parent = [p \in Procs |-> NULL]
  /\ chan = [p \in Procs |-> NULL]
  /\ killed = [p \in Procs |-> FALSE]
  /\ pc = [p \in Procs |-> "user"]
  /\ sw = [p \in Procs |-> IF p = initproc THEN "forkret" ELSE "none"]
  /\ child = [p \in Procs |-> NULL]
  /\ nextpid = 2
  /\ lock = FREE
  /\ proc = [c \in CPUs |-> NULL]
  /\ stack = [c \in CPUs |-> NULL]
  /\ panicked = FALSE

-----------------------------------------------------------------------------
\* The kernel thread of process p executes on CPU c, outside sched() and
\* outside the timer interrupt handler.
Runs(c, p) == stack[c] = p /\ sw[p] = "none"

\* The lowest slot of a set: the one a scan of the table meets first.
First(p, S) == p \in S /\ \A q \in S : p <= q

\* Every sleeper on channel ch becomes RUNNABLE.
wakeup1(st, ch) ==
  [p \in Procs |-> IF st[p] = "SLEEPING" /\ chan[p] = ch THEN "RUNNABLE" ELSE st[p]]

-----------------------------------------------------------------------------
(* The per-CPU scheduler. *)

SchedAcquire(c) ==
  /\ stack[c] = NULL /\ proc[c] = NULL /\ lock = FREE
  /\ lock' = c
  /\ UNCHANGED <<tableVars, threadVars, proc, stack, panicked>>

\* proc = p; switchuvm; state = RUNNING; swtch.  The lock goes with the CPU.
Dispatch(c, p) ==
  /\ stack[c] = NULL /\ proc[c] = NULL /\ lock = c
  /\ state[p] = "RUNNABLE"
  /\ proc' = [proc EXCEPT ![c] = p]
  /\ state' = [state EXCEPT ![p] = "RUNNING"]
  /\ stack' = [stack EXCEPT ![c] = p]
  /\ UNCHANGED <<pid, parent, chan, killed, nextpid, threadVars, lock, panicked>>

\* The process came back through sched(): proc = 0.
SchedBack(c) ==
  /\ stack[c] = NULL /\ proc[c] # NULL /\ lock = c
  /\ proc' = [proc EXCEPT ![c] = NULL]
  /\ UNCHANGED <<tableVars, threadVars, lock, stack, panicked>>

SchedRelease(c) ==
  /\ stack[c] = NULL /\ proc[c] = NULL /\ lock = c
  /\ lock' = FREE
  /\ UNCHANGED <<tableVars, threadVars, proc, stack, panicked>>

-----------------------------------------------------------------------------
(* Leaving and re-entering a process. *)

\* sched(): the state has been changed under the lock; switch stacks.
sched(c, p) ==
  /\ stack[c] = p /\ lock = c /\ state[p] # "RUNNING"
  /\ stack' = [stack EXCEPT ![c] = NULL]
  /\ UNCHANGED <<tableVars, threadVars, lock, proc, panicked>>

\* The code after sched() in yield and sleep, and forkret: tidy up, release.
Resume(c, p) ==
  /\ stack[c] = p /\ lock = c /\ state[p] = "RUNNING"
  /\ sw[p] \in {"yield", "sleep", "forkret"}
  /\ chan' = [chan EXCEPT ![p] = IF sw[p] = "sleep" THEN NULL ELSE @]
  /\ sw' = [sw EXCEPT ![p] = "none"]
  /\ lock' = FREE
  /\ UNCHANGED <<state, pid, parent, killed, nextpid, pc, child, proc, stack, panicked>>

\* The same inside wait(), which keeps ptable.lock and scans again.
ResumeWait(c, p) ==
  /\ stack[c] = p /\ lock = c /\ state[p] = "RUNNING" /\ sw[p] = "wait"
  /\ chan' = [chan EXCEPT ![p] = NULL]
  /\ sw' = [sw EXCEPT ![p] = "none"]
  /\ UNCHANGED <<state, pid, parent, killed, nextpid, pc, child, cpuVars, panicked>>

\* sleep(chan, lk) for a lock lk other than ptable.lock.  A system call may
\* sleep, and so may exit() while it closes files and drops its directory.
\* sleep() does not look at p->killed: a kill that comes after the caller's
\* own test of it, if it has one, is not noticed.
Sleep(c, p, ch) ==
  /\ Runs(c, p) /\ lock = FREE
  /\ pc[p] \in {"user", "exit"}
  /\ lock' = c
  /\ chan' = [chan EXCEPT ![p] = ch]
  /\ state' = [state EXCEPT ![p] = "SLEEPING"]
  /\ sw' = [sw EXCEPT ![p] = "sleep"]
  /\ UNCHANGED <<pid, parent, killed, nextpid, pc, child, proc, stack, panicked>>

\* wakeup(chan), from a process or from an interrupt handler on any CPU.
Wakeup(ch) ==
  /\ lock = FREE
  /\ state' = wakeup1(state, ch)
  /\ UNCHANGED <<pid, parent, chan, killed, nextpid, threadVars, cpuVars, panicked>>

-----------------------------------------------------------------------------
(* The timer interrupt. *)

\* CPU 0 counts the tick and wakes the sleepers; interrupts are off while a
\* CPU holds a lock.
Tick(c) ==
  IF c = 0 THEN lock = FREE /\ state' = wakeup1(state, TICKS)
           ELSE lock # c /\ UNCHANGED state

\* The interrupt taken in a process, in user or in kernel code.
Timer(c, p) ==
  /\ Runs(c, p)
  /\ Tick(c)
  /\ sw' = [sw EXCEPT ![p] = "timer"]
  /\ UNCHANGED <<pid, parent, chan, killed, nextpid, pc, child, cpuVars, panicked>>

\* The interrupt taken in scheduler(), between sti and acquire.
IdleTimer(c) ==
  /\ stack[c] = NULL /\ lock # c
  /\ Tick(c)
  /\ UNCHANGED <<pid, parent, chan, killed, nextpid, threadVars, cpuVars, panicked>>

\* Mutant of Yield: the state changes before ptable.lock is acquired.
Yield_unlocked(c, p) ==
  /\ stack[c] = p /\ sw[p] = "timer"
  /\ state' = [state EXCEPT ![p] = "RUNNABLE"]
  /\ sw' = [sw EXCEPT ![p] = "yield"]
  /\ UNCHANGED <<pid, parent, chan, killed, nextpid, pc, child, cpuVars, panicked>>

\* yield() gives the CPU up ...
Yield(c, p) ==
  /\ stack[c] = p /\ sw[p] = "timer" /\ lock = FREE
  /\ lock' = c
  /\ state' = [state EXCEPT ![p] = "RUNNABLE"]
  /\ sw' = [sw EXCEPT ![p] = "yield"]
  /\ UNCHANGED <<pid, parent, chan, killed, nextpid, pc, child, proc, stack, panicked>>

\* ... or returns at once, as the policy decides.
YieldReturn(c, p) ==
  /\ stack[c] = p /\ sw[p] = "timer"
  /\ sw' = [sw EXCEPT ![p] = "none"]
  /\ UNCHANGED <<tableVars, pc, child, cpuVars, panicked>>

-----------------------------------------------------------------------------
(* fork *)

\* Mutant of NextPid: the counter is read and not advanced.
NextPid_stuck == nextpid

NextPid == nextpid + 1

\* fork() is called, and allocproc finds the slot np.  (trap() tests p->killed
\* before it calls syscall(); a kill in between has the effect of one that
\* comes just after allocproc.  The same holds for wait, kill and nice.)
CanAlloc(c, p, np) ==
  /\ Runs(c, p) /\ pc[p] = "user" /\ ~killed[p] /\ lock = FREE
  /\ nextpid <= MaxPid
  /\ First(np, {q \in Procs : state[q] = "UNUSED"})

\* allocproc: the first UNUSED slot becomes EMBRYO and gets the next pid; its
\* context will start at forkret.  p->killed is not initialized.
ForkAlloc(c, p, np) ==
  /\ CanAlloc(c, p, np)
  /\ state' = [state EXCEPT ![np] = "EMBRYO"]
  /\ pid' = [pid EXCEPT ![np] = nextpid]
  /\ nextpid' = NextPid
  /\ pc' = [pc EXCEPT ![p] = "fork", ![np] = "user"]
  /\ sw' = [sw EXCEPT ![np] = "forkret"]
  /\ child' = [child EXCEPT ![p] = np]
  /\ UNCHANGED <<parent, chan, killed, cpuVars, panicked>>

\* kalloc or copyuvm failed: the slot is given back without the lock, with
\* the pid it was given.
ForkFail(c, p) ==
  /\ Runs(c, p) /\ pc[p] = "fork"
  /\ state' = [state EXCEPT ![child[p]] = "UNUSED"]
  /\ pc' = [pc EXCEPT ![p] = "user"]
  /\ child' = [child EXCEPT ![p] = NULL]
  /\ UNCHANGED <<pid, parent, chan, killed, nextpid, sw, cpuVars, panicked>>

\* Copy the parent into np, which no one else may run yet; no lock.
ForkCopy(c, p) ==
  /\ Runs(c, p) /\ pc[p] = "fork"
  /\ parent' = [parent EXCEPT ![child[p]] = p]
  /\ pc' = [pc EXCEPT ![p] = "forked"]
  /\ UNCHANGED <<state, pid, chan, killed, nextpid, sw, child, cpuVars, panicked>>

\* Mutant of ForkPublish: fork() does not return, and would publish again.
ForkPublish_again(c, p) ==
  /\ Runs(c, p) /\ pc[p] = "forked" /\ lock = FREE
  /\ state' = [state EXCEPT ![child[p]] = "RUNNABLE"]
  /\ child' = [child EXCEPT ![p] = NULL]
  /\ UNCHANGED <<pid, parent, chan, killed, nextpid, pc, sw, cpuVars, panicked>>

ForkPublish(c, p) ==
  /\ Runs(c, p) /\ pc[p] = "forked" /\ lock = FREE
  /\ state' = [state EXCEPT ![child[p]] = "RUNNABLE"]
  /\ pc' = [pc EXCEPT ![p] = "user"]
  /\ child' = [child EXCEPT ![p] = NULL]
  /\ UNCHANGED <<pid, parent, chan, killed, nextpid, sw, cpuVars, panicked>>

-----------------------------------------------------------------------------
(* exit and wait *)

\* exit() up to the acquire of ptable.lock: called by the process, or by
\* trap() for a killed one.  The first process must not exit.
ExitCall(c, p) ==
  /\ Runs(c, p) /\ pc[p] = "user"
  /\ IF p = initproc
     THEN panicked' = TRUE /\ UNCHANGED pc
     ELSE pc' = [pc EXCEPT ![p] = "exit"] /\ UNCHANGED panicked
  /\ UNCHANGED <<tableVars, sw, child, cpuVars>>

\* The slots whose parent is p, in any state.
Children(p) == {q \in Procs : parent[q] = p}
Zombies(p) == {q \in Children(p) : state[q] = "ZOMBIE"}

\* Mutant of Adopt: abandoned children keep the parent that exits.
Adopt_nobody(p) == parent

\* Pass abandoned children to init ...
Adopt(p) == [q \in Procs |-> IF q \in Children(p) THEN initproc ELSE parent[q]]

\* ... and wake init if one of them is dead already.
WakeInit(p, st) == IF Zombies(p) # {} THEN wakeup1(st, initproc) ELSE st

\* Mutant of Exit: the parent is not woken.
Exit_quiet(c, p) ==
  /\ Runs(c, p) /\ pc[p] = "exit" /\ lock = FREE
  /\ lock' = c
  /\ parent' = Adopt(p)
  /\ state' = [WakeInit(p, state) EXCEPT ![p] = "ZOMBIE"]
  /\ sw' = [sw EXCEPT ![p] = "exit"]
  /\ UNCHANGED <<pid, chan, killed, nextpid, pc, child, proc, stack, panicked>>

\* Wake the parent, pass the children to init, become a ZOMBIE.
Exit(c, p) ==
  /\ Runs(c, p) /\ pc[p] = "exit" /\ lock = FREE
  /\ lock' = c
  /\ parent' = Adopt(p)
  /\ state' = [WakeInit(p, wakeup1(state, parent[p])) EXCEPT ![p] = "ZOMBIE"]
  /\ sw' = [sw EXCEPT ![p] = "exit"]
  /\ UNCHANGED <<pid, chan, killed, nextpid, pc, child, proc, stack, panicked>>

WaitCall(c, p) ==
  /\ Runs(c, p) /\ pc[p] = "user" /\ ~killed[p] /\ lock = FREE
  /\ lock' = c
  /\ pc' = [pc EXCEPT ![p] = "wait"]
  /\ UNCHANGED <<tableVars, sw, child, proc, stack, panicked>>

\* The scan of wait() found a dead child: free its slot, return its pid.
WaitReap(c, p, q) ==
  /\ Runs(c, p) /\ pc[p] = "wait" /\ lock = c
  /\ First(q, Zombies(p))
  /\ pid' = [pid EXCEPT ![q] = 0]
  /\ parent' = [parent EXCEPT ![q] = NULL]
  /\ killed' = [killed EXCEPT ![q] = FALSE]
  /\ state' = [state EXCEPT ![q] = "UNUSED"]
  /\ pc' = [pc EXCEPT ![p] = "user"]
  /\ lock' = FREE
  /\ UNCHANGED <<chan, nextpid, sw, child, proc, stack, panicked>>

\* No dead child, and no child at all or the caller was killed: return -1.
WaitFail(c, p) ==
  /\ Runs(c, p) /\ pc[p] = "wait" /\ lock = c
  /\ Zombies(p) = {}
  /\ Children(p) = {} \/ killed[p]
  /\ pc' = [pc EXCEPT ![p] = "user"]
  /\ lock' = FREE
  /\ UNCHANGED <<tableVars, sw, child, proc, stack, panicked>>

\* sleep(proc, &ptable.lock).
WaitSleep(c, p) ==
  /\ Runs(c, p) /\ pc[p] = "wait" /\ lock = c
  /\ Zombies(p) = {} /\ Children(p) # {} /\ ~killed[p]
  /\ chan' = [chan EXCEPT ![p] = p]
  /\ state' = [state EXCEPT ![p] = "SLEEPING"]
  /\ sw' = [sw EXCEPT ![p] = "wait"]
  /\ UNCHANGED <<pid, parent, killed, nextpid, pc, child, cpuVars, panicked>>

-----------------------------------------------------------------------------
(* kill, and a process that traps in user mode *)

\* Mutant of KilledState: whatever does not run is made to run.
KilledState_any(s) == IF s = "RUNNING" THEN s ELSE "RUNNABLE"

\* Wake the process from sleep if necessary.
KilledState(s) == IF s = "SLEEPING" THEN "RUNNABLE" ELSE s

\* The first slot with that pid, whatever its state.
kill(c, p, t) ==
  /\ Runs(c, p) /\ pc[p] = "user" /\ ~killed[p] /\ lock = FREE
  /\ \E q \in Procs :
       /\ First(q, {r \in Procs : pid[r] = t})
       /\ killed' = [killed EXCEPT ![q] = TRUE]
       /\ state' = [state EXCEPT ![q] = KilledState(@)]
  /\ UNCHANGED <<pid, parent, chan, nextpid, threadVars, cpuVars, panicked>>

\* trap(): an unexpected trap in user mode kills the process.
Fault(c, p) ==
  /\ Runs(c, p) /\ pc[p] = "user"
  /\ killed' = [killed EXCEPT ![p] = TRUE]
  /\ UNCHANGED <<state, pid, parent, chan, nextpid, threadVars, cpuVars, panicked>>

-----------------------------------------------------------------------------
ProcessStep(c, p) ==
  \/ Dispatch(c, p) \/ sched(c, p) \/ Resume(c, p) \/ ResumeWait(c, p)
  \/ \E ch \in Chans : Sleep(c, p, ch)
  \/ Timer(c, p) \/ Yield(c, p) \/ YieldReturn(c, p)
  \/ \E np \in Procs : ForkAlloc(c, p, np)
  \/ ForkFail(c, p) \/ ForkCopy(c, p) \/ ForkPublish(c, p)
  \/ ExitCall(c, p) \/ Exit(c, p)
  \/ WaitCall(c, p) \/ WaitFail(c, p) \/ WaitSleep(c, p)
  \/ \E q \in Procs : WaitReap(c, p, q)
  \/ \E t \in KillPids : kill(c, p, t)
  \/ Fault(c, p)

CpuStep(c) ==
  \/ SchedAcquire(c) \/ SchedBack(c) \/ SchedRelease(c) \/ IdleTimer(c)
  \/ \E p \in Procs : ProcessStep(c, p)

\* A panic stops the machine.
Next ==
  /\ ~panicked
  /\ \/ \E c \in CPUs : CpuStep(c)
     \/ \E ch \in Chans : Wakeup(ch)

Spec == Init /\ [][Next]_vars

-----------------------------------------------------------------------------
(* Properties *)

\* Each variable has its type, and the local variable np of fork() is set
\* exactly while its process is inside fork().
TypeOK ==
  /\ state \in [Procs -> States]
  /\ pid \in [Procs -> Nat]
  /\ parent \in [Procs -> Procs \cup {NULL}]
  /\ chan \in [Procs -> Procs \cup Chans \cup {NULL}]
  /\ killed \in [Procs -> BOOLEAN]
  /\ pc \in [Procs -> PCs]
  /\ sw \in [Procs -> SWs]
  /\ child \in [Procs -> Procs \cup {NULL}]
  /\ nextpid \in Nat
  /\ lock \in CPUs \cup {FREE}
  /\ proc \in [CPUs -> Procs \cup {NULL}]
  /\ stack \in [CPUs -> Procs \cup {NULL}]
  /\ panicked \in BOOLEAN
  /\ \A p \in Procs : pc[p] \in {"fork", "forked"} <=> child[p] # NULL

\* A kernel stack is used by one CPU at most, and only while its process is
\* RUNNING or, with ptable.lock held by that CPU, about to leave it.  So no
\* scheduler can dispatch a process that has not finished switching away, and
\* wait() never frees the stack a dying child still runs on.
StackExclusive ==
  \A c \in CPUs : stack[c] # NULL =>
    /\ \/ state[stack[c]] = "RUNNING"
       \/ lock = c /\ state[stack[c]] \in {"RUNNABLE", "SLEEPING", "ZOMBIE"}
    /\ \A d \in CPUs : stack[d] = stack[c] => d = c

\* Every process but the first has a parent that can still call wait() for
\* it: exit() hands its children to init before it becomes a ZOMBIE, and the
\* parent of a half-made child cannot exit before fork() is over.
ParentAlive ==
  \A p \in Procs \ {initproc} :
    state[p] \notin {"UNUSED", "EMBRYO"} =>
      /\ parent[p] # NULL
      /\ state[parent[p]] \in {"RUNNABLE", "RUNNING", "SLEEPING"}

\* A process asleep in wait() has a child that is still to exit and none that
\* has exited: exit() never loses the wakeup of a parent, not even when the
\* child reaches init through the death of its own parent.
NoMissedExit ==
  \A p \in Procs : state[p] = "SLEEPING" /\ sw[p] = "wait" =>
    Children(p) # {} /\ Zombies(p) = {}

\* Two slots never carry the same pid, a slot freed by a failed fork
\* included: kill(pid) reaches one process.
UniquePid ==
  \A p, q \in Procs : pid[p] # 0 /\ pid[p] = pid[q] => p = q

\* "An exited process remains in the zombie state until its parent calls
\* wait()" (exit, proc.c): a ZOMBIE slot changes only by being freed, in a
\* step of its parent's wait().
ReapStep ==
  \A p \in Procs : state[p] = "ZOMBIE" /\ state'[p] # "ZOMBIE" =>
    state'[p] = "UNUSED" /\ pc[parent[p]] = "wait"
ZombieUntilReaped == [][ReapStep]_vars

=============================================================================
