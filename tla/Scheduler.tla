---------------------------- MODULE Scheduler ----------------------------
(***************************************************************************)
(* The scheduling policies of scheduler() and yield() in proc.c, nice(),   *)
(* and the clock and run-time accounting of the timer interrupt, on top of *)
(* the process table of module ProcTable.                                  *)
(*                                                                         *)
(* One iteration of scheduler()'s loop goes through three phases, the last *)
(* two of which scan the table from the front and may run many processes:  *)
(*   "grt"  the RUNNABLE (under Q3: and HIGH) process with the least       *)
(*          share of the time since it was created;                        *)
(*   "frr"  every RUNNABLE (under Q3: and MEDIUM) process in turn;         *)
(*   "rr"   every RUNNABLE process of LOW priority in turn.                *)
(* GRTExists and FRRExists are globals that all CPUs share: each CPU       *)
(* recomputes them when it starts an iteration, also while another CPU is  *)
(* in the middle of one.                                                   *)
(***************************************************************************)
EXTENDS ProcTable, FifoSort

CONSTANTS
  Policy,    \* policyChooser
  QUANTA,    \* timer interrupts a process may ignore
  TickMod,   \* ticks, ctime and rtime are uint: 2^32 in the code
  MaxTicks,  \* bound: no timer interrupt on CPU 0 once ticks has reached it
  Calls      \* workload: the system calls that user programs make

ASSUME SchedulerAssumption ==
  /\ Policy \in {"RR", "FRR", "GRT", "Q3"}
  /\ QUANTA \in Nat
  /\ TickMod \in Nat \ {0}
  /\ MaxTicks \in Nat
  /\ Calls \subseteq {"fork", "exit", "wait", "sleep", "nice", "kill", "fault"}

HIGH == 2
MEDIUM == 1
LOW == 0

VARIABLES
  piority,         \* p->piority
  processCounter,  \* p->processCounter: timer interrupts since p was chosen
  ctime,           \* p->ctime
  rtime,           \* p->rtime
  ticks,
  GRTExists,
  FRRExists,
  phase,           \* the phase of the iteration each CPU is in
  next             \* the slot at which its scan goes on

slotTimes == <<ctime, rtime>>
flagVars == <<GRTExists, FRRExists>>
scanVars == <<phase, next>>
policyVars == <<piority, processCounter, slotTimes, ticks, flagVars, scanVars>>
schedVars == <<vars, policyVars>>

\* userinit's allocproc gives the first process its priority.
SchedInit ==
  /\ Init
  /\ piority = [p \in Procs |-> IF p = initproc /\ Policy = "Q3" THEN HIGH ELSE LOW]
  /\ processCounter = [p \in Procs |-> 0]
  /\ ctime = [p \in Procs |-> 0]
  /\ rtime = [p \in Procs |-> 0]
  /\ ticks = 0
  /\ GRTExists = FALSE /\ FRRExists = FALSE
  /\ phase = [c \in CPUs |-> "grt"]
  /\ next = [c \in CPUs |-> 1]

-----------------------------------------------------------------------------
(* scheduler() *)

\* checkForHigherPiority: some process of that priority is ready or running.
Ready(pr) == \E p \in Procs : state[p] \in {"RUNNABLE", "RUNNING"} /\ piority[p] = pr

Scanning(c) == stack[c] = NULL /\ proc[c] = NULL /\ lock = c

\* Mutant of Acquire: the flags of the last iteration are not cleared.
Acquire_stale(c) ==
  /\ SchedAcquire(c)
  /\ GRTExists' = (GRTExists \/ Ready(HIGH))
  /\ FRRExists' = (FRRExists \/ Ready(MEDIUM))
  /\ phase' = [phase EXCEPT ![c] = "grt"]
  /\ next' = [next EXCEPT ![c] = 1]
  /\ UNCHANGED <<piority, processCounter, slotTimes, ticks>>

Acquire(c) ==
  /\ SchedAcquire(c)
  /\ GRTExists' = Ready(HIGH)
  /\ FRRExists' = Ready(MEDIUM)
  /\ phase' = [phase EXCEPT ![c] = "grt"]
  /\ next' = [next EXCEPT ![c] = 1]
  /\ UNCHANGED <<piority, processCounter, slotTimes, ticks>>

\* The share of its life that p has been running, as a fraction; 0 for a
\* process created in this very tick.
Elapsed(p) == (ticks - ctime[p]) % TickMod
Up(p) == IF Elapsed(p) = 0 THEN 0 ELSE rtime[p]
Down(p) == IF Elapsed(p) = 0 THEN 1 ELSE Elapsed(p)

\* Phase 1 keeps the first process with the least share.
LessShare(p, q) ==
  \/ Up(p) * Down(q) < Up(q) * Down(p)
  \/ Up(p) * Down(q) = Up(q) * Down(p) /\ p <= q

\* The processes that the phase of CPU c may still choose from.
Candidates(c) ==
  {p \in Procs :
     /\ state[p] = "RUNNABLE"
     /\ \/ /\ phase[c] = "grt" /\ Policy \in {"GRT", "Q3"}
           /\ Policy = "Q3" => piority[p] = HIGH
        \/ /\ phase[c] = "frr" /\ p >= next[c]
           /\ \/ Policy = "FRR"
              \/ Policy = "Q3" /\ ~GRTExists /\ piority[p] = MEDIUM
        \/ /\ phase[c] = "rr" /\ p >= next[c] /\ piority[p] = LOW
           /\ \/ Policy = "RR"
              \/ Policy = "Q3" /\ ~GRTExists /\ ~FRRExists}

Chosen(c, p) ==
  IF phase[c] = "grt"
  THEN p \in Candidates(c) /\ \A q \in Candidates(c) : LessShare(p, q)
  ELSE First(p, Candidates(c))

\* Mutant of After: the scan looks at the slot it has just run again.
After_same(p) == p

\* The slot at which a scan goes on after running p.
After(p) == p + 1

\* Choose a process and switch to it.
Pick(c, p) ==
  /\ Chosen(c, p)
  /\ Dispatch(c, p)
  /\ processCounter' = [processCounter EXCEPT ![p] = 0]
  /\ next' = [next EXCEPT ![c] = After(p)]
  /\ FRRExists' = (FRRExists \/ (Policy = "Q3" /\ phase[c] = "frr"))
  /\ UNCHANGED <<piority, slotTimes, ticks, GRTExists, phase>>

\* The phase has no process (left) to run.
NextPhase(c) ==
  /\ Scanning(c) /\ Candidates(c) = {} /\ phase[c] # "rr"
  /\ phase' = [phase EXCEPT ![c] = IF @ = "grt" THEN "frr" ELSE "rr"]
  /\ next' = [next EXCEPT ![c] = 1]
  /\ UNCHANGED <<vars, piority, processCounter, slotTimes, ticks, flagVars>>

\* Mutant of Back: the scan goes on without looking for higher priorities.
Back_blind(c) ==
  /\ SchedBack(c)
  /\ IF phase[c] = "grt"
     THEN phase' = [phase EXCEPT ![c] = "frr"] /\ next' = [next EXCEPT ![c] = 1]
     ELSE UNCHANGED scanVars
  /\ UNCHANGED <<piority, processCounter, slotTimes, ticks, flagVars>>

\* The process is done for now.  The first phase runs one process only; the
\* other two look for processes of higher priority under Q3 and break off the
\* scan (Candidates becomes empty) if there are any.
Back(c) ==
  /\ SchedBack(c)
  /\ IF phase[c] = "grt"
     THEN /\ phase' = [phase EXCEPT ![c] = "frr"]
          /\ next' = [next EXCEPT ![c] = 1]
          /\ UNCHANGED flagVars
     ELSE /\ GRTExists' = (GRTExists \/ (Policy = "Q3" /\ Ready(HIGH)))
          /\ FRRExists' = (FRRExists \/ (Policy = "Q3" /\ Ready(MEDIUM)))
          /\ UNCHANGED scanVars
  /\ UNCHANGED <<piority, processCounter, slotTimes, ticks>>

Release(c) ==
  /\ Candidates(c) = {} /\ phase[c] = "rr"
  /\ SchedRelease(c)
  /\ UNCHANGED policyVars

-----------------------------------------------------------------------------
(* The timer interrupt: only CPU 0 counts. *)

ClockTick(c) ==
  IF c = 0 THEN ticks < MaxTicks /\ ticks' = (ticks + 1) % TickMod
           ELSE UNCHANGED ticks

\* Mutant of TimerTick: only time spent in user code is charged.
TimerTick_user(c, p) ==
  /\ Timer(c, p)
  /\ ClockTick(c)
  /\ rtime' = IF c = 0 /\ pc[p] = "user" THEN [rtime EXCEPT ![p] = (@ + 1) % TickMod] ELSE rtime
  /\ UNCHANGED <<piority, processCounter, ctime, flagVars, scanVars>>

TimerTick(c, p) ==
  /\ Timer(c, p)
  /\ ClockTick(c)
  /\ rtime' = IF c = 0 THEN [rtime EXCEPT ![p] = (@ + 1) % TickMod] ELSE rtime
  /\ UNCHANGED <<piority, processCounter, ctime, flagVars, scanVars>>

IdleTick(c) ==
  /\ IdleTimer(c)
  /\ ClockTick(c)
  /\ UNCHANGED <<piority, processCounter, slotTimes, flagVars, scanVars>>

\* yield(): processes that are never preempted.
Exempt(p) == Policy = "GRT" \/ (Policy = "Q3" /\ piority[p] = HIGH)

\* Mutant of YieldNow: the state changes before ptable.lock is acquired.
YieldNow_unlocked(c, p) ==
  /\ ~Exempt(p) /\ processCounter[p] >= QUANTA
  /\ Yield_unlocked(c, p)
  /\ processCounter' = [processCounter EXCEPT ![p] = 0]
  /\ UNCHANGED <<piority, slotTimes, ticks, flagVars, scanVars>>

YieldNow(c, p) ==
  /\ ~Exempt(p) /\ processCounter[p] >= QUANTA
  /\ Yield(c, p)
  /\ processCounter' = [processCounter EXCEPT ![p] = 0]
  /\ UNCHANGED <<piority, slotTimes, ticks, flagVars, scanVars>>

\* Mutant of YieldSkip: one timer interrupt too many is ignored.
YieldSkip_late(c, p) ==
  /\ Exempt(p) \/ processCounter[p] <= QUANTA
  /\ YieldReturn(c, p)
  /\ processCounter' = [processCounter EXCEPT ![p] = IF Exempt(p) THEN @ ELSE @ + 1]
  /\ UNCHANGED <<piority, slotTimes, ticks, flagVars, scanVars>>

YieldSkip(c, p) ==
  /\ Exempt(p) \/ processCounter[p] < QUANTA
  /\ YieldReturn(c, p)
  /\ processCounter' = [processCounter EXCEPT ![p] = IF Exempt(p) THEN @ ELSE @ + 1]
  /\ UNCHANGED <<piority, slotTimes, ticks, flagVars, scanVars>>

-----------------------------------------------------------------------------
(* nice() and allocproc *)

\* HIGH -> MEDIUM -> LOW -> HIGH, without ptable.lock.
nice(c, p) ==
  /\ Runs(c, p) /\ pc[p] = "user" /\ ~killed[p]
  /\ piority' = [piority EXCEPT ![p] = (@ + 2) % 3]
  /\ UNCHANGED <<vars, processCounter, slotTimes, ticks, flagVars, scanVars>>

\* Mutant of Alloc: a reused slot keeps the run time of its last process.
Alloc_keep(c, p, np) ==
  /\ Policy # "FRR"
  /\ ForkAlloc(c, p, np)
  /\ ctime' = [ctime EXCEPT ![np] = ticks]
  /\ piority' = IF Policy = "Q3" THEN [piority EXCEPT ![np] = HIGH] ELSE piority
  /\ UNCHANGED <<rtime, processCounter, ticks, flagVars, scanVars>>

\* allocproc under every policy but FRR.
Alloc(c, p, np) ==
  /\ Policy # "FRR"
  /\ ForkAlloc(c, p, np)
  /\ rtime' = [rtime EXCEPT ![np] = 0]
  /\ ctime' = [ctime EXCEPT ![np] = ticks]
  /\ piority' = IF Policy = "Q3" THEN [piority EXCEPT ![np] = HIGH] ELSE piority
  /\ UNCHANGED <<processCounter, ticks, flagVars, scanVars>>

\* allocproc under FRR: whole struct procs move between the RUNNABLE slots,
\* and every pointer to a slot stays as it is.
AllocSort(c, p, np) ==
  LET perm == sortProcessFIFO(NPROC, state, ctime)
      Moved(f) == [q \in Procs |-> f[perm[q]]]
  IN /\ Policy = "FRR"
     /\ CanAlloc(c, p, np)
     /\ state' = [state EXCEPT ![np] = "EMBRYO"]
     /\ pid' = [Moved(pid) EXCEPT ![np] = nextpid]
     /\ nextpid' = NextPid
     /\ pc' = [Moved(pc) EXCEPT ![p] = "fork", ![np] = "user"]
     /\ sw' = [Moved(sw) EXCEPT ![np] = "forkret"]
     /\ child' = [Moved(child) EXCEPT ![p] = np]
     /\ parent' = Moved(parent) /\ chan' = Moved(chan) /\ killed' = Moved(killed)
     /\ rtime' = [Moved(rtime) EXCEPT ![np] = 0]
     /\ ctime' = [Moved(ctime) EXCEPT ![np] = ticks]
     /\ piority' = Moved(piority) /\ processCounter' = Moved(processCounter)
     /\ UNCHANGED <<cpuVars, panicked, ticks, flagVars, scanVars>>

-----------------------------------------------------------------------------
\* The steps of ProcTable that the policy has no part in.
OtherStep(c, p) ==
  \/ sched(c, p) \/ Resume(c, p) \/ ResumeWait(c, p)
  \/ "sleep" \in Calls /\ \E ch \in Chans : Sleep(c, p, ch)
  \/ ForkFail(c, p) \/ ForkCopy(c, p) \/ ForkPublish(c, p)
  \/ ("exit" \in Calls \/ killed[p]) /\ ExitCall(c, p)
  \/ Exit(c, p)
  \/ "wait" \in Calls /\ WaitCall(c, p)
  \/ WaitFail(c, p) \/ WaitSleep(c, p)
  \/ \E q \in Procs : WaitReap(c, p, q)
  \/ "kill" \in Calls /\ \E t \in KillPids : kill(c, p, t)
  \/ "fault" \in Calls /\ Fault(c, p)

SchedProcessStep(c, p) ==
  \/ Pick(c, p)
  \/ TimerTick(c, p) \/ YieldNow(c, p) \/ YieldSkip(c, p)
  \/ "nice" \in Calls /\ nice(c, p)
  \/ "fork" \in Calls /\ \E np \in Procs : Alloc(c, p, np) \/ AllocSort(c, p, np)
  \/ OtherStep(c, p) /\ UNCHANGED policyVars

SchedCpuStep(c) ==
  \/ Acquire(c) \/ NextPhase(c) \/ Back(c) \/ Release(c) \/ IdleTick(c)
  \/ \E p \in Procs : SchedProcessStep(c, p)

SchedNext ==
  /\ ~panicked
  /\ \/ \E c \in CPUs : SchedCpuStep(c)
     \/ \E ch \in Chans : Wakeup(ch) /\ UNCHANGED policyVars

SchedSpec == SchedInit /\ [][SchedNext]_schedVars

\* What a CPU does without being asked: the loop of scheduler(), the end of
\* the timer interrupt and the way out of and back into a process ...
SwitchCode(c) ==
  \/ Acquire(c) \/ NextPhase(c) \/ Back(c) \/ Release(c)
  \/ \E p \in Procs :
       \/ Pick(c, p) \/ YieldNow(c, p) \/ YieldSkip(c, p)
       \/ (sched(c, p) \/ Resume(c, p) \/ ResumeWait(c, p)) /\ UNCHANGED policyVars

\* ... and the rest of a system call.  User programs may loop for ever.
SyscallCode(c, p) ==
  /\ \/ ForkFail(c, p) \/ ForkCopy(c, p) \/ ForkPublish(c, p)
     \/ Exit(c, p) \/ WaitFail(c, p) \/ WaitSleep(c, p)
     \/ \E q \in Procs : WaitReap(c, p, q)
     \/ killed[p] /\ ExitCall(c, p)
  /\ UNCHANGED policyVars

\* A CPU keeps executing.  A process that runs again and again gets ahead in
\* its code: a timer interrupt returns to the code it interrupted, which runs
\* until the next one.  The timer keeps ticking: an interrupt that is raised
\* while interrupts are off stays pending and is taken when they are on again,
\* in the process that runs then or in the idle loop.
FairSpec ==
  /\ SchedSpec
  /\ \A c \in CPUs :
       /\ WF_schedVars(~panicked /\ SwitchCode(c))
       /\ SF_schedVars(~panicked /\ (IdleTick(c) \/ \E p \in Procs : TimerTick(c, p)))
  /\ \A p \in Procs : SF_schedVars(~panicked /\ \E c \in CPUs : SyscallCode(c, p))

\* init.c calls wait() again and again.
InitWaits ==
  \A c \in CPUs :
    SF_schedVars(~panicked /\ WaitCall(c, initproc) /\ UNCHANGED policyVars)

ReapingSpec == FairSpec /\ InitWaits

-----------------------------------------------------------------------------
(* Properties *)

\* Each variable has its type; yield keeps processCounter within QUANTA.
SchedTypeOK ==
  /\ piority \in [Procs -> {LOW, MEDIUM, HIGH}]
  /\ processCounter \in [Procs -> 0 .. QUANTA]
  /\ ctime \in [Procs -> 0 .. TickMod - 1]
  /\ rtime \in [Procs -> 0 .. TickMod - 1]
  /\ ticks \in 0 .. TickMod - 1
  /\ GRTExists \in BOOLEAN /\ FRRExists \in BOOLEAN
  /\ phase \in [CPUs -> {"grt", "frr", "rr"}]
  /\ next \in [CPUs -> 1 .. NPROC + 1]

\* The scheduler only ever takes steps of the process table.
ImplementsProcTable == Spec

\* Q3 is a "Multi-Level Queue Scheduling policy" (proc.c): a process is
\* chosen only when no RUNNABLE process has a higher priority.
HigherFirst ==
  [][\A p, q \in Procs :
       state[p] = "RUNNABLE" /\ state'[p] = "RUNNING" /\ state[q] = "RUNNABLE"
         => piority[q] <= piority[p]]_schedVars

\* "number of process tiks when process is in running state" (proc.h): with
\* every tick, every process that is RUNNING has its rtime advanced.
RunTimeCounted ==
  [][ticks' # ticks =>
       \A p \in Procs : state[p] = "RUNNING" => rtime'[p] = (rtime[p] + 1) % TickMod]_schedVars

\* No process is charged for more ticks than have passed since allocproc
\* recorded its creation time, so that the share of time that GRT compares
\* never exceeds 1.
ShareAtMostOne ==
  \A p \in Procs : state[p] # "UNUSED" => rtime[p] <= Elapsed(p)

\* "Force process to give up CPU on clock tick" (trap.c): every RUNNABLE
\* process is chosen eventually, whatever the programs that run do.
RunnableRuns ==
  \A p \in Procs : state[p] = "RUNNABLE" ~> (state[p] = "RUNNING" \/ panicked)

\* wait() is for "a child process" (proc.c) of the caller: the parent of a
\* process stays the same process until it exits, and is init from then on.
ParentKept ==
  [][\A p, q \in Procs :
       state[p] # "UNUSED" /\ parent[p] # NULL /\ pid'[q] = pid[p] /\ parent'[q] # NULL =>
         \/ pid'[parent'[q]] = pid[parent[p]]
         \/ pid'[parent'[q]] = 1 /\ state'[parent[p]] = "ZOMBIE"]_schedVars

\* Under Q3 a process of MEDIUM or LOW priority does not stay RUNNABLE for
\* ever while no process of a higher priority is ready: the flags that hold a
\* phase back are recomputed, and its scan reaches every slot.
LowerQueuesServed ==
  \A p \in Procs :
    []<>(panicked \/ state[p] # "RUNNABLE" \/
         piority[p] = HIGH \/ \E pr \in piority[p] + 1 .. HIGH : Ready(pr))

\* A dead process whose parent is init, from the start or because its own
\* parent exited first, is reaped as long as init waits.
OrphansReaped ==
  \A p \in Procs :
    state[p] = "ZOMBIE" /\ parent[p] = initproc ~> state[p] = "UNUSED" \/ panicked

=============================================================================
