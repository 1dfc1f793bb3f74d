------------------------- MODULE SchedulerProofs -------------------------
(***************************************************************************)
(* The scheduling policies only restrict what the process table allows, so *)
(* the theorems about ProcTable hold for the whole scheduler, with any     *)
(* number of CPUs and slots.  The policy FRR is the exception: its         *)
(* allocproc moves processes between slots.                                *)
(***************************************************************************)
EXTENDS Scheduler, ProcTableProofs

\* Each step of a process is a step of the process table or leaves it alone.
LEMMA ProcessStepRefines ==
  ASSUME Policy # "FRR", NEW c \in CPUs, NEW p \in Procs, SchedProcessStep(c, p)
  PROVE  ProcessStep(c, p) \/ UNCHANGED vars
<1>1. ASSUME Pick(c, p) PROVE Dispatch(c, p)
  BY <1>1 DEF Pick
<1>2. ASSUME TimerTick(c, p) PROVE Timer(c, p)
  BY <1>2 DEF TimerTick
<1>3. ASSUME YieldNow(c, p) PROVE Yield(c, p)
  BY <1>3 DEF YieldNow
<1>4. ASSUME YieldSkip(c, p) PROVE YieldReturn(c, p)
  BY <1>4 DEF YieldSkip
<1>5. ASSUME nice(c, p) PROVE UNCHANGED vars
  BY <1>5 DEF nice
<1>6. ASSUME NEW np \in Procs, Alloc(c, p, np) \/ AllocSort(c, p, np)
      PROVE  ForkAlloc(c, p, np)
  BY <1>6 DEF Alloc, AllocSort
<1>7. ASSUME OtherStep(c, p) PROVE ProcessStep(c, p)
  BY <1>7 DEF OtherStep, ProcessStep
<1>. QED
  BY <1>1, <1>2, <1>3, <1>4, <1>5, <1>6, <1>7 DEF SchedProcessStep, ProcessStep

\* The same for the steps of a CPU.
LEMMA CpuStepRefines ==
  ASSUME Policy # "FRR", NEW c \in CPUs, SchedCpuStep(c)
  PROVE  CpuStep(c) \/ UNCHANGED vars
<1>1. ASSUME Acquire(c) PROVE SchedAcquire(c)
  BY <1>1 DEF Acquire
<1>2. ASSUME NextPhase(c) PROVE UNCHANGED vars
  BY <1>2 DEF NextPhase
<1>3. ASSUME Back(c) PROVE SchedBack(c)
  BY <1>3 DEF Back
<1>4. ASSUME Release(c) PROVE SchedRelease(c)
  BY <1>4 DEF Release
<1>5. ASSUME IdleTick(c) PROVE IdleTimer(c)
  BY <1>5 DEF IdleTick
<1>. QED
  BY <1>1, <1>2, <1>3, <1>4, <1>5, ProcessStepRefines DEF SchedCpuStep, CpuStep

\* scheduler(), yield(), nice() and the clock implement the process table,
\* whatever the policy (but FRR), the quantum and the number of CPUs.
THEOREM SchedulerRefines ==
  ASSUME Policy # "FRR"
  PROVE  SchedSpec => ImplementsProcTable
<1>1. SchedInit => Init
  BY DEF SchedInit
<1>2. [SchedNext]_schedVars => [Next]_vars
  <2>1. ASSUME SchedNext PROVE [Next]_vars
    BY <2>1, CpuStepRefines DEF SchedNext, Next
  <2>2. ASSUME UNCHANGED schedVars PROVE UNCHANGED vars
    BY <2>2 DEF schedVars
  <2>. QED
    BY <2>1, <2>2
<1>. QED
  BY <1>1, <1>2, PTL DEF SchedSpec, Spec, ImplementsProcTable

\* Under every such policy no two CPUs run on one kernel stack, no exit is
\* missed by a waiting parent, and no process is left without a live parent.
THEOREM SchedulerSafe ==
  ASSUME Policy # "FRR"
  PROVE  SchedSpec => [](StackExclusive /\ NoMissedExit /\ ParentAlive)
BY SchedulerRefines, OneCpuPerStack, NoExitMissed, ParentsLive, PTL DEF ImplementsProcTable

==========================================================================
