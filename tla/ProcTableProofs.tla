------------------------ MODULE ProcTableProofs ------------------------
(***************************************************************************)
(* Proofs about the process table, for every number of slots, CPUs, sleep  *)
(* channels and forks.                                                     *)
(***************************************************************************)
EXTENDS ProcTable, TLAPS

Alive == {"RUNNABLE", "RUNNING", "SLEEPING"}

(* What the invariants of ProcTable need to be inductive. *)

\* A thread that is not inside sched() is RUNNING.
RunningCode ==
  \A c \in CPUs : stack[c] # NULL /\ sw[stack[c]] \in {"none", "timer"} =>
    state[stack[c]] = "RUNNING"

\* The child of a fork() that is under way is an EMBRYO, of that fork only;
\* its parent is unset and then set.  Only a living process is in fork().
ForkPrivate ==
  /\ \A p \in Procs : child[p] # NULL => state[child[p]] = "EMBRYO" /\ state[p] \in Alive
  /\ \A p, q \in Procs : child[p] # NULL /\ child[p] = child[q] => p = q
  /\ \A p \in Procs : pc[p] = "fork" => parent[child[p]] = NULL
  /\ \A p \in Procs : pc[p] = "forked" => parent[child[p]] = p
  /\ \A p \in Procs : state[p] = "UNUSED" => parent[p] = NULL

\* The first process lives for ever, and no process is its own parent.
InitAlive ==
  /\ state[initproc] \in Alive /\ pc[initproc] # "exit" /\ parent[initproc] = NULL
  /\ \A p \in Procs : parent[p] # p

\* A process asleep in wait() sleeps on itself.
WaitChannel ==
  \A p \in Procs : state[p] = "SLEEPING" /\ sw[p] = "wait" => chan[p] = p

\* The pids given out so far are below the counter.
PidBelowNext == \A p \in Procs : pid[p] < nextpid

IInv ==
  /\ TypeOK
  /\ StackExclusive /\ RunningCode
  /\ ForkPrivate /\ InitAlive /\ ParentAlive
  /\ WaitChannel /\ NoMissedExit
  /\ UniquePid /\ PidBelowNext /\ nextpid > 0

-----------------------------------------------------------------------------
(* Facts that let the proofs treat the sets and wakeup1 as opaque. *)

\* The null pointers and the slot of the first process.
LEMMA Basics ==
  /\ initproc \in Procs /\ NULL \notin Procs
  /\ FREE \notin CPUs
  /\ \A ch \in Chans : ch \notin Procs /\ ch # NULL
BY ProcTableAssumption DEF Procs, CPUs, NULL, FREE, initproc

\* wakeup1 makes sleepers on the channel RUNNABLE and nothing else.
LEMMA Wakeup1 ==
  ASSUME NEW st, NEW ch
  PROVE  /\ \A p \in Procs : wakeup1(st, ch)[p] =
              IF st[p] = "SLEEPING" /\ chan[p] = ch THEN "RUNNABLE" ELSE st[p]
         /\ DOMAIN wakeup1(st, ch) = Procs
         /\ st \in [Procs -> States] => wakeup1(st, ch) \in [Procs -> States]
BY DEF wakeup1, States

\* wakeup1 as a step: only sleepers change, to RUNNABLE.
LEMMA Wakes ==
  ASSUME NEW ch, state' = wakeup1(state, ch)
  PROVE  \A q \in Procs :
           state'[q] = state[q] \/ (state[q] = "SLEEPING" /\ state'[q] = "RUNNABLE")
BY Wakeup1

\* What exit() does to the table: p dies, its parent wakes up, and so does
\* init if it inherits a dead child; no one else's state changes.
Died(p) ==
  /\ state[p] = "RUNNING" /\ child[p] = NULL /\ state'[p] = "ZOMBIE"
  /\ \A q \in Procs \ {p} :
       \/ state'[q] = state[q]
       \/ state[q] = "SLEEPING" /\ state'[q] = "RUNNABLE"
  /\ \A q \in Procs \ {p} :
       state'[q] = "SLEEPING" /\ chan[q] = q =>
         q # parent[p] /\ (q = initproc => Zombies(p) = {})
  /\ \A q \in Procs : parent'[q] = IF parent[q] = p THEN initproc ELSE parent[q]

\* Exit does that.
LEMMA ExitEffect ==
  ASSUME IInv, NEW c \in CPUs, NEW p \in Procs, Exit(c, p)
  PROVE  Died(p)
<1>1. state[p] = "RUNNING" /\ child[p] = NULL
  BY Basics DEF IInv, Exit, Runs, RunningCode, TypeOK
<1>2. PICK st : st = wakeup1(state, parent[p])
  OBVIOUS
<1>3. PICK su : su = WakeInit(p, st)
  OBVIOUS
<1>4. state' = [su EXCEPT ![p] = "ZOMBIE"] /\ DOMAIN su = Procs
  BY <1>2, <1>3, Wakeup1 DEF Exit, WakeInit
<1>5. \A q \in Procs : su[q] =
        IF state[q] = "SLEEPING"
           /\ (chan[q] = parent[p] \/ (chan[q] = initproc /\ Zombies(p) # {}))
        THEN "RUNNABLE" ELSE state[q]
  <2>1. CASE Zombies(p) = {}
    BY <1>2, <1>3, <2>1, Wakeup1 DEF WakeInit
  <2>2. CASE Zombies(p) # {}
    BY <1>2, <1>3, <2>2, Wakeup1 DEF WakeInit
  <2>. QED
    BY <2>1, <2>2
<1>6. \A q \in Procs : parent'[q] = IF parent[q] = p THEN initproc ELSE parent[q]
  BY DEF Exit, Adopt, Children
<1>. QED
  BY <1>1, <1>4, <1>5, <1>6 DEF Died

-----------------------------------------------------------------------------
(* One lemma per conjunct of IInv, one step per action. *)

\* Every action preserves the types.
LEMMA TypeStep == IInv /\ [Next]_vars => TypeOK'
<1>. SUFFICES ASSUME TypeOK, ForkPrivate, [Next]_vars PROVE TypeOK'
  BY DEF IInv
<1>. USE Basics DEF tableVars, threadVars, cpuVars
<1>1. ASSUME NEW c \in CPUs, SchedAcquire(c) PROVE TypeOK'
  BY <1>1 DEF SchedAcquire, TypeOK, ForkPrivate, States, PCs, SWs
<1>2. ASSUME NEW c \in CPUs, SchedBack(c) PROVE TypeOK'
  BY <1>2 DEF SchedBack, TypeOK, ForkPrivate, States, PCs, SWs
<1>3. ASSUME NEW c \in CPUs, SchedRelease(c) PROVE TypeOK'
  BY <1>3 DEF SchedRelease, TypeOK, ForkPrivate, States, PCs, SWs
<1>4. ASSUME NEW c \in CPUs, IdleTimer(c) PROVE TypeOK'
  BY <1>4, Wakeup1 DEF IdleTimer, Tick, TypeOK, ForkPrivate, States, PCs, SWs
<1>5. ASSUME NEW c \in CPUs, NEW p \in Procs, Dispatch(c, p) PROVE TypeOK'
  BY <1>5 DEF Dispatch, TypeOK, ForkPrivate, States, PCs, SWs
<1>6. ASSUME NEW c \in CPUs, NEW p \in Procs, sched(c, p) PROVE TypeOK'
  BY <1>6 DEF sched, TypeOK, ForkPrivate, States, PCs, SWs
<1>7. ASSUME NEW c \in CPUs, NEW p \in Procs, Resume(c, p) PROVE TypeOK'
  BY <1>7 DEF Resume, TypeOK, ForkPrivate, States, PCs, SWs
<1>8. ASSUME NEW c \in CPUs, NEW p \in Procs, ResumeWait(c, p) PROVE TypeOK'
  BY <1>8 DEF ResumeWait, TypeOK, ForkPrivate, States, PCs, SWs
<1>9. ASSUME NEW c \in CPUs, NEW p \in Procs, NEW ch \in Chans, Sleep(c, p, ch) PROVE TypeOK'
  BY <1>9 DEF Sleep, Runs, TypeOK, ForkPrivate, States, PCs, SWs
<1>10. ASSUME NEW c \in CPUs, NEW p \in Procs, Timer(c, p) PROVE TypeOK'
  BY <1>10, Wakeup1 DEF Timer, Tick, Runs, TypeOK, ForkPrivate, States, PCs, SWs
<1>11. ASSUME NEW c \in CPUs, NEW p \in Procs, Yield(c, p) PROVE TypeOK'
  BY <1>11 DEF Yield, TypeOK, ForkPrivate, States, PCs, SWs
<1>12. ASSUME NEW c \in CPUs, NEW p \in Procs, YieldReturn(c, p) PROVE TypeOK'
  BY <1>12 DEF YieldReturn, TypeOK, ForkPrivate, States, PCs, SWs
<1>13. ASSUME NEW c \in CPUs, NEW p \in Procs, NEW np \in Procs, ForkAlloc(c, p, np) PROVE TypeOK'
  <2>1. child[np] = NULL
    BY <1>13 DEF ForkAlloc, CanAlloc, First, ForkPrivate, Alive, TypeOK
  <2>. QED
    BY <1>13, <2>1 DEF ForkAlloc, CanAlloc, Runs, First, NextPid, TypeOK, States, PCs, SWs
<1>14. ASSUME NEW c \in CPUs, NEW p \in Procs, ForkFail(c, p) PROVE TypeOK'
  BY <1>14 DEF ForkFail, Runs, TypeOK, ForkPrivate, States, PCs, SWs
<1>15. ASSUME NEW c \in CPUs, NEW p \in Procs, ForkCopy(c, p) PROVE TypeOK'
  BY <1>15 DEF ForkCopy, Runs, TypeOK, ForkPrivate, States, PCs, SWs
<1>16. ASSUME NEW c \in CPUs, NEW p \in Procs, ForkPublish(c, p) PROVE TypeOK'
  BY <1>16 DEF ForkPublish, Runs, TypeOK, ForkPrivate, States, PCs, SWs
<1>17. ASSUME NEW c \in CPUs, NEW p \in Procs, ExitCall(c, p) PROVE TypeOK'
  <2>1. CASE p = initproc
    BY <1>17, <2>1 DEF ExitCall, TypeOK
  <2>2. CASE p # initproc
    BY <1>17, <2>2 DEF ExitCall, Runs, TypeOK, PCs
  <2>. QED
    BY <2>1, <2>2
<1>18. ASSUME NEW c \in CPUs, NEW p \in Procs, Exit(c, p) PROVE TypeOK'
  BY <1>18, Wakeup1 DEF Exit, Runs, Adopt, WakeInit, Children, Zombies, TypeOK, ForkPrivate, States, PCs, SWs
<1>19. ASSUME NEW c \in CPUs, NEW p \in Procs, WaitCall(c, p) PROVE TypeOK'
  BY <1>19 DEF WaitCall, Runs, TypeOK, ForkPrivate, States, PCs, SWs
<1>20. ASSUME NEW c \in CPUs, NEW p \in Procs, WaitFail(c, p) PROVE TypeOK'
  BY <1>20 DEF WaitFail, Runs, Zombies, Children, TypeOK, ForkPrivate, States, PCs, SWs
<1>21. ASSUME NEW c \in CPUs, NEW p \in Procs, WaitSleep(c, p) PROVE TypeOK'
  BY <1>21 DEF WaitSleep, Runs, Zombies, Children, TypeOK, ForkPrivate, States, PCs, SWs
<1>22. ASSUME NEW c \in CPUs, NEW p \in Procs, NEW q \in Procs, WaitReap(c, p, q) PROVE TypeOK'
  BY <1>22 DEF WaitReap, Runs, First, Zombies, Children, TypeOK, ForkPrivate, States, PCs, SWs
<1>23. ASSUME NEW c \in CPUs, NEW p \in Procs, NEW t \in KillPids, kill(c, p, t) PROVE TypeOK'
  BY <1>23 DEF kill, Runs, First, KilledState, TypeOK, ForkPrivate, States, PCs, SWs
<1>24. ASSUME NEW c \in CPUs, NEW p \in Procs, Fault(c, p) PROVE TypeOK'
  BY <1>24 DEF Fault, Runs, TypeOK, ForkPrivate, States, PCs, SWs
<1>25. ASSUME NEW ch \in Chans, Wakeup(ch) PROVE TypeOK'
  BY <1>25, Wakeup1 DEF Wakeup, TypeOK, ForkPrivate, States, PCs, SWs
<1>26. CASE UNCHANGED vars
  BY <1>26 DEF vars, TypeOK, ForkPrivate, States, PCs, SWs
<1>. QED
  BY <1>1, <1>2, <1>3, <1>4, <1>5, <1>6, <1>7, <1>8, <1>9, <1>10, <1>11,
     <1>12, <1>13, <1>14, <1>15, <1>16, <1>17, <1>18, <1>19, <1>20, <1>21,
     <1>22, <1>23, <1>24, <1>25, <1>26 DEF Next, CpuStep, ProcessStep

\* Every action preserves RunningCode.
LEMMA RunningCodeStep == IInv /\ [Next]_vars => RunningCode'
<1>. SUFFICES ASSUME IInv, [Next]_vars PROVE RunningCode'
  BY DEF IInv
<1>. USE Basics DEF tableVars, threadVars, cpuVars
<1>1. ASSUME NEW c \in CPUs, SchedAcquire(c) PROVE RunningCode'
  BY <1>1 DEF SchedAcquire, IInv, TypeOK, ForkPrivate, RunningCode, StackExclusive
<1>2. ASSUME NEW c \in CPUs, SchedBack(c) PROVE RunningCode'
  BY <1>2 DEF SchedBack, IInv, TypeOK, ForkPrivate, RunningCode, StackExclusive
<1>3. ASSUME NEW c \in CPUs, SchedRelease(c) PROVE RunningCode'
  BY <1>3 DEF SchedRelease, IInv, TypeOK, ForkPrivate, RunningCode, StackExclusive
<1>4. ASSUME NEW c \in CPUs, IdleTimer(c) PROVE RunningCode'
  BY <1>4, Wakeup1 DEF IdleTimer, Tick, IInv, TypeOK, ForkPrivate, RunningCode, StackExclusive
<1>5. ASSUME NEW c \in CPUs, NEW p \in Procs, Dispatch(c, p) PROVE RunningCode'
  BY <1>5 DEF Dispatch, IInv, TypeOK, ForkPrivate, RunningCode, StackExclusive
<1>6. ASSUME NEW c \in CPUs, NEW p \in Procs, sched(c, p) PROVE RunningCode'
  BY <1>6 DEF sched, IInv, TypeOK, ForkPrivate, RunningCode, StackExclusive
<1>7. ASSUME NEW c \in CPUs, NEW p \in Procs, Resume(c, p) PROVE RunningCode'
  BY <1>7 DEF Resume, IInv, TypeOK, ForkPrivate, RunningCode, StackExclusive
<1>8. ASSUME NEW c \in CPUs, NEW p \in Procs, ResumeWait(c, p) PROVE RunningCode'
  BY <1>8 DEF ResumeWait, IInv, TypeOK, ForkPrivate, RunningCode, StackExclusive
<1>9. ASSUME NEW c \in CPUs, NEW p \in Procs, NEW ch \in Chans, Sleep(c, p, ch) PROVE RunningCode'
  BY <1>9 DEF Sleep, Runs, IInv, TypeOK, ForkPrivate, RunningCode, StackExclusive
<1>10. ASSUME NEW c \in CPUs, NEW p \in Procs, Timer(c, p) PROVE RunningCode'
  BY <1>10, Wakeup1 DEF Timer, Tick, Runs, IInv, TypeOK, ForkPrivate, RunningCode, StackExclusive
<1>11. ASSUME NEW c \in CPUs, NEW p \in Procs, Yield(c, p) PROVE RunningCode'
  BY <1>11 DEF Yield, IInv, TypeOK, ForkPrivate, RunningCode, StackExclusive
<1>12. ASSUME NEW c \in CPUs, NEW p \in Procs, YieldReturn(c, p) PROVE RunningCode'
  BY <1>12 DEF YieldReturn, IInv, TypeOK, ForkPrivate, RunningCode, StackExclusive
<1>13. ASSUME NEW c \in CPUs, NEW p \in Procs, NEW np \in Procs, ForkAlloc(c, p, np) PROVE RunningCode'
  BY <1>13 DEF ForkAlloc, CanAlloc, Runs, First, NextPid, IInv, TypeOK, ForkPrivate, RunningCode, StackExclusive
<1>14. ASSUME NEW c \in CPUs, NEW p \in Procs, ForkFail(c, p) PROVE RunningCode'
  BY <1>14 DEF ForkFail, Runs, IInv, TypeOK, ForkPrivate, RunningCode, StackExclusive
<1>15. ASSUME NEW c \in CPUs, NEW p \in Procs, ForkCopy(c, p) PROVE RunningCode'
  BY <1>15 DEF ForkCopy, Runs, IInv, TypeOK, ForkPrivate, RunningCode, StackExclusive
<1>16. ASSUME NEW c \in CPUs, NEW p \in Procs, ForkPublish(c, p) PROVE RunningCode'
  BY <1>16 DEF ForkPublish, Runs, IInv, TypeOK, ForkPrivate, RunningCode, StackExclusive
<1>17. ASSUME NEW c \in CPUs, NEW p \in Procs, ExitCall(c, p) PROVE RunningCode'
  BY <1>17 DEF ExitCall, Runs, IInv, TypeOK, ForkPrivate, RunningCode, StackExclusive
<1>18. ASSUME NEW c \in CPUs, NEW p \in Procs, Exit(c, p) PROVE RunningCode'
  BY <1>18, Wakeup1 DEF Exit, Runs, Adopt, WakeInit, Children, Zombies, IInv, TypeOK, ForkPrivate, RunningCode, StackExclusive
<1>19. ASSUME NEW c \in CPUs, NEW p \in Procs, WaitCall(c, p) PROVE RunningCode'
  BY <1>19 DEF WaitCall, Runs, IInv, TypeOK, ForkPrivate, RunningCode, StackExclusive
<1>20. ASSUME NEW c \in CPUs, NEW p \in Procs, WaitFail(c, p) PROVE RunningCode'
  BY <1>20 DEF WaitFail, Runs, Zombies, Children, IInv, TypeOK, ForkPrivate, RunningCode, StackExclusive
<1>21. ASSUME NEW c \in CPUs, NEW p \in Procs, WaitSleep(c, p) PROVE RunningCode'
  BY <1>21 DEF WaitSleep, Runs, Zombies, Children, IInv, TypeOK, ForkPrivate, RunningCode, StackExclusive
<1>22. ASSUME NEW c \in CPUs, NEW p \in Procs, NEW q \in Procs, WaitReap(c, p, q) PROVE RunningCode'
  BY <1>22 DEF WaitReap, Runs, First, Zombies, Children, IInv, TypeOK, ForkPrivate, RunningCode, StackExclusive
<1>23. ASSUME NEW c \in CPUs, NEW p \in Procs, NEW t \in KillPids, kill(c, p, t) PROVE RunningCode'
  BY <1>23 DEF kill, Runs, First, KilledState, IInv, TypeOK, ForkPrivate, RunningCode, StackExclusive
<1>24. ASSUME NEW c \in CPUs, NEW p \in Procs, Fault(c, p) PROVE RunningCode'
  BY <1>24 DEF Fault, Runs, IInv, TypeOK, ForkPrivate, RunningCode, StackExclusive
<1>25. ASSUME NEW ch \in Chans, Wakeup(ch) PROVE RunningCode'
  BY <1>25, Wakeup1 DEF Wakeup, IInv, TypeOK, ForkPrivate, RunningCode, StackExclusive
<1>26. CASE UNCHANGED vars
  BY <1>26 DEF vars, IInv, TypeOK, ForkPrivate, RunningCode, StackExclusive
<1>. QED
  BY <1>1, <1>2, <1>3, <1>4, <1>5, <1>6, <1>7, <1>8, <1>9, <1>10, <1>11,
     <1>12, <1>13, <1>14, <1>15, <1>16, <1>17, <1>18, <1>19, <1>20, <1>21,
     <1>22, <1>23, <1>24, <1>25, <1>26 DEF Next, CpuStep, ProcessStep

\* Every action preserves StackExclusive.
LEMMA StackStep == IInv /\ [Next]_vars => StackExclusive'
<1>. SUFFICES ASSUME IInv, [Next]_vars PROVE StackExclusive'
  BY DEF IInv
<1>. USE Basics DEF tableVars, threadVars, cpuVars
<1>1. ASSUME NEW c \in CPUs, SchedAcquire(c) PROVE StackExclusive'
  BY <1>1 DEF SchedAcquire, IInv, TypeOK, ForkPrivate, RunningCode, StackExclusive
<1>2. ASSUME NEW c \in CPUs, SchedBack(c) PROVE StackExclusive'
  BY <1>2 DEF SchedBack, IInv, TypeOK, ForkPrivate, RunningCode, StackExclusive
<1>3. ASSUME NEW c \in CPUs, SchedRelease(c) PROVE StackExclusive'
  BY <1>3 DEF SchedRelease, IInv, TypeOK, ForkPrivate, RunningCode, StackExclusive
<1>4. ASSUME NEW c \in CPUs, IdleTimer(c) PROVE StackExclusive'
  BY <1>4, Wakeup1 DEF IdleTimer, Tick, IInv, TypeOK, ForkPrivate, RunningCode, StackExclusive
<1>5. ASSUME NEW c \in CPUs, NEW p \in Procs, Dispatch(c, p) PROVE StackExclusive'
  BY <1>5 DEF Dispatch, IInv, TypeOK, ForkPrivate, RunningCode, StackExclusive
<1>6. ASSUME NEW c \in CPUs, NEW p \in Procs, sched(c, p) PROVE StackExclusive'
  BY <1>6 DEF sched, IInv, TypeOK, ForkPrivate, RunningCode, StackExclusive
<1>7. ASSUME NEW c \in CPUs, NEW p \in Procs, Resume(c, p) PROVE StackExclusive'
  BY <1>7 DEF Resume, IInv, TypeOK, ForkPrivate, RunningCode, StackExclusive
<1>8. ASSUME NEW c \in CPUs, NEW p \in Procs, ResumeWait(c, p) PROVE StackExclusive'
  BY <1>8 DEF ResumeWait, IInv, TypeOK, ForkPrivate, RunningCode, StackExclusive
<1>9. ASSUME NEW c \in CPUs, NEW p \in Procs, NEW ch \in Chans, Sleep(c, p, ch) PROVE StackExclusive'
  BY <1>9 DEF Sleep, Runs, IInv, TypeOK, ForkPrivate, RunningCode, StackExclusive
<1>10. ASSUME NEW c \in CPUs, NEW p \in Procs, Timer(c, p) PROVE StackExclusive'
  BY <1>10, Wakeup1 DEF Timer, Tick, Runs, IInv, TypeOK, ForkPrivate, RunningCode, StackExclusive
<1>11. ASSUME NEW c \in CPUs, NEW p \in Procs, Yield(c, p) PROVE StackExclusive'
  BY <1>11 DEF Yield, IInv, TypeOK, ForkPrivate, RunningCode, StackExclusive
<1>12. ASSUME NEW c \in CPUs, NEW p \in Procs, YieldReturn(c, p) PROVE StackExclusive'
  BY <1>12 DEF YieldReturn, IInv, TypeOK, ForkPrivate, RunningCode, StackExclusive
<1>13. ASSUME NEW c \in CPUs, NEW p \in Procs, NEW np \in Procs, ForkAlloc(c, p, np) PROVE StackExclusive'
  BY <1>13 DEF ForkAlloc, CanAlloc, Runs, First, NextPid, IInv, TypeOK, ForkPrivate, RunningCode, StackExclusive
<1>14. ASSUME NEW c \in CPUs, NEW p \in Procs, ForkFail(c, p) PROVE StackExclusive'
  BY <1>14 DEF ForkFail, Runs, IInv, TypeOK, ForkPrivate, RunningCode, StackExclusive
<1>15. ASSUME NEW c \in CPUs, NEW p \in Procs, ForkCopy(c, p) PROVE StackExclusive'
  BY <1>15 DEF ForkCopy, Runs, IInv, TypeOK, ForkPrivate, RunningCode, StackExclusive
<1>16. ASSUME NEW c \in CPUs, NEW p \in Procs, ForkPublish(c, p) PROVE StackExclusive'
  BY <1>16 DEF ForkPublish, Runs, IInv, TypeOK, ForkPrivate, RunningCode, StackExclusive
<1>17. ASSUME NEW c \in CPUs, NEW p \in Procs, ExitCall(c, p) PROVE StackExclusive'
  BY <1>17 DEF ExitCall, Runs, IInv, TypeOK, ForkPrivate, RunningCode, StackExclusive
<1>18. ASSUME NEW c \in CPUs, NEW p \in Procs, Exit(c, p) PROVE StackExclusive'
  <2>1. Died(p)
    BY <1>18, ExitEffect
  <2>2. stack' = stack /\ lock' = c /\ stack[c] = p /\ lock = FREE
    BY <1>18 DEF Exit, Runs
  <2>3. \A d \in CPUs : stack[d] # NULL /\ d # c => stack[d] # p /\ state[stack[d]] = "RUNNING"
    BY <2>2 DEF IInv, StackExclusive
  <2>4. \A d \in CPUs : stack[d] # NULL => stack[d] \in Procs /\ \A e \in CPUs : stack[e] = stack[d] => e = d
    BY DEF IInv, TypeOK, StackExclusive
  <2>5. state'[p] = "ZOMBIE" /\ \A q \in Procs \ {p} : state[q] = "RUNNING" => state'[q] = "RUNNING"
    BY <2>1 DEF Died
  <2>. QED
    BY <2>2, <2>3, <2>4, <2>5 DEF StackExclusive
<1>19. ASSUME NEW c \in CPUs, NEW p \in Procs, WaitCall(c, p) PROVE StackExclusive'
  BY <1>19 DEF WaitCall, Runs, IInv, TypeOK, ForkPrivate, RunningCode, StackExclusive
<1>20. ASSUME NEW c \in CPUs, NEW p \in Procs, WaitFail(c, p) PROVE StackExclusive'
  BY <1>20 DEF WaitFail, Runs, Zombies, Children, IInv, TypeOK, ForkPrivate, RunningCode, StackExclusive
<1>21. ASSUME NEW c \in CPUs, NEW p \in Procs, WaitSleep(c, p) PROVE StackExclusive'
  BY <1>21 DEF WaitSleep, Runs, Zombies, Children, IInv, TypeOK, ForkPrivate, RunningCode, StackExclusive
<1>22. ASSUME NEW c \in CPUs, NEW p \in Procs, NEW q \in Procs, WaitReap(c, p, q) PROVE StackExclusive'
  BY <1>22 DEF WaitReap, Runs, First, Zombies, Children, IInv, TypeOK, ForkPrivate, RunningCode, StackExclusive
<1>23. ASSUME NEW c \in CPUs, NEW p \in Procs, NEW t \in KillPids, kill(c, p, t) PROVE StackExclusive'
  BY <1>23 DEF kill, Runs, First, KilledState, IInv, TypeOK, ForkPrivate, RunningCode, StackExclusive
<1>24. ASSUME NEW c \in CPUs, NEW p \in Procs, Fault(c, p) PROVE StackExclusive'
  BY <1>24 DEF Fault, Runs, IInv, TypeOK, ForkPrivate, RunningCode, StackExclusive
<1>25. ASSUME NEW ch \in Chans, Wakeup(ch) PROVE StackExclusive'
  BY <1>25, Wakeup1 DEF Wakeup, IInv, TypeOK, ForkPrivate, RunningCode, StackExclusive
<1>26. CASE UNCHANGED vars
  BY <1>26 DEF vars, IInv, TypeOK, ForkPrivate, RunningCode, StackExclusive
<1>. QED
  BY <1>1, <1>2, <1>3, <1>4, <1>5, <1>6, <1>7, <1>8, <1>9, <1>10, <1>11,
     <1>12, <1>13, <1>14, <1>15, <1>16, <1>17, <1>18, <1>19, <1>20, <1>21,
     <1>22, <1>23, <1>24, <1>25, <1>26 DEF Next, CpuStep, ProcessStep

\* A thread that executes outside sched() belongs to a RUNNING process.
LEMMA Runner ==
  ASSUME IInv, NEW c \in CPUs, NEW p \in Procs, stack[c] = p, sw[p] \in {"none", "timer"}
  PROVE  state[p] = "RUNNING"
BY Basics DEF IInv, RunningCode

\* A step in which no process is born, dies or gets another parent: processes
\* only move between the states of the living, and in and out of wait() and
\* exit().
Quiet ==
  /\ UNCHANGED <<parent, child, pid, nextpid>>
  /\ \A q \in Procs : state'[q] = state[q] \/ (state[q] \in Alive /\ state'[q] \in Alive)
  /\ \A q \in Procs : pc'[q] = pc[q] \/ (pc[q] \notin {"fork", "forked"} /\ pc'[q] \notin {"fork", "forked"})
  /\ pc'[initproc] = "exit" => pc[initproc] = "exit"

\* The steps of fork, exit and wait that do more than that.
Turnover(c, p) ==
  \/ \E np \in Procs : ForkAlloc(c, p, np)
  \/ ForkFail(c, p) \/ ForkCopy(c, p) \/ ForkPublish(c, p) \/ Exit(c, p)
  \/ \E q \in Procs : WaitReap(c, p, q)

\* Every step is of one of the two kinds.
LEMMA QuietStep ==
  ASSUME IInv, [Next]_vars
  PROVE  Quiet \/ \E c \in CPUs, p \in Procs : Turnover(c, p)
<1>. USE Basics DEF tableVars, threadVars, cpuVars, Alive
<1>. TypeOK
  BY DEF IInv
<1>1. ASSUME NEW c \in CPUs, SchedAcquire(c) PROVE Quiet
  BY <1>1 DEF SchedAcquire, Quiet, TypeOK
<1>2. ASSUME NEW c \in CPUs, SchedBack(c) PROVE Quiet
  BY <1>2 DEF SchedBack, Quiet, TypeOK
<1>3. ASSUME NEW c \in CPUs, SchedRelease(c) PROVE Quiet
  BY <1>3 DEF SchedRelease, Quiet, TypeOK
<1>4. ASSUME NEW c \in CPUs, IdleTimer(c) PROVE Quiet
  BY <1>4, Wakes DEF IdleTimer, Tick, Quiet, TypeOK
<1>5. ASSUME NEW c \in CPUs, NEW p \in Procs, Dispatch(c, p) PROVE Quiet
  BY <1>5 DEF Dispatch, Quiet, TypeOK
<1>6. ASSUME NEW c \in CPUs, NEW p \in Procs, sched(c, p) PROVE Quiet
  BY <1>6 DEF sched, Quiet, TypeOK
<1>7. ASSUME NEW c \in CPUs, NEW p \in Procs, Resume(c, p) PROVE Quiet
  BY <1>7 DEF Resume, Quiet, TypeOK
<1>8. ASSUME NEW c \in CPUs, NEW p \in Procs, ResumeWait(c, p) PROVE Quiet
  BY <1>8 DEF ResumeWait, Quiet, TypeOK
<1>9. ASSUME NEW c \in CPUs, NEW p \in Procs, NEW ch \in Chans, Sleep(c, p, ch) PROVE Quiet
  BY <1>9, Runner DEF Sleep, Runs, Quiet, TypeOK
<1>10. ASSUME NEW c \in CPUs, NEW p \in Procs, Timer(c, p) PROVE Quiet
  BY <1>10, Wakes DEF Timer, Tick, Quiet, TypeOK
<1>11. ASSUME NEW c \in CPUs, NEW p \in Procs, Yield(c, p) PROVE Quiet
  BY <1>11, Runner DEF Yield, Quiet, TypeOK
<1>12. ASSUME NEW c \in CPUs, NEW p \in Procs, YieldReturn(c, p) PROVE Quiet
  BY <1>12 DEF YieldReturn, Quiet, TypeOK
<1>13. ASSUME NEW c \in CPUs, NEW p \in Procs, ExitCall(c, p) PROVE Quiet
  BY <1>13 DEF ExitCall, Quiet, TypeOK
<1>14. ASSUME NEW c \in CPUs, NEW p \in Procs, WaitCall(c, p) PROVE Quiet
  BY <1>14 DEF WaitCall, Runs, Quiet, TypeOK
<1>15. ASSUME NEW c \in CPUs, NEW p \in Procs, WaitFail(c, p) PROVE Quiet
  BY <1>15 DEF WaitFail, Runs, Quiet, TypeOK
<1>16. ASSUME NEW c \in CPUs, NEW p \in Procs, WaitSleep(c, p) PROVE Quiet
  BY <1>16, Runner DEF WaitSleep, Runs, Quiet, TypeOK
<1>17. ASSUME NEW c \in CPUs, NEW p \in Procs, NEW t \in KillPids, kill(c, p, t) PROVE Quiet
  BY <1>17 DEF kill, KilledState, Quiet, TypeOK
<1>18. ASSUME NEW c \in CPUs, NEW p \in Procs, Fault(c, p) PROVE Quiet
  BY <1>18 DEF Fault, Quiet, TypeOK
<1>19. ASSUME NEW ch \in Chans, Wakeup(ch) PROVE Quiet
  BY <1>19, Wakes DEF Wakeup, Quiet, TypeOK
<1>20. CASE UNCHANGED vars
  BY <1>20 DEF vars, Quiet
<1>. QED
  BY <1>1, <1>2, <1>3, <1>4, <1>5, <1>6, <1>7, <1>8, <1>9, <1>10, <1>11,
     <1>12, <1>13, <1>14, <1>15, <1>16, <1>17, <1>18, <1>19, <1>20
     DEF Next, CpuStep, ProcessStep, Turnover

\* Nobody falls asleep in wait(), and those who sleep there keep their channel.
NoNewWaiter ==
  \A q \in Procs : state'[q] = "SLEEPING" /\ sw'[q] = "wait" =>
    state[q] = "SLEEPING" /\ sw[q] = "wait" /\ chan'[q] = chan[q]

\* Only WaitSleep makes a process sleep in wait().
LEMMA WaiterStep ==
  ASSUME IInv, [Next]_vars
  PROVE  NoNewWaiter \/ \E c \in CPUs, p \in Procs : WaitSleep(c, p)
<1>. USE Basics DEF tableVars, threadVars, cpuVars
<1>. TypeOK
  BY DEF IInv
<1>1. ASSUME NEW c \in CPUs, SchedAcquire(c) PROVE NoNewWaiter
  BY <1>1 DEF SchedAcquire, NoNewWaiter, TypeOK
<1>2. ASSUME NEW c \in CPUs, SchedBack(c) PROVE NoNewWaiter
  BY <1>2 DEF SchedBack, NoNewWaiter, TypeOK
<1>3. ASSUME NEW c \in CPUs, SchedRelease(c) PROVE NoNewWaiter
  BY <1>3 DEF SchedRelease, NoNewWaiter, TypeOK
<1>4. ASSUME NEW c \in CPUs, IdleTimer(c) PROVE NoNewWaiter
  BY <1>4, Wakes DEF IdleTimer, Tick, NoNewWaiter, TypeOK
<1>5. ASSUME NEW c \in CPUs, NEW p \in Procs, Dispatch(c, p) PROVE NoNewWaiter
  BY <1>5 DEF Dispatch, NoNewWaiter, TypeOK
<1>6. ASSUME NEW c \in CPUs, NEW p \in Procs, sched(c, p) PROVE NoNewWaiter
  BY <1>6 DEF sched, NoNewWaiter, TypeOK
<1>7. ASSUME NEW c \in CPUs, NEW p \in Procs, Resume(c, p) PROVE NoNewWaiter
  BY <1>7 DEF Resume, NoNewWaiter, TypeOK
<1>8. ASSUME NEW c \in CPUs, NEW p \in Procs, ResumeWait(c, p) PROVE NoNewWaiter
  BY <1>8 DEF ResumeWait, NoNewWaiter, TypeOK
<1>9. ASSUME NEW c \in CPUs, NEW p \in Procs, NEW ch \in Chans, Sleep(c, p, ch) PROVE NoNewWaiter
  BY <1>9 DEF Sleep, Runs, NoNewWaiter, TypeOK
<1>10. ASSUME NEW c \in CPUs, NEW p \in Procs, Timer(c, p) PROVE NoNewWaiter
  BY <1>10, Wakes DEF Timer, Tick, NoNewWaiter, TypeOK
<1>11. ASSUME NEW c \in CPUs, NEW p \in Procs, Yield(c, p) PROVE NoNewWaiter
  BY <1>11 DEF Yield, NoNewWaiter, TypeOK
<1>12. ASSUME NEW c \in CPUs, NEW p \in Procs, YieldReturn(c, p) PROVE NoNewWaiter
  BY <1>12 DEF YieldReturn, NoNewWaiter, TypeOK
<1>13. ASSUME NEW c \in CPUs, NEW p \in Procs, NEW np \in Procs, ForkAlloc(c, p, np) PROVE NoNewWaiter
  BY <1>13 DEF ForkAlloc, CanAlloc, NoNewWaiter, TypeOK
<1>14. ASSUME NEW c \in CPUs, NEW p \in Procs, ForkFail(c, p) PROVE NoNewWaiter
  BY <1>14 DEF ForkFail, NoNewWaiter, TypeOK
<1>15. ASSUME NEW c \in CPUs, NEW p \in Procs, ForkCopy(c, p) PROVE NoNewWaiter
  BY <1>15 DEF ForkCopy, NoNewWaiter, TypeOK
<1>16. ASSUME NEW c \in CPUs, NEW p \in Procs, ForkPublish(c, p) PROVE NoNewWaiter
  BY <1>16 DEF ForkPublish, NoNewWaiter, TypeOK
<1>17. ASSUME NEW c \in CPUs, NEW p \in Procs, ExitCall(c, p) PROVE NoNewWaiter
  BY <1>17 DEF ExitCall, NoNewWaiter, TypeOK
<1>18. ASSUME NEW c \in CPUs, NEW p \in Procs, Exit(c, p) PROVE NoNewWaiter
  <2>1. chan' = chan /\ \A q \in Procs \ {p} : sw'[q] = sw[q]
    BY <1>18 DEF Exit, TypeOK
  <2>2. Died(p)
    BY <1>18, ExitEffect
  <2>. QED
    BY <2>1, <2>2 DEF NoNewWaiter, Died
<1>19. ASSUME NEW c \in CPUs, NEW p \in Procs, WaitCall(c, p) PROVE NoNewWaiter
  BY <1>19 DEF WaitCall, Runs, NoNewWaiter, TypeOK
<1>20. ASSUME NEW c \in CPUs, NEW p \in Procs, WaitFail(c, p) PROVE NoNewWaiter
  BY <1>20 DEF WaitFail, Runs, NoNewWaiter, TypeOK
<1>21. ASSUME NEW c \in CPUs, NEW p \in Procs, NEW q \in Procs, WaitReap(c, p, q) PROVE NoNewWaiter
  BY <1>21 DEF WaitReap, NoNewWaiter, TypeOK
<1>22. ASSUME NEW c \in CPUs, NEW p \in Procs, NEW t \in KillPids, kill(c, p, t) PROVE NoNewWaiter
  BY <1>22 DEF kill, KilledState, NoNewWaiter, TypeOK
<1>23. ASSUME NEW c \in CPUs, NEW p \in Procs, Fault(c, p) PROVE NoNewWaiter
  BY <1>23 DEF Fault, NoNewWaiter, TypeOK
<1>24. ASSUME NEW ch \in Chans, Wakeup(ch) PROVE NoNewWaiter
  BY <1>24, Wakes DEF Wakeup, NoNewWaiter, TypeOK
<1>25. CASE UNCHANGED vars
  BY <1>25 DEF vars, NoNewWaiter
<1>. QED
  BY <1>1, <1>2, <1>3, <1>4, <1>5, <1>6, <1>7, <1>8, <1>9, <1>10, <1>11,
     <1>12, <1>13, <1>14, <1>15, <1>16, <1>17, <1>18, <1>19, <1>20, <1>21,
     <1>22, <1>23, <1>24, <1>25
     DEF Next, CpuStep, ProcessStep

\* The child of a fork stays private to it.
LEMMA ForkPrivateStep == IInv /\ [Next]_vars => ForkPrivate'
<1>. SUFFICES ASSUME IInv, [Next]_vars PROVE ForkPrivate'
  OBVIOUS
<1>. USE Basics DEF Alive
<1>. TypeOK
  BY DEF IInv
<1>. ForkPrivate
  BY DEF IInv
<1>. /\ state \in [Procs -> States] /\ parent \in [Procs -> Procs \cup {NULL}]
     /\ child \in [Procs -> Procs \cup {NULL}] /\ pc \in [Procs -> PCs]
     /\ \A p \in Procs : pc[p] \in {"fork", "forked"} <=> child[p] # NULL
  BY DEF TypeOK
<1>1. CASE Quiet
  <2>1. child' = child /\ parent' = parent
    BY <1>1 DEF Quiet
  <2>2. \A r \in Procs : child[r] # NULL => state'[child[r]] = "EMBRYO" /\ state'[r] \in Alive
    BY <1>1 DEF Quiet, ForkPrivate
  <2>3. \A r \in Procs : pc'[r] \in {"fork", "forked"} => pc'[r] = pc[r]
    BY <1>1 DEF Quiet
  <2>4. \A r \in Procs : state'[r] = "UNUSED" => state[r] = "UNUSED"
    BY <1>1 DEF Quiet
  <2>. QED
    BY <2>1, <2>2, <2>3, <2>4 DEF ForkPrivate
<1>2. ASSUME NEW c \in CPUs, NEW p \in Procs, NEW np \in Procs, ForkAlloc(c, p, np) PROVE ForkPrivate'
  BY <1>2, Runner DEF ForkAlloc, CanAlloc, Runs, First, ForkPrivate
<1>3. ASSUME NEW c \in CPUs, NEW p \in Procs, ForkFail(c, p) PROVE ForkPrivate'
  BY <1>3 DEF ForkFail, ForkPrivate
<1>4. ASSUME NEW c \in CPUs, NEW p \in Procs, ForkCopy(c, p) PROVE ForkPrivate'
  BY <1>4 DEF ForkCopy, ForkPrivate
<1>5. ASSUME NEW c \in CPUs, NEW p \in Procs, ForkPublish(c, p) PROVE ForkPrivate'
  BY <1>5 DEF ForkPublish, ForkPrivate
<1>6. ASSUME NEW c \in CPUs, NEW p \in Procs, Exit(c, p) PROVE ForkPrivate'
  <2>. Died(p)
    BY <1>6, ExitEffect
  <2>1. UNCHANGED <<pc, child>> /\ pc[p] = "exit"
    BY <1>6 DEF Exit
  <2>2. \A r \in Procs : parent[r] # p => parent'[r] = parent[r]
    BY DEF Died
  <2>4. \A r \in Procs : child[r] # NULL => state'[child[r]] = "EMBRYO" /\ state'[r] \in Alive
    BY DEF Died, ForkPrivate
  <2>5. \A r \in Procs : pc[r] \in {"fork", "forked"} => parent'[child[r]] = parent[child[r]]
    BY <2>1, <2>2 DEF ForkPrivate
  <2>3. \A r \in Procs : state'[r] = "UNUSED" => state[r] = "UNUSED"
    BY DEF Died
  <2>6. \A r \in Procs : state'[r] = "UNUSED" => parent'[r] = NULL
    BY <2>2, <2>3 DEF ForkPrivate
  <2>. QED
    BY <2>1, <2>4, <2>5, <2>6 DEF ForkPrivate
<1>7. ASSUME NEW c \in CPUs, NEW p \in Procs, NEW q \in Procs, WaitReap(c, p, q) PROVE ForkPrivate'
  <2>1. state[q] = "ZOMBIE" /\ child' = child
    BY <1>7 DEF WaitReap, First, Zombies
  <2>2. \A r \in Procs : child[r] # q /\ (child[r] # NULL => r # q)
    BY <2>1 DEF ForkPrivate
  <2>3. /\ \A r \in Procs \ {q} : state'[r] = state[r] /\ parent'[r] = parent[r]
        /\ parent'[q] = NULL
    BY <1>7 DEF WaitReap
  <2>4. \A r \in Procs : pc'[r] \in {"fork", "forked"} => pc'[r] = pc[r]
    BY <1>7 DEF WaitReap
  <2>5. \A r \in Procs : child[r] # NULL => state'[child[r]] = "EMBRYO" /\ state'[r] \in Alive
    BY <2>2, <2>3 DEF ForkPrivate
  <2>6. \A r \in Procs : child[r] # NULL => parent'[child[r]] = parent[child[r]]
    BY <2>2, <2>3
  <2>7. \A r \in Procs : state'[r] = "UNUSED" => parent'[r] = NULL
    BY <2>3 DEF ForkPrivate
  <2>. QED
    BY <2>1, <2>4, <2>5, <2>6, <2>7 DEF ForkPrivate
<1>. QED
  BY <1>1, <1>2, <1>3, <1>4, <1>5, <1>6, <1>7, QuietStep DEF Turnover

\* The first process lives on.
LEMMA InitAliveStep == IInv /\ [Next]_vars => InitAlive'
<1>. SUFFICES ASSUME IInv, [Next]_vars PROVE InitAlive'
  OBVIOUS
<1>. USE Basics DEF Alive
<1>. TypeOK
  BY DEF IInv
<1>. InitAlive /\ ForkPrivate
  BY DEF IInv
<1>1. CASE Quiet
  BY <1>1 DEF Quiet, InitAlive
<1>2. ASSUME NEW c \in CPUs, NEW p \in Procs, NEW np \in Procs, ForkAlloc(c, p, np) PROVE InitAlive'
  BY <1>2 DEF ForkAlloc, CanAlloc, First, InitAlive, TypeOK
<1>3. ASSUME NEW c \in CPUs, NEW p \in Procs, ForkFail(c, p) PROVE InitAlive'
  BY <1>3 DEF ForkFail, InitAlive, ForkPrivate, TypeOK
<1>4. ASSUME NEW c \in CPUs, NEW p \in Procs, ForkCopy(c, p) PROVE InitAlive'
  BY <1>4, Runner DEF ForkCopy, Runs, InitAlive, ForkPrivate, TypeOK
<1>5. ASSUME NEW c \in CPUs, NEW p \in Procs, ForkPublish(c, p) PROVE InitAlive'
  BY <1>5 DEF ForkPublish, InitAlive, ForkPrivate, TypeOK
<1>6. ASSUME NEW c \in CPUs, NEW p \in Procs, Exit(c, p) PROVE InitAlive'
  <2>1. pc' = pc /\ p # initproc
    BY <1>6 DEF Exit, InitAlive
  <2>2. Died(p)
    BY <1>6, ExitEffect
  <2>3. state'[initproc] \in Alive
    BY <2>1, <2>2 DEF Died, InitAlive
  <2>4. \A r \in Procs : parent'[r] = parent[r] \/ (parent[r] = p /\ parent'[r] = initproc)
    BY <2>2 DEF Died
  <2>. QED
    BY <2>1, <2>3, <2>4 DEF InitAlive
<1>7. ASSUME NEW c \in CPUs, NEW p \in Procs, NEW q \in Procs, WaitReap(c, p, q) PROVE InitAlive'
  BY <1>7 DEF WaitReap, First, Zombies, Children, InitAlive, TypeOK
<1>. QED
  BY <1>1, <1>2, <1>3, <1>4, <1>5, <1>6, <1>7, QuietStep DEF Turnover

\* Every process keeps a living parent.
LEMMA ParentStep == IInv /\ [Next]_vars => ParentAlive'
<1>. SUFFICES ASSUME IInv, [Next]_vars PROVE ParentAlive'
  OBVIOUS
<1>. USE Basics DEF Alive
<1>. TypeOK
  BY DEF IInv
<1>. ParentAlive /\ ForkPrivate /\ InitAlive
  BY DEF IInv
<1>. /\ state \in [Procs -> States] /\ parent \in [Procs -> Procs \cup {NULL}]
     /\ child \in [Procs -> Procs \cup {NULL}] /\ pc \in [Procs -> PCs]
     /\ \A p \in Procs : pc[p] \in {"fork", "forked"} <=> child[p] # NULL
  BY DEF TypeOK
<1>1. CASE Quiet
  BY <1>1 DEF Quiet, ParentAlive
<1>2. ASSUME NEW c \in CPUs, NEW p \in Procs, NEW np \in Procs, ForkAlloc(c, p, np) PROVE ParentAlive'
  BY <1>2 DEF ForkAlloc, CanAlloc, First, ParentAlive
<1>3. ASSUME NEW c \in CPUs, NEW p \in Procs, ForkFail(c, p) PROVE ParentAlive'
  BY <1>3 DEF ForkFail, ParentAlive, ForkPrivate
<1>4. ASSUME NEW c \in CPUs, NEW p \in Procs, ForkCopy(c, p) PROVE ParentAlive'
  BY <1>4 DEF ForkCopy, ParentAlive, ForkPrivate
<1>5. ASSUME NEW c \in CPUs, NEW p \in Procs, ForkPublish(c, p) PROVE ParentAlive'
  BY <1>5, Runner DEF ForkPublish, Runs, ParentAlive, ForkPrivate
<1>6. ASSUME NEW c \in CPUs, NEW p \in Procs, Exit(c, p) PROVE ParentAlive'
  <2>1. p # initproc /\ state[initproc] \in Alive
    BY <1>6 DEF Exit, InitAlive
  <2>2. Died(p)
    BY <1>6, ExitEffect
  <2>3. \A r \in Procs \ {p} : state[r] \in Alive => state'[r] \in Alive
    BY <2>2 DEF Died
  <2>4. \A r \in Procs : state'[r] \notin {"UNUSED", "EMBRYO"} => state[r] \notin {"UNUSED", "EMBRYO"}
    BY <2>2 DEF Died
  <2>5. \A r \in Procs : parent'[r] = IF parent[r] = p THEN initproc ELSE parent[r]
    BY <2>2 DEF Died
  <2>. SUFFICES ASSUME NEW r \in Procs \ {initproc}, state'[r] \notin {"UNUSED", "EMBRYO"}
                PROVE  parent'[r] # NULL /\ state'[parent'[r]] \in Alive
    BY DEF ParentAlive
  <2>6. parent[r] \in Procs /\ state[parent[r]] \in Alive
    BY <2>4 DEF ParentAlive
  <2>7. CASE parent[r] = p
    BY <2>1, <2>3, <2>5, <2>7
  <2>8. CASE parent[r] # p
    BY <2>3, <2>5, <2>6, <2>8
  <2>. QED
    BY <2>7, <2>8
<1>7. ASSUME NEW c \in CPUs, NEW p \in Procs, NEW q \in Procs, WaitReap(c, p, q) PROVE ParentAlive'
  BY <1>7 DEF WaitReap, First, Zombies, Children, ParentAlive
<1>. QED
  BY <1>1, <1>2, <1>3, <1>4, <1>5, <1>6, <1>7, QuietStep DEF Turnover

\* Whoever sleeps in wait() sleeps on itself.
LEMMA WaitChannelStep == IInv /\ [Next]_vars => WaitChannel'
<1>. SUFFICES ASSUME IInv, [Next]_vars PROVE WaitChannel'
  OBVIOUS
<1>. TypeOK /\ WaitChannel
  BY DEF IInv
<1>1. CASE NoNewWaiter
  BY <1>1 DEF NoNewWaiter, WaitChannel
<1>2. ASSUME NEW c \in CPUs, NEW p \in Procs, WaitSleep(c, p) PROVE WaitChannel'
  BY <1>2 DEF WaitSleep, WaitChannel, TypeOK
<1>. QED
  BY <1>1, <1>2, WaiterStep

\* If r stays asleep in wait(), it keeps its children, and none of them dies.
Kept(r) ==
  /\ \A q \in Procs : parent[q] = r => parent'[q] = r
  /\ \A q \in Procs : parent'[q] = r => state'[q] # "ZOMBIE"

\* No step takes a child away from a process that stays asleep in wait(), or
\* leaves it a dead one.
LEMMA KeptStep ==
  ASSUME IInv, [Next]_vars, NEW r \in Procs, state[r] = "SLEEPING", sw[r] = "wait",
         state'[r] = "SLEEPING"
  PROVE  Kept(r)
<1>. USE Basics DEF Alive
<1>. TypeOK /\ ForkPrivate
  BY DEF IInv
<1>. /\ state \in [Procs -> States] /\ parent \in [Procs -> Procs \cup {NULL}]
     /\ child \in [Procs -> Procs \cup {NULL}] /\ pc \in [Procs -> PCs]
     /\ \A p \in Procs : pc[p] \in {"fork", "forked"} <=> child[p] # NULL
  BY DEF TypeOK
<1>. chan[r] = r /\ \A q \in Procs : parent[q] = r => state[q] # "ZOMBIE"
  BY DEF IInv, WaitChannel, NoMissedExit, Zombies, Children
<1>1. CASE Quiet
  BY <1>1 DEF Quiet, Kept
<1>2. ASSUME NEW c \in CPUs, NEW p \in Procs, NEW np \in Procs, ForkAlloc(c, p, np) PROVE Kept(r)
  BY <1>2 DEF ForkAlloc, CanAlloc, First, Kept
<1>3. ASSUME NEW c \in CPUs, NEW p \in Procs, ForkFail(c, p) PROVE Kept(r)
  BY <1>3 DEF ForkFail, Kept, ForkPrivate
<1>4. ASSUME NEW c \in CPUs, NEW p \in Procs, ForkCopy(c, p) PROVE Kept(r)
  <2>1. p # r
    BY <1>4, Runner DEF ForkCopy, Runs
  <2>2. pc[p] = "fork" /\ state' = state
    BY <1>4 DEF ForkCopy
  <2>3. child[p] \in Procs
    BY <2>2
  <2>4. parent[child[p]] = NULL
    BY <2>2 DEF ForkPrivate
  <2>5. parent'[child[p]] = p /\ \A q \in Procs \ {child[p]} : parent'[q] = parent[q]
    BY <1>4, <2>3 DEF ForkCopy
  <2>. QED
    BY <2>1, <2>2, <2>4, <2>5 DEF Kept
<1>5. ASSUME NEW c \in CPUs, NEW p \in Procs, ForkPublish(c, p) PROVE Kept(r)
  BY <1>5 DEF ForkPublish, Kept, ForkPrivate
<1>6. ASSUME NEW c \in CPUs, NEW p \in Procs, Exit(c, p) PROVE Kept(r)
  <2>. Died(p)
    BY <1>6, ExitEffect
  <2>1. r # p
    BY DEF Died
  <2>2. state'[r] = "SLEEPING" => r # parent[p] /\ (r = initproc => Zombies(p) = {})
    BY <2>1 DEF Died
  <2>3. \A q \in Procs : parent[q] = r => parent'[q] = r
    BY <2>1 DEF Died
  <2>4. \A q \in Procs : parent'[q] = r /\ parent[q] # r => parent[q] = p /\ r = initproc
    BY DEF Died
  <2>5. \A q \in Procs : state'[q] = "ZOMBIE" => q = p \/ state[q] = "ZOMBIE"
    BY DEF Died
  <2>6. parent[p] # p
    BY DEF IInv, InitAlive
  <2>. QED
    BY <2>2, <2>3, <2>4, <2>5, <2>6 DEF Kept, Zombies, Children
<1>7. ASSUME NEW c \in CPUs, NEW p \in Procs, NEW q \in Procs, WaitReap(c, p, q) PROVE Kept(r)
  BY <1>7 DEF WaitReap, First, Kept, Zombies, Children
<1>. QED
  BY <1>1, <1>2, <1>3, <1>4, <1>5, <1>6, <1>7, QuietStep DEF Turnover

\* Every action preserves NoMissedExit.
LEMMA MissedExitStep == IInv /\ [Next]_vars => NoMissedExit'
<1>. SUFFICES ASSUME IInv, [Next]_vars, NEW r \in Procs, state'[r] = "SLEEPING", sw'[r] = "wait"
              PROVE  Children(r)' # {} /\ Zombies(r)' = {}
  BY DEF NoMissedExit
<1>. TypeOK
  BY DEF IInv
<1>1. CASE state[r] = "SLEEPING" /\ sw[r] = "wait"
  <2>1. Kept(r)
    BY <1>1, KeptStep
  <2>2. Children(r) # {}
    BY <1>1 DEF IInv, NoMissedExit
  <2>. QED
    BY <2>1, <2>2 DEF Kept, Children, Zombies
<1>2. ASSUME NEW c \in CPUs, NEW p \in Procs, WaitSleep(c, p), ~(state[r] = "SLEEPING" /\ sw[r] = "wait")
      PROVE  Children(r)' # {} /\ Zombies(r)' = {}
  <2>1. r = p
    BY <1>2 DEF WaitSleep, TypeOK
  <2>2. parent' = parent /\ \A q \in Procs : state'[q] = "ZOMBIE" => state[q] = "ZOMBIE"
    BY <1>2 DEF WaitSleep, TypeOK
  <2>3. Children(r) # {} /\ Zombies(r) = {}
    BY <1>2, <2>1 DEF WaitSleep
  <2>. QED
    BY <2>2, <2>3 DEF Children, Zombies
<1>. QED
  BY <1>1, <1>2, WaiterStep DEF NoNewWaiter

\* The pids stay distinct and below the counter.
LEMMA PidStep == IInv /\ [Next]_vars => (UniquePid /\ PidBelowNext /\ nextpid > 0)'
<1>. SUFFICES ASSUME IInv, [Next]_vars PROVE (UniquePid /\ PidBelowNext /\ nextpid > 0)'
  OBVIOUS
<1>. USE Basics
<1>. TypeOK
  BY DEF IInv
<1>. UniquePid /\ PidBelowNext /\ nextpid > 0
  BY DEF IInv
<1>1. CASE Quiet
  BY <1>1 DEF Quiet, UniquePid, PidBelowNext
<1>2. ASSUME NEW c \in CPUs, NEW p \in Procs, NEW np \in Procs, ForkAlloc(c, p, np) PROVE (UniquePid /\ PidBelowNext /\ nextpid > 0)'
  BY <1>2 DEF ForkAlloc, NextPid, TypeOK, UniquePid, PidBelowNext
<1>3. ASSUME NEW c \in CPUs, NEW p \in Procs, ForkFail(c, p) PROVE (UniquePid /\ PidBelowNext /\ nextpid > 0)'
  BY <1>3 DEF ForkFail, UniquePid, PidBelowNext
<1>4. ASSUME NEW c \in CPUs, NEW p \in Procs, ForkCopy(c, p) PROVE (UniquePid /\ PidBelowNext /\ nextpid > 0)'
  BY <1>4 DEF ForkCopy, UniquePid, PidBelowNext
<1>5. ASSUME NEW c \in CPUs, NEW p \in Procs, ForkPublish(c, p) PROVE (UniquePid /\ PidBelowNext /\ nextpid > 0)'
  BY <1>5 DEF ForkPublish, UniquePid, PidBelowNext
<1>6. ASSUME NEW c \in CPUs, NEW p \in Procs, Exit(c, p) PROVE (UniquePid /\ PidBelowNext /\ nextpid > 0)'
  BY <1>6 DEF Exit, UniquePid, PidBelowNext
<1>7. ASSUME NEW c \in CPUs, NEW p \in Procs, NEW q \in Procs, WaitReap(c, p, q) PROVE (UniquePid /\ PidBelowNext /\ nextpid > 0)'
  BY <1>7 DEF WaitReap, TypeOK, UniquePid, PidBelowNext
<1>. QED
  BY <1>1, <1>2, <1>3, <1>4, <1>5, <1>6, <1>7, QuietStep DEF Turnover

\* A step changes the state of a ZOMBIE only as ReapStep says.
LEMMA Reaping == IInv /\ [Next]_vars => ReapStep
<1>. SUFFICES ASSUME IInv, [Next]_vars PROVE ReapStep
  OBVIOUS
<1>. USE Basics DEF Alive
<1>. TypeOK
  BY DEF IInv
<1>. ForkPrivate
  BY DEF IInv
<1>. /\ state \in [Procs -> States] /\ child \in [Procs -> Procs \cup {NULL}]
     /\ \A p \in Procs : pc[p] \in {"fork", "forked"} <=> child[p] # NULL
  BY DEF TypeOK
<1>1. CASE Quiet
  BY <1>1 DEF Quiet, ReapStep
<1>2. ASSUME NEW c \in CPUs, NEW p \in Procs, NEW np \in Procs, ForkAlloc(c, p, np) PROVE ReapStep
  BY <1>2 DEF ForkAlloc, CanAlloc, First, ReapStep
<1>3. ASSUME NEW c \in CPUs, NEW p \in Procs, ForkFail(c, p) PROVE ReapStep
  <2>1. pc[p] \in {"fork", "forked"}
    BY <1>3 DEF ForkFail
  <2>2. child[p] \in Procs /\ state[child[p]] = "EMBRYO"
    BY <2>1 DEF ForkPrivate
  <2>3. \A q \in Procs \ {child[p]} : state'[q] = state[q]
    BY <1>3 DEF ForkFail
  <2>. QED
    BY <2>2, <2>3 DEF ReapStep
<1>4. ASSUME NEW c \in CPUs, NEW p \in Procs, ForkCopy(c, p) PROVE ReapStep
  BY <1>4 DEF ForkCopy, ReapStep
<1>5. ASSUME NEW c \in CPUs, NEW p \in Procs, ForkPublish(c, p) PROVE ReapStep
  <2>1. pc[p] \in {"fork", "forked"}
    BY <1>5 DEF ForkPublish
  <2>2. child[p] \in Procs /\ state[child[p]] = "EMBRYO"
    BY <2>1 DEF ForkPrivate
  <2>3. \A q \in Procs \ {child[p]} : state'[q] = state[q]
    BY <1>5 DEF ForkPublish
  <2>. QED
    BY <2>2, <2>3 DEF ReapStep
<1>6. ASSUME NEW c \in CPUs, NEW p \in Procs, Exit(c, p) PROVE ReapStep
  BY <1>6, ExitEffect DEF Died, ReapStep
<1>7. ASSUME NEW c \in CPUs, NEW p \in Procs, NEW q \in Procs, WaitReap(c, p, q) PROVE ReapStep
  BY <1>7 DEF WaitReap, First, Zombies, Children, ReapStep
<1>. QED
  BY <1>1, <1>2, <1>3, <1>4, <1>5, <1>6, <1>7, QuietStep DEF Turnover

\* The initial states satisfy IInv.
LEMMA InitIInv == Init => IInv
<1>. SUFFICES ASSUME Init PROVE IInv
  OBVIOUS
<1>. USE Basics DEF Init
<1>1. TypeOK
  BY DEF TypeOK, States, PCs, SWs
<1>2. StackExclusive /\ RunningCode
  BY DEF StackExclusive, RunningCode
<1>3. ForkPrivate /\ InitAlive /\ ParentAlive
  BY DEF ForkPrivate, InitAlive, ParentAlive, Alive
<1>4. WaitChannel /\ NoMissedExit
  BY DEF WaitChannel, NoMissedExit
<1>5. UniquePid /\ PidBelowNext /\ nextpid > 0
  BY DEF UniquePid, PidBelowNext
<1>. QED
  BY <1>1, <1>2, <1>3, <1>4, <1>5 DEF IInv

\* IInv is an inductive invariant of the process table.
THEOREM Inductive == Spec => []IInv
<1>1. IInv /\ [Next]_vars => IInv'
  BY TypeStep, RunningCodeStep, StackStep, ForkPrivateStep, InitAliveStep, ParentStep,
     WaitChannelStep, MissedExitStep, PidStep DEF IInv
<1>. QED
  BY InitIInv, <1>1, PTL DEF Spec

\* Every variable of the process table keeps its type, and np is set exactly
\* inside fork().
THEOREM TypeCorrect == Spec => []TypeOK
<1>1. IInv => TypeOK
  BY DEF IInv
<1>. QED
  BY <1>1, Inductive, PTL

\* However many CPUs schedule and however their steps interleave, no two run
\* on one kernel stack, and no stack is freed or dispatched while in use.
THEOREM OneCpuPerStack == Spec => []StackExclusive
<1>1. IInv => StackExclusive
  BY DEF IInv
<1>. QED
  BY <1>1, Inductive, PTL

\* exit() leaves no process without a living parent to wait for it.
THEOREM ParentsLive == Spec => []ParentAlive
<1>1. IInv => ParentAlive
  BY DEF IInv
<1>. QED
  BY <1>1, Inductive, PTL

\* No wakeup of a parent asleep in wait() is ever lost.
THEOREM NoExitMissed == Spec => []NoMissedExit
<1>1. IInv => NoMissedExit
  BY DEF IInv
<1>. QED
  BY <1>1, Inductive, PTL

\* A ZOMBIE stays one until its parent's wait() frees the slot.
THEOREM ZombiesReaped == Spec => ZombieUntilReaped
<1>1. IInv /\ [Next]_vars => [ReapStep]_vars
  BY Reaping
<1>. QED
  BY <1>1, Inductive, PTL DEF Spec, ZombieUntilReaped

\* pids are unique among all slots.
THEOREM PidsUnique == Spec => []UniquePid
<1>1. IInv => UniquePid
  BY DEF IInv
<1>. QED
  BY <1>1, Inductive, PTL

=============================================================================
