--------------------------- MODULE ChildRecords ---------------------------
(***************************************************************************)
(* The records that exit() leaves in the struct proc of the parent, which  *)
(* getChildSize and getAllChilds*time return: four arrays of Entries ints, *)
(* then allChildSize, then piority, then the next slot of the table.       *)
(*                                                                         *)
(* Entry j of the four arrays is one record, the pid of the child it is    *)
(* about; a record that was written over in part is Mixed.  exit() does    *)
(* not test allChildSize: its stores run on into the fields that follow.   *)
(***************************************************************************)
EXTENDS ProcTable, Sequences

CONSTANTS Entries, Mixed   \* Entries: 64 in the code

ASSUME RecordsAssumption == Entries \in Nat \ {0} /\ Mixed \notin Nat

VARIABLES
  records,       \* childCTime, childRTime, childETime, childPiority
  allChildSize,
  harmed,        \* history: other fields that exit() stored to, since allocproc
  exited         \* history: the children that exited, since allocproc

recordVars == <<records, allChildSize, harmed, exited>>

RecordsInit ==
  /\ Init
  /\ records = [p \in Procs |-> [j \in 0 .. Entries - 1 |-> 0]]
  /\ allChildSize = [p \in Procs |-> 0]
  /\ harmed = [p \in Procs |-> {}]
  /\ exited = [p \in Procs |-> <<>>]

\* What the four stores at index k do to the records of one parent: beyond
\* the arrays, the stores to three of them fall into the next array.
Stored(r, k, who) ==
  IF k < Entries THEN [r EXCEPT ![k] = who]
  ELSE IF k - Entries < Entries THEN [r EXCEPT ![k - Entries] = Mixed] ELSE r

\* The field that the store to childPiority[k] hits.
Hit(k) ==
  CASE k < Entries     -> {}
    [] k = Entries     -> {"allChildSize"}
    [] k = Entries + 1 -> {"piority"}
    [] OTHER           -> {"next slot"}

\* allChildSize++ after the stores.  If one of them hit allChildSize, the
\* compiler may have kept the old value in a register, or load the priority
\* (0 .. 2) that was stored.
NewSizes(k) == IF k = Entries THEN {k + 1} \cup {pr + 1 : pr \in 0 .. 2} ELSE {k + 1}

ExitRecord(c, p) ==
  LET q == parent[p]
      k == allChildSize[q]
  IN /\ Exit(c, p)
     /\ records' = [records EXCEPT ![q] = Stored(@, k, pid[p])]
     /\ \E s \in NewSizes(k) : allChildSize' = [allChildSize EXCEPT ![q] = s]
     /\ harmed' = [harmed EXCEPT ![q] = @ \cup Hit(k)]
     /\ exited' = [exited EXCEPT ![q] = Append(@, pid[p])]

\* Mutant of AllocRecord: the counter of the slot's last process is kept.
AllocRecord_keep(c, p, np) ==
  /\ ForkAlloc(c, p, np)
  /\ exited' = [exited EXCEPT ![np] = <<>>]
  /\ UNCHANGED <<records, allChildSize, harmed>>

\* allocproc resets the counter, not the records themselves.
AllocRecord(c, p, np) ==
  /\ ForkAlloc(c, p, np)
  /\ allChildSize' = [allChildSize EXCEPT ![np] = 0]
  /\ harmed' = [harmed EXCEPT ![np] = {}]
  /\ exited' = [exited EXCEPT ![np] = <<>>]
  /\ UNCHANGED records

\* The workload: processes fork, exit and wait, and are preempted.
RecordsStep(c, p) ==
  \/ ExitRecord(c, p)
  \/ \E np \in Procs : AllocRecord(c, p, np)
  \/ /\ \/ Dispatch(c, p) \/ sched(c, p) \/ Resume(c, p) \/ ResumeWait(c, p)
        \/ Timer(c, p) \/ Yield(c, p)
        \/ ForkCopy(c, p) \/ ForkPublish(c, p) \/ ExitCall(c, p)
        \/ WaitCall(c, p) \/ WaitFail(c, p) \/ WaitSleep(c, p)
        \/ \E q \in Procs : WaitReap(c, p, q)
     /\ UNCHANGED recordVars

RecordsNext ==
  /\ ~panicked
  /\ \E c \in CPUs :
       \/ (SchedAcquire(c) \/ SchedBack(c) \/ SchedRelease(c)) /\ UNCHANGED recordVars
       \/ \E p \in Procs : RecordsStep(c, p)

RecordsSpec == RecordsInit /\ [][RecordsNext]_<<vars, recordVars>>

-----------------------------------------------------------------------------
(* Properties *)

Live(p) == state[p] \in {"RUNNABLE", "RUNNING", "SLEEPING"}

\* Until the arrays are full, the records that getChildSize counts are those
\* of the children of the process itself, in the order in which they exited:
\* neither the reuse of its slot nor the adoption of children by init (whose
\* records were begun in another parent) mixes them up.
RecordsMine ==
  \A p \in Procs : Live(p) /\ harmed[p] = {} =>
    /\ allChildSize[p] = Len(exited[p])
    /\ \A j \in 1 .. Len(exited[p]) : records[p][j - 1] = exited[p][j]

\* exit() stores nothing outside the records of the parent.
RecordsInBounds == \A p \in Procs : harmed[p] = {}

=============================================================================
