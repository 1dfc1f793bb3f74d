------------------------- MODULE LogSpaceProofs -------------------------
(***************************************************************************)
(* Proofs about the reservations of log.c, for any number of processes and *)
(* any sizes.  The sum of what the calls in progress may still add is the  *)
(* cardinality of a set: Left has one element for each block that a call   *)
(* has reserved and not used.                                              *)
(***************************************************************************)
EXTENDS LogSpace, FiniteSetTheorems, TLAPS

\* The calls between begin_op and end_op.
Active == {o \in Ops : at[o] \in {"active", "add", "absorb"}}

\* The unused part of the reservations.
Left == {t \in Active \X (1 .. MAXOPBLOCKS) : t[2] > used[t[1]]}

\* log.outstanding counts the calls in progress.
Counted == outstanding = Cardinality(Active)

\* Who commits, and when the log is empty.
Discipline ==
  /\ booting => ~committing /\ \A o \in Ops : at[o] = "idle"
  /\ \A o \in Ops : at[o] = "commit" => committing
  /\ committing => Active = {} /\ \E o \in Ops : at[o] = "commit"
  /\ \A o, p \in Ops : at[o] = "commit" /\ at[p] = "commit" => o = p
  /\ Active = {} /\ ~committing /\ ~booting => n = 0
  /\ \A o \in Ops : at[o] = "add" => used[o] < OpBlocks

\* What is in the log and what is reserved fit together; the last call, and
\* the commit after it, leave one entry unused.
Room ==
  /\ n + Cardinality(Left) <= LOGSIZE
  /\ Cardinality(Active) <= 1 => n + Cardinality(Left) <= LOGSIZE - 1

SpaceIInv ==
  /\ SpaceTypeOK /\ Counted /\ Discipline /\ Room
  /\ SleeperHasWaker /\ NoPanic

-----------------------------------------------------------------------------
(* Facts about the two sets. *)

\* Both sets are finite, and a call has at most its reservation left.
LEMMA Sizes ==
  ASSUME SpaceTypeOK
  PROVE  /\ IsFiniteSet(Active) /\ Cardinality(Active) \in Nat
         /\ IsFiniteSet(Left) /\ Cardinality(Left) \in Nat
         /\ Cardinality(Left) <= Cardinality(Active) * MAXOPBLOCKS
         /\ Active = {} <=> Cardinality(Active) = 0
<1>1. IsFiniteSet(Active) /\ Cardinality(Active) \in Nat
  <2>1. Active \in SUBSET Ops
    BY DEF Active
  <2>. QED
    BY <2>1, LogSpaceAssumption, FS_Subset, FS_CardinalityType
<1>2. IsFiniteSet(1 .. MAXOPBLOCKS) /\ Cardinality(1 .. MAXOPBLOCKS) = MAXOPBLOCKS
  BY LogSpaceAssumption, FS_Interval
<1>3. /\ IsFiniteSet(Active \X (1 .. MAXOPBLOCKS))
      /\ Cardinality(Active \X (1 .. MAXOPBLOCKS)) = Cardinality(Active) * MAXOPBLOCKS
  BY <1>1, <1>2, FS_Product
<1>4. Left \in SUBSET (Active \X (1 .. MAXOPBLOCKS))
  BY DEF Left
<1>5. IsFiniteSet(Left) /\ Cardinality(Left) <= Cardinality(Active) * MAXOPBLOCKS
  BY <1>3, <1>4, FS_Subset
<1>. QED
  BY <1>1, <1>5, FS_CardinalityType, FS_EmptySet

\* With no call in progress nothing is reserved.
LEMMA NothingLeft ==
  ASSUME Active = {}
  PROVE  Cardinality(Active) = 0 /\ Cardinality(Left) = 0
<1>1. Left = {}
  BY DEF Left
<1>. QED
  BY <1>1, FS_EmptySet

\* The last block of the reservation of a call is never used.
LEMMA Spare ==
  ASSUME Sized, SpaceTypeOK, NEW o \in Active
  PROVE  <<o, MAXOPBLOCKS>> \in Left
BY LogSpaceAssumption DEF Sized, SpaceTypeOK, Active, Left

\* While a call is in progress, two entries of the log are free.
LEMMA TwoFree ==
  ASSUME Sized, SpaceIInv, NEW o \in Active
  PROVE  n <= LOGSIZE - 2
<1>. USE DEF SpaceIInv
<1>1. <<o, MAXOPBLOCKS>> \in Left
  BY Spare
<1>2. IsFiniteSet(Left) /\ Cardinality(Left) \in Nat /\ IsFiniteSet(Active)
      /\ Cardinality(Active) \in Nat
  BY Sizes
<1>3. Cardinality(Left) >= 1
  BY <1>1, <1>2, FS_EmptySet
<1>4. CASE Cardinality(Active) <= 1
  BY <1>2, <1>3, <1>4, LogSpaceAssumption DEF Room, SpaceTypeOK
<1>5. CASE Cardinality(Active) > 1
  <2>1. PICK p \in Active : p # o
    <3>1. Active # {o}
      BY <1>2, <1>5, FS_Singleton
    <3>. QED
      BY <3>1
  <2>2. <<p, MAXOPBLOCKS>> \in Left \ {<<o, MAXOPBLOCKS>>}
    BY <2>1, Spare
  <2>3. IsFiniteSet(Left \ {<<o, MAXOPBLOCKS>>})
        /\ Cardinality(Left \ {<<o, MAXOPBLOCKS>>}) = Cardinality(Left) - 1
    BY <1>1, <1>2, FS_RemoveElement
  <2>4. Cardinality(Left) - 1 # 0
    BY <2>2, <2>3, FS_EmptySet
  <2>. QED
    BY <1>2, <1>3, <2>4, LogSpaceAssumption DEF Room, SpaceTypeOK
<1>. QED
  BY <1>2, <1>4, <1>5

\* The call in progress is the only one exactly if outstanding is 1.
LEMMA LastCall ==
  ASSUME SpaceTypeOK, Counted, NEW o \in Active
  PROVE  /\ outstanding >= 1
         /\ outstanding = 1 <=> Active = {o}
<1>1. IsFiniteSet(Active) /\ Cardinality(Active) \in Nat /\ Cardinality(Active) # 0
  BY Sizes
<1>2. Cardinality(Active) = 1 <=> \E x : Active = {x}
  BY <1>1, FS_Singleton
<1>. QED
  BY <1>1, <1>2 DEF Counted

-----------------------------------------------------------------------------
(* Each step keeps the invariant. *)

\* A step that changes neither the log nor the calls in progress.
LEMMA SameCalls ==
  ASSUME SpaceIInv, Active' = Active, UNCHANGED <<outstanding, used>>, n' = n
  PROVE  Counted' /\ Room'
<1>1. Left' = Left
  BY DEF Left
<1>. QED
  BY <1>1 DEF SpaceIInv, Counted, Room

\* begin_op: an admitted call finds its reservation within LOGSIZE, and a call
\* that is not admitted finds somebody to wake it.
LEMMA BeginStep ==
  ASSUME Sized, SpaceIInv, NEW o \in Ops, begin_op(o)
  PROVE  SpaceIInv'
<1>. USE LogSpaceAssumption DEF SpaceIInv
<1>1. SpaceTypeOK' /\ NoPanic' /\ ~booting /\ ~booting' /\ o \notin Active
  BY DEF SpaceTypeOK, begin_op, Places, NoPanic, Active
<1>2. CASE Admits
  <2>1. Active' = Active \cup {o} /\ o \in Active'
    BY <1>2 DEF begin_op, Active, SpaceTypeOK
  <2>2. Cardinality(Active') = Cardinality(Active) + 1
    BY <1>1, <2>1, Sizes, FS_AddElement
  <2>3. Counted'
    BY <1>2, <2>2 DEF Counted, begin_op
  <2>4. Discipline'
    BY <1>1, <1>2, <2>1 DEF Discipline, begin_op, SpaceTypeOK, Admits
  <2>5. Cardinality(Left') \in Nat /\ Cardinality(Left') <= (outstanding + 1) * MAXOPBLOCKS
    <3>1. (SpaceTypeOK => /\ Cardinality(Left) \in Nat
                          /\ Cardinality(Left) <= Cardinality(Active) * MAXOPBLOCKS)'
      BY Sizes, PTL
    <3>. QED
      BY <1>1, <2>2, <3>1 DEF Counted
  <2>6. n + Cardinality(Left') <= LOGSIZE
    BY <1>2, <2>5 DEF Admits, SpaceTypeOK
  <2>7. Cardinality(Active') <= 1 => n = 0 /\ Cardinality(Left') <= MAXOPBLOCKS
    <3>. SUFFICES ASSUME Cardinality(Active') <= 1
                  PROVE  n = 0 /\ Cardinality(Left') <= MAXOPBLOCKS
      OBVIOUS
    <3>1. Cardinality(Active) = 0 /\ outstanding = 0
      BY <2>2, Sizes DEF Counted
    <3>. QED
      BY <1>1, <1>2, <2>5, <3>1, Sizes DEF Admits, Discipline
  <2>8. Room'
    BY <2>5, <2>6, <2>7 DEF Room, Sized, begin_op
  <2>9. SleeperHasWaker'
    BY <2>1 DEF SleeperHasWaker, Active
  <2>. QED
    BY <1>1, <2>3, <2>4, <2>8, <2>9
<1>3. CASE ~Admits
  <2>1. Active' = Active
    BY <1>3 DEF begin_op, Active, SpaceTypeOK
  <2>2. \A p \in Active : used'[p] = used[p]
    BY <1>1 DEF begin_op, SpaceTypeOK, Active
  <2>3. Left' = Left
    BY <2>1, <2>2 DEF Left
  <2>4. Counted' /\ Room'
    BY <1>3, <2>1, <2>3 DEF Counted, Room, begin_op
  <2>5. Discipline'
    BY <1>1, <1>3, <2>1 DEF Discipline, begin_op, SpaceTypeOK
  <2>6. committing \/ Active # {}
    <3>. SUFFICES ASSUME ~committing, Active = {} PROVE FALSE
      OBVIOUS
    <3>1. n = 0 /\ outstanding = 0
      BY <1>1, Sizes DEF Discipline, Counted
    <3>. QED
      BY <1>3, <3>1 DEF Admits, Sized
  <2>7. SleeperHasWaker'
    BY <1>3, <2>1, <2>5, <2>6 DEF SleeperHasWaker, Active, Discipline, begin_op
  <2>. QED
    BY <1>1, <2>4, <2>5, <2>7
<1>. QED
  BY <1>2, <1>3

\* The first half of log_write: there is room, so no panic.
LEMMA CheckStep ==
  ASSUME Sized, SpaceIInv, NEW o \in Ops, NEW fresh \in BOOLEAN, LogWriteCheck(o, fresh)
  PROVE  SpaceIInv'
<1>. USE LogSpaceAssumption DEF SpaceIInv
<1>1. o \in Active
  BY DEF LogWriteCheck, Active
<1>2. n <= LOGSIZE - 2 /\ outstanding >= 1
  BY <1>1, TwoFree, LastCall
<1>3. /\ at' = [at EXCEPT ![o] = IF fresh THEN "add" ELSE "absorb"]
      /\ UNCHANGED <<countVars, used, booting, panicked>>
  BY <1>2 DEF LogWriteCheck, Sized, SpaceTypeOK
<1>4. SpaceTypeOK' /\ NoPanic' /\ Active' = Active
  BY <1>1, <1>3 DEF SpaceTypeOK, countVars, Places, NoPanic, Active
<1>5. Counted' /\ Room'
  BY <1>3, <1>4, SameCalls DEF countVars
<1>6. Discipline'
  BY <1>3, <1>4 DEF Discipline, countVars, LogWriteCheck, SpaceTypeOK
<1>7. SleeperHasWaker'
  BY <1>1, <1>4 DEF SleeperHasWaker, Active
<1>. QED
  BY <1>4, <1>5, <1>6, <1>7

\* The second half of log_write turns a reserved entry into a used one.
LEMMA AddStep ==
  ASSUME Sized, SpaceIInv, NEW o \in Ops, LogWriteAdd(o)
  PROVE  SpaceIInv'
<1>. USE LogSpaceAssumption DEF SpaceIInv
<1>1. SpaceTypeOK' /\ NoPanic' /\ o \in Active /\ Active' = Active
  BY DEF LogWriteAdd, SpaceTypeOK, Places, NoPanic, Active, Discipline
<1>2. Discipline'
  BY <1>1 DEF Discipline, LogWriteAdd, SpaceTypeOK
<1>3. SleeperHasWaker'
  BY <1>1 DEF SleeperHasWaker, Active
<1>4. Counted'
  BY <1>1 DEF Counted, LogWriteAdd
<1>5. CASE at[o] = "absorb"
  <2>1. n' = n /\ used' = used
    BY <1>5 DEF LogWriteAdd, SpaceTypeOK
  <2>2. Room'
    BY <1>1, <2>1, SameCalls DEF LogWriteAdd
  <2>. QED
    BY <1>1, <1>2, <1>3, <1>4, <2>2
<1>6. CASE at[o] = "add"
  <2>1. n' = n + 1 /\ used' = [used EXCEPT ![o] = @ + 1]
    BY <1>6 DEF LogWriteAdd
  <2>2. <<o, used[o] + 1>> \in Left
    BY <1>1, <1>6 DEF Left, SpaceTypeOK, Discipline, Sized
  <2>3. Left' = Left \ {<<o, used[o] + 1>>}
    BY <1>1, <2>1 DEF Left, SpaceTypeOK, Active
  <2>4. Cardinality(Left') = Cardinality(Left) - 1 /\ Cardinality(Left) \in Nat
    BY <2>2, <2>3, Sizes, FS_RemoveElement
  <2>5. Room'
    BY <1>1, <2>1, <2>4 DEF Room, SpaceTypeOK
  <2>. QED
    BY <1>1, <1>2, <1>3, <1>4, <2>5
<1>. QED
  BY <1>5, <1>6 DEF LogWriteAdd

\* end_op gives up a reservation that is not empty.
LEMMA EndStep ==
  ASSUME Sized, SpaceIInv, NEW o \in Ops, end_op(o)
  PROVE  SpaceIInv'
<1>. USE LogSpaceAssumption DEF SpaceIInv
<1>1. o \in Active /\ ~committing
  BY DEF end_op, Active, Discipline
<1>2. outstanding >= 1 /\ (outstanding = 1 <=> Active = {o})
  BY <1>1, LastCall
<1>3. SpaceTypeOK' /\ NoPanic'
  <2>1. NoPanic'
    BY <1>1 DEF end_op, NoPanic
  <2>2. at' \in [Ops -> Places]
    BY DEF end_op, SpaceTypeOK, Places, Woken
  <2>3. outstanding' \in Nat /\ n' \in Nat /\ used' \in [Ops -> 0 .. OpBlocks]
    BY <1>2 DEF end_op, SpaceTypeOK
  <2>4. committing' \in BOOLEAN /\ booting' \in BOOLEAN /\ panicked' \in BOOLEAN
    BY DEF end_op, SpaceTypeOK
  <2>. QED
    BY <2>1, <2>2, <2>3, <2>4 DEF SpaceTypeOK
<1>4. Active' = Active \ {o}
  BY DEF end_op, Active, SpaceTypeOK, Woken
<1>5. Cardinality(Active') = Cardinality(Active) - 1
  BY <1>1, <1>4, Sizes, FS_RemoveElement
<1>6. Counted'
  BY <1>5 DEF Counted, end_op
<1>7. <<o, MAXOPBLOCKS>> \in Left /\ Left' \in SUBSET (Left \ {<<o, MAXOPBLOCKS>>})
  BY <1>1, <1>4, Spare DEF Left, end_op
<1>8. Cardinality(Left') <= Cardinality(Left) - 1 /\ Cardinality(Left') \in Nat
      /\ Cardinality(Left) \in Nat
  <2>1. /\ IsFiniteSet(Left \ {<<o, MAXOPBLOCKS>>})
        /\ Cardinality(Left \ {<<o, MAXOPBLOCKS>>}) = Cardinality(Left) - 1
    BY <1>7, Sizes, FS_RemoveElement
  <2>. QED
    BY <1>7, <2>1, Sizes, FS_Subset, FS_CardinalityType
<1>9. Room'
  BY <1>8 DEF Room, end_op, SpaceTypeOK
<1>10. CASE outstanding = 1
  <2>1. Active' = {} /\ committing' /\ at' = [at EXCEPT ![o] = "commit"]
    BY <1>2, <1>4, <1>10 DEF end_op
  <2>2. Discipline'
    BY <1>1, <2>1 DEF Discipline, end_op, SpaceTypeOK
  <2>3. SleeperHasWaker'
    BY <2>1 DEF SleeperHasWaker, SpaceTypeOK
  <2>. QED
    BY <1>3, <1>6, <1>9, <2>2, <2>3
<1>11. CASE outstanding # 1
  <2>1. Active' # {} /\ ~committing' /\ at' = [Woken EXCEPT ![o] = "idle"]
    BY <1>1, <1>2, <1>4, <1>11 DEF end_op
  <2>2. Discipline'
    BY <1>1, <2>1 DEF Discipline, end_op, SpaceTypeOK, Woken
  <2>3. SleeperHasWaker'
    BY <2>1 DEF SleeperHasWaker, Active
  <2>. QED
    BY <1>3, <1>6, <1>9, <2>2, <2>3
<1>. QED
  BY <1>10, <1>11

\* The end of commit(): the log is empty, everybody is awake.
LEMMA CommitStep ==
  ASSUME Sized, SpaceIInv, NEW o \in Ops, CommitClear(o) \/ CommitEnd(o)
  PROVE  SpaceIInv'
<1>. USE LogSpaceAssumption DEF SpaceIInv
<1>1. SpaceTypeOK' /\ NoPanic' /\ committing /\ Active = {} /\ Active' = Active
  <2>1. NoPanic' /\ committing /\ Active = {}
    BY DEF CommitClear, CommitEnd, NoPanic, Discipline
  <2>2. committing' \in BOOLEAN /\ booting' \in BOOLEAN /\ panicked' \in BOOLEAN
    BY DEF CommitClear, CommitEnd, SpaceTypeOK
  <2>3. at' \in [Ops -> Places] /\ used' \in [Ops -> 0 .. OpBlocks]
    BY DEF CommitClear, CommitEnd, SpaceTypeOK, Places, Woken
  <2>4. n' \in Nat /\ outstanding' \in Nat
    BY DEF CommitClear, CommitEnd, SpaceTypeOK
  <2>5. Active' = Active
    BY DEF CommitClear, CommitEnd, Woken, Active, SpaceTypeOK
  <2>. QED
    BY <2>1, <2>2, <2>3, <2>4, <2>5 DEF SpaceTypeOK
<1>2. Left' = Left /\ Counted' /\ n' = 0
  BY <1>1 DEF CommitClear, CommitEnd, Left, Counted
<1>3. Room'
  <2>1. Cardinality(Left') = 0
    BY <1>1, <1>2, NothingLeft
  <2>2. LOGSIZE \in Nat /\ LOGSIZE >= 1
    BY DEF Sized
  <2>. QED
    BY <1>2, <2>1, <2>2 DEF Room
<1>4. Discipline'
  BY <1>1, <1>2 DEF Discipline, CommitClear, CommitEnd, SpaceTypeOK, Woken
<1>5. SleeperHasWaker'
  BY DEF SleeperHasWaker, CommitClear, CommitEnd, SpaceTypeOK, Woken
<1>. QED
  BY <1>1, <1>2, <1>3, <1>4, <1>5

\* A crash, recovery, and the first boot: no call is in progress.
LEMMA BootStep ==
  ASSUME Sized, SpaceIInv, RecoverClear \/ \E m \in {0, n} : Crash(m)
  PROVE  SpaceIInv'
<1>. USE LogSpaceAssumption DEF SpaceIInv
<1>1. SpaceTypeOK' /\ NoPanic' /\ Active' = {} /\ ~committing'
      /\ \A o \in Ops : at'[o] = "idle"
  <2>1. NoPanic' /\ ~committing' /\ \A o \in Ops : at'[o] = "idle"
    BY DEF RecoverClear, Crash, NoPanic, Discipline
  <2>2. committing' \in BOOLEAN /\ booting' \in BOOLEAN /\ panicked' \in BOOLEAN
    BY DEF RecoverClear, Crash, SpaceTypeOK
  <2>3. at' \in [Ops -> Places] /\ used' \in [Ops -> 0 .. OpBlocks]
    BY DEF RecoverClear, Crash, SpaceTypeOK, Places
  <2>4. n' \in Nat /\ outstanding' \in Nat
    BY DEF RecoverClear, Crash, SpaceTypeOK
  <2>5. Active' = {}
    BY <2>1 DEF Active
  <2>. QED
    BY <2>1, <2>2, <2>3, <2>4, <2>5 DEF SpaceTypeOK
<1>2. Left' = {} /\ Cardinality(Active') = 0 /\ Cardinality(Left') = 0
  BY <1>1, FS_EmptySet DEF Left
<1>3. n' <= n /\ n' <= LOGSIZE - 1
  <2>1. CASE n' = 0
    BY <2>1 DEF Sized, SpaceTypeOK
  <2>2. CASE n' = n /\ (committing \/ booting)
    <3>1. Active = {}
      BY <2>2 DEF Discipline, Active
    <3>2. Cardinality(Active) = 0 /\ Cardinality(Left) \in Nat
      BY <3>1, Sizes
    <3>3. n + Cardinality(Left) <= LOGSIZE - 1
      BY <3>2 DEF Room
    <3>. QED
      BY <2>2, <3>2, <3>3 DEF SpaceTypeOK
  <2>. QED
    BY <2>1, <2>2 DEF RecoverClear, Crash
<1>4. Counted'
  BY <1>2 DEF Counted, RecoverClear, Crash, Discipline, Active
<1>5. Room'
  BY <1>1, <1>2, <1>3 DEF Room, SpaceTypeOK
<1>6. Discipline' /\ SleeperHasWaker'
  BY <1>1 DEF Discipline, SleeperHasWaker, RecoverClear, Crash
<1>. QED
  BY <1>1, <1>4, <1>5, <1>6

\* The initial state: the machine boots with an empty log.
LEMMA SpaceInitial ==
  ASSUME Sized, SpaceInit
  PROVE  SpaceIInv
<1>. USE LogSpaceAssumption
<1>1. SpaceTypeOK /\ NoPanic /\ Active = {}
  <2>1. NoPanic
    BY DEF SpaceInit, NoPanic
  <2>2. committing \in BOOLEAN /\ booting \in BOOLEAN /\ panicked \in BOOLEAN
    BY DEF SpaceInit
  <2>3. at \in [Ops -> Places] /\ used \in [Ops -> 0 .. OpBlocks]
    BY DEF SpaceInit, Places
  <2>4. n \in Nat /\ outstanding \in Nat /\ Active = {}
    BY DEF SpaceInit, Active
  <2>. QED
    BY <2>1, <2>2, <2>3, <2>4 DEF SpaceTypeOK
<1>2. Left = {} /\ Cardinality(Active) = 0 /\ Cardinality(Left) = 0
  BY <1>1, FS_EmptySet DEF Left
<1>3. Counted /\ Room
  BY <1>2 DEF Counted, Room, SpaceInit, Sized
<1>4. Discipline /\ SleeperHasWaker
  BY <1>1 DEF Discipline, SleeperHasWaker, SpaceInit
<1>. QED
  BY <1>1, <1>3, <1>4 DEF SpaceIInv

-----------------------------------------------------------------------------
(* Theorems *)

\* The reservation invariant of log.c holds in every reachable state.
THEOREM SpaceInductive ==
  ASSUME Sized
  PROVE  SpaceSpec => []SpaceIInv
<1>1. SpaceInit => SpaceIInv
  BY SpaceInitial
<1>2. SpaceIInv /\ [SpaceNext]_spaceVars => SpaceIInv'
  <2>. SUFFICES ASSUME SpaceIInv, [SpaceNext]_spaceVars PROVE SpaceIInv'
    OBVIOUS
  <2>1. CASE UNCHANGED spaceVars
    BY <2>1 DEF spaceVars, countVars, SpaceIInv, SpaceTypeOK, Counted, Discipline, Room,
                SleeperHasWaker, NoPanic, Active, Left
  <2>2. CASE SpaceNext
    BY <2>2, BeginStep, CheckStep, AddStep, EndStep, CommitStep, BootStep
       DEF SpaceNext, OpStep
  <2>. QED
    BY <2>1, <2>2
<1>. QED
  BY <1>1, <1>2, PTL DEF SpaceSpec

\* Each variable of the log keeps its type.
THEOREM SpaceTypeCorrect ==
  ASSUME Sized
  PROVE  SpaceSpec => []SpaceTypeOK
BY SpaceInductive, PTL DEF SpaceIInv

\* log_write and end_op never panic if every call adds fewer blocks than
\* begin_op reserves for it.
THEOREM LogNeverPanics ==
  ASSUME Sized
  PROVE  SpaceSpec => []NoPanic
BY SpaceInductive, PTL DEF SpaceIInv

\* The log stays inside log.lh.block and inside the log area of the disk.
THEOREM LogStaysInArea ==
  ASSUME Sized
  PROVE  SpaceSpec => []LogInArea
<1>1. SpaceIInv => LogInArea
  <2>. SUFFICES ASSUME SpaceIInv PROVE LogInArea
    OBVIOUS
  <2>1. CASE Active # {}
    BY <2>1, TwoFree, LogSpaceAssumption DEF LogInArea, SpaceIInv, SpaceTypeOK, Sized
  <2>2. CASE Active = {}
    <3>1. Cardinality(Active) = 0 /\ Cardinality(Left) = 0
      BY <2>2, NothingLeft
    <3>2. n \in Nat /\ n <= LOGSIZE - 1
      BY <3>1, LogSpaceAssumption DEF SpaceIInv, SpaceTypeOK, Room
    <3>. QED
      BY <3>2, LogSpaceAssumption DEF LogInArea, Sized
  <2>. QED
    BY <2>1, <2>2
<1>. QED
  BY <1>1, SpaceInductive, PTL

\* No call is in progress during a commit.
THEOREM CommitsAlone ==
  ASSUME Sized
  PROVE  SpaceSpec => []CommitAlone
<1>1. SpaceIInv => CommitAlone
  BY DEF SpaceIInv, Discipline, CommitAlone, Active
<1>. QED
  BY <1>1, SpaceInductive, PTL

\* Whoever sleeps in begin_op has somebody to wake it.
THEOREM SleepersHaveWakers ==
  ASSUME Sized
  PROVE  SpaceSpec => []SleeperHasWaker
BY SpaceInductive, PTL DEF SpaceIInv

=============================================================================
