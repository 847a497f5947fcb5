---------------------------- MODULE ShmhtSemProofs ----------------------------
(***************************************************************************)
(* Proofs about the read/write lock of ShmhtSem, for any finite set of     *)
(* processes.  The inductive invariant joins type correctness with the     *)
(* three facts that only hold together: the kernel's undo adjustments      *)
(* match what each process holds, so a crash returns exactly that; the     *)
(* semaphores therefore count the holders; and a zero count then means     *)
(* nobody is inside, which is what lets a writer in alone.                 *)
(***************************************************************************)
EXTENDS ShmhtSem, TLAPS, FiniteSetTheorems

WriteSide == Waiting \cup Writers

IInv == TypeOK /\ UndoMatchesHolding /\ SemaphoresCountHolders /\ ExclusiveWriter

-------------------------------------------------------------------------------
(* What one semop does to the semaphores and to the caller's adjustments.  *)
LEMMA SemOpEffect ==
  ASSUME TypeOK, NEW p \in Procs, NEW Z, NEW r \in Int, NEW w \in Int,
         SemOp(p, Table(Z, r, w))
  PROVE  /\ exists
         /\ \A s \in Z : semval[s] = 0
         /\ semval' \in [Sems -> Nat]
         /\ semval'[SEM_READER] = semval[SEM_READER] + r
         /\ semval'[SEM_WRITER] = semval[SEM_WRITER] + w
         /\ semadj' \in [Procs -> [Sems -> Int]]
         /\ semadj'[p][SEM_READER] = semadj[p][SEM_READER] - r
         /\ semadj'[p][SEM_WRITER] = semadj[p][SEM_WRITER] - w
         /\ \A q \in Procs \ {p} : semadj'[q] = semadj[q]
<1> DEFINE t == Table(Z, r, w)
<1>1. /\ t.zero = Z
      /\ t.add \in [Sems -> Int]
      /\ t.add[SEM_READER] = r
      /\ t.add[SEM_WRITER] = w
  BY DEF Table, Sems, SEM_READER, SEM_WRITER
<1>2. /\ exists
      /\ \A s \in t.zero : semval[s] = 0
      /\ \A s \in Sems : semval[s] + t.add[s] >= 0
      /\ semval' = [s \in Sems |-> semval[s] + t.add[s]]
      /\ semadj' = [semadj EXCEPT ![p] = [s \in Sems |-> @[s] - t.add[s]]]
  BY DEF SemOp
<1> HIDE DEF t
<1>3. semval \in [Sems -> Nat] /\ semadj \in [Procs -> [Sems -> Int]]
  BY DEF TypeOK
<1>4. SEM_READER \in Sems /\ SEM_WRITER \in Sems
  BY DEF Sems
<1>5. semval' \in [Sems -> Nat]
  BY <1>1, <1>2, <1>3
<1>6. semadj' \in [Procs -> [Sems -> Int]]
  BY <1>1, <1>2, <1>3
<1> QED
  BY <1>1, <1>2, <1>3, <1>4, <1>5, <1>6

(* Who is inside and who waits, after each step that changes it.           *)
LEMMA ReadLockMoves ==
  ASSUME TypeOK, NEW p \in Procs, ReadLock(p)
  PROVE  /\ Readers' = Readers \cup {p} /\ Writers' = Writers /\ Waiting' = Waiting
         /\ p \notin Inside /\ p \notin WriteSide
  BY DEF TypeOK, ReadLock, Goto, Readers, Writers, Waiting, Inside, WriteSide

LEMMA ReadUnlockMoves ==
  ASSUME TypeOK, NEW p \in Procs, ReadUnlock(p)
  PROVE  /\ Readers' = Readers \ {p} /\ Writers' = Writers /\ Waiting' = Waiting
         /\ p \in Readers /\ p \notin WriteSide
  BY DEF TypeOK, ReadUnlock, Return, Goto, Readers, Writers, Waiting, WriteSide

LEMMA WriteAnnounceMoves ==
  ASSUME TypeOK, NEW p \in Procs, NEW c \in {"write", "destroy"}, WriteAnnounce(p, c)
  PROVE  /\ Readers' = Readers /\ Writers' = Writers /\ Waiting' = Waiting \cup {p}
         /\ p \notin Inside /\ p \notin WriteSide
  BY DEF TypeOK, WriteAnnounce, Goto, Readers, Writers, Waiting, Inside, WriteSide

LEMMA WriteLockMoves ==
  ASSUME TypeOK, NEW p \in Procs, WriteLock(p)
  PROVE  /\ Readers' = Readers /\ Writers' = Writers \cup {p} /\ Waiting' = Waiting \ {p}
         /\ p \in Waiting /\ p \notin Inside
  BY DEF TypeOK, WriteLock, Goto, Readers, Writers, Waiting, Inside

LEMMA WriteEndProcMoves ==
  ASSUME TypeOK, NEW p \in Procs, WriteEndProc(p)
  PROVE  /\ Readers' = Readers /\ Writers' = Writers /\ Waiting' = Waiting \ {p}
         /\ p \in Waiting /\ p \notin Inside
  BY DEF TypeOK, WriteEndProc, Return, Goto, Readers, Writers, Waiting, Inside

LEMMA WriteUnlockMoves ==
  ASSUME TypeOK, NEW p \in Procs, WriteUnlock(p)
  PROVE  /\ Readers' = Readers /\ Writers' = Writers \ {p} /\ Waiting' = Waiting
         /\ p \in Writers /\ p \notin Waiting
  BY DEF TypeOK, WriteUnlock, Return, Goto, Readers, Writers, Waiting

LEMMA CrashMoves ==
  ASSUME TypeOK, NEW p \in Procs, Crash(p)
  PROVE  Readers' = Readers \ {p} /\ Writers' = Writers \ {p} /\ Waiting' = Waiting \ {p}
  BY DEF TypeOK, Crash, Return, Goto, Readers, Writers, Waiting

LEMMA NobodyMoves ==
  ASSUME TypeOK, NEW p \in Procs,
         ReadCall(p) \/ ReadLockFails(p) \/ WriteLockFails(p)
  PROVE  Readers' = Readers /\ Writers' = Writers /\ Waiting' = Waiting
  BY DEF TypeOK, ReadCall, ReadLockFails, WriteLockFails, Return, Goto,
         Readers, Writers, Waiting

LEMMA FiniteSides ==
  /\ IsFiniteSet(Inside) /\ IsFiniteSet(WriteSide)
  /\ Inside \subseteq Procs /\ WriteSide \subseteq Procs
<1>1. Inside \in SUBSET Procs /\ WriteSide \in SUBSET Procs
  BY DEF Inside, WriteSide, Readers, Writers, Waiting
<1> QED
  BY <1>1, ProcsFinite, FS_Subset

-------------------------------------------------------------------------------
(* Type correctness.                                                       *)
LEMMA TypeStep == TypeOK /\ [Next]_vars => TypeOK'
<1> SUFFICES ASSUME TypeOK, [Next]_vars PROVE TypeOK'
  OBVIOUS
<1>1. CASE UNCHANGED vars
  BY <1>1 DEF TypeOK, vars
<1>2. CASE Next
  <2> PICK p \in Procs : Step(p)
    BY <1>2 DEF Next
  <2>1. ASSUME ReadCall(p) \/ ReadLockFails(p) \/ WriteLockFails(p) \/ WriteEndProcRemoved(p)
        PROVE  TypeOK'
    BY <2>1 DEF TypeOK, ReadCall, ReadLockFails, WriteLockFails, WriteEndProcRemoved,
                Return, Goto
  <2>2. ASSUME NEW Z, NEW r \in Int, NEW w \in Int, SemOp(p, Table(Z, r, w))
        PROVE  semval' \in [Sems -> Nat] /\ semadj' \in [Procs -> [Sems -> Int]]
    BY <2>2, SemOpEffect
  <2>3. CASE ReadLock(p)
    BY <2>3, <2>2 DEF TypeOK, ReadLock, read_start, Return, Goto
  <2>4. CASE ReadUnlock(p)
    BY <2>4, <2>2 DEF TypeOK, ReadUnlock, read_end, Return, Goto
  <2>5. CASE WriteLock(p)
    BY <2>5, <2>2 DEF TypeOK, WriteLock, write_start2, Return, Goto
  <2>6. CASE WriteEndProc(p)
    BY <2>6, <2>2 DEF TypeOK, WriteEndProc, write_fail_end, Return, Goto
  <2>7. CASE WriteUnlock(p)
    BY <2>7, <2>2 DEF TypeOK, WriteUnlock, write_end, Return, Goto
  <2>8. ASSUME NEW c \in {"write", "destroy"}, WriteAnnounce(p, c)
        PROVE  TypeOK'
    BY <2>8, <2>2 DEF TypeOK, WriteAnnounce, write_start1, Goto
  <2>9. CASE Destroy(p)
    <3> DEFINE zero == [s \in Sems |-> 0]
    <3>1. zero \in [Sems -> Nat] /\ zero \in [Sems -> Int]
      OBVIOUS
    <3>2. semval' = zero /\ semadj' = [q \in Procs |-> zero]
      BY <2>9 DEF Destroy
    <3> HIDE DEF zero
    <3>3. semval' \in [Sems -> Nat] /\ semadj' \in [Procs -> [Sems -> Int]]
      BY <3>1, <3>2
    <3> QED
      BY <2>9, <3>3 DEF TypeOK, Destroy, Return, Goto
  <2>10. CASE Crash(p)
    BY <2>10 DEF TypeOK, Crash, Return, Goto
  <2> QED
    BY <2>1, <2>3, <2>4, <2>5, <2>6, <2>7, <2>8, <2>9, <2>10 DEF Step
<1> QED
  BY <1>1, <1>2

THEOREM TypeCorrect == Spec => []TypeOK
<1>1. Init => TypeOK
  BY DEF Init, TypeOK
<1> QED
  BY <1>1, TypeStep, PTL DEF Spec

-------------------------------------------------------------------------------
(* Counting: one more, or one fewer, on a finite side.                     *)
LEMMA CountChanges ==
  ASSUME NEW S, IsFiniteSet(S), NEW p
  PROVE  /\ Cardinality(S) \in Nat
         /\ p \notin S => Cardinality(S \cup {p}) = Cardinality(S) + 1
         /\ p \in S => Cardinality(S \ {p}) = Cardinality(S) - 1
         /\ p \notin S => Cardinality(S \ {p}) = Cardinality(S)
BY FS_CardinalityType, FS_AddElement, FS_RemoveElement

(* T is S with p added, removed, or neither: its size moves by d.          *)
Shifts(S, T, p, d) ==
  \/ d = 1 /\ p \notin S /\ T = S \cup {p}
  \/ d = 0 /\ T = S
  \/ d = -1 /\ p \in S /\ T = S \ {p}

LEMMA ShiftCounts ==
  ASSUME NEW S, IsFiniteSet(S), NEW T, NEW p, NEW d \in Int, Shifts(S, T, p, d)
  PROVE  /\ Cardinality(T) = Cardinality(S) + d
         /\ (IF p \in T THEN -1 ELSE 0) = (IF p \in S THEN -1 ELSE 0) - d
         /\ \A q : q # p => (q \in T <=> q \in S)
<1>1. Cardinality(S) \in Nat
  BY CountChanges
<1>2. CASE d = 1 /\ p \notin S /\ T = S \cup {p}
  BY <1>1, <1>2, CountChanges
<1>3. CASE d = 0 /\ T = S
  BY <1>1, <1>3
<1>4. CASE d = -1 /\ p \in S /\ T = S \ {p}
  BY <1>1, <1>4, CountChanges
<1> QED
  BY <1>2, <1>3, <1>4 DEF Shifts

LEMMA InitInv == Init => IInv
<1> SUFFICES ASSUME Init PROVE IInv
  OBVIOUS
<1>1. TypeOK /\ Inside = {} /\ WriteSide = {} /\ Writers = {} /\ Waiting = {}
  BY DEF Init, TypeOK, Inside, Readers, Writers, Waiting, WriteSide
<1>2. UndoMatchesHolding
  BY <1>1 DEF UndoMatchesHolding, Init, Sems, WriteSide
<1>3. SemaphoresCountHolders
  BY <1>1, FS_EmptySet DEF SemaphoresCountHolders, Init, Sems, WriteSide
<1> QED
  BY <1>1, <1>2, <1>3 DEF IInv, ExclusiveWriter

(* A removed set is never recreated, and without one nothing is claimed.   *)
LEMMA RemovedStaysRemoved ==
  ASSUME TypeOK, NEW p \in Procs, Step(p), exists'
  PROVE  exists
BY DEF Step, ReadCall, ReadLock, ReadLockFails, ReadUnlock, WriteAnnounce, WriteLock,
       WriteLockFails, WriteEndProc, WriteEndProcRemoved, WriteUnlock, Destroy, Crash,
       TypeOK

LEMMA StepInv == IInv /\ [Next]_vars => IInv'
<1> SUFFICES ASSUME IInv, [Next]_vars PROVE IInv'
  OBVIOUS
<1> SUFFICES ASSUME exists', exists
             PROVE  (UndoMatchesHolding /\ SemaphoresCountHolders /\ ExclusiveWriter)'
  <2>1. TypeOK'
    BY TypeStep DEF IInv
  <2>2. CASE ~exists'
    BY <2>1, <2>2 DEF IInv, UndoMatchesHolding, SemaphoresCountHolders, ExclusiveWriter
  <2>3. CASE exists' /\ ~exists
    BY <2>3, RemovedStaysRemoved DEF IInv, Next, vars
  <2> QED
    BY <2>1, <2>2, <2>3 DEF IInv
<1> USE DEF IInv
<1>f. IsFiniteSet(Inside) /\ IsFiniteSet(WriteSide)
  BY FiniteSides
<1>i. Inside = Readers \cup Writers /\ Inside' = (Readers \cup Writers)'
      /\ WriteSide = Waiting \cup Writers /\ WriteSide' = (Waiting \cup Writers)'
  BY DEF Inside, WriteSide
<1>c. semval[SEM_READER] = Cardinality(Inside) /\ semval[SEM_WRITER] = Cardinality(WriteSide)
  BY DEF SemaphoresCountHolders, WriteSide
<1>u. \A q \in Procs : /\ semadj[q][SEM_READER] = IF q \in Inside THEN -1 ELSE 0
                    /\ semadj[q][SEM_WRITER] = IF q \in WriteSide THEN -1 ELSE 0
  BY DEF UndoMatchesHolding, WriteSide
<1>x. \A q \in Writers : Inside = {q}
  BY DEF ExclusiveWriter
(* What is to be shown, said of the two sides.                              *)
<1>g. SUFFICES
        /\ semval'[SEM_READER] = Cardinality(Inside')
        /\ semval'[SEM_WRITER] = Cardinality(WriteSide')
        /\ \A q \in Procs :
             /\ semadj'[q][SEM_READER] = IF q \in Inside' THEN -1 ELSE 0
             /\ semadj'[q][SEM_WRITER] = IF q \in WriteSide' THEN -1 ELSE 0
        /\ \A q \in Writers' : Inside' = {q}
  BY DEF SemaphoresCountHolders, UndoMatchesHolding, ExclusiveWriter, WriteSide
(* A step that moves p between the sides as its semop moves the counts.      *)
<1>h. ASSUME NEW p \in Procs, NEW Z, NEW r \in Int, NEW w \in Int,
             SemOp(p, Table(Z, r, w)),
             Shifts(Inside, Inside', p, r), Shifts(WriteSide, WriteSide', p, w),
             \A q \in Writers' : Inside' = {q}
      PROVE  /\ semval'[SEM_READER] = Cardinality(Inside')
             /\ semval'[SEM_WRITER] = Cardinality(WriteSide')
             /\ \A q \in Procs :
                  /\ semadj'[q][SEM_READER] = IF q \in Inside' THEN -1 ELSE 0
                  /\ semadj'[q][SEM_WRITER] = IF q \in WriteSide' THEN -1 ELSE 0
             /\ \A q \in Writers' : Inside' = {q}
  <2>1. /\ semval'[SEM_READER] = semval[SEM_READER] + r
        /\ semval'[SEM_WRITER] = semval[SEM_WRITER] + w
        /\ semadj'[p][SEM_READER] = semadj[p][SEM_READER] - r
        /\ semadj'[p][SEM_WRITER] = semadj[p][SEM_WRITER] - w
        /\ \A q \in Procs \ {p} : semadj'[q] = semadj[q]
    BY <1>h, SemOpEffect
  <2>2. /\ Cardinality(Inside') = Cardinality(Inside) + r
        /\ (IF p \in Inside' THEN -1 ELSE 0) = (IF p \in Inside THEN -1 ELSE 0) - r
        /\ \A q : q # p => (q \in Inside' <=> q \in Inside)
    BY <1>f, <1>h, ShiftCounts
  <2>3. /\ Cardinality(WriteSide') = Cardinality(WriteSide) + w
        /\ (IF p \in WriteSide' THEN -1 ELSE 0) = (IF p \in WriteSide THEN -1 ELSE 0) - w
        /\ \A q : q # p => (q \in WriteSide' <=> q \in WriteSide)
    BY <1>f, <1>h, ShiftCounts
  <2>4. /\ semval'[SEM_READER] = Cardinality(Inside')
        /\ semval'[SEM_WRITER] = Cardinality(WriteSide')
    BY <1>c, <2>1, <2>2, <2>3
  <2>5. /\ semadj'[p][SEM_READER] = IF p \in Inside' THEN -1 ELSE 0
        /\ semadj'[p][SEM_WRITER] = IF p \in WriteSide' THEN -1 ELSE 0
    BY <1>u, <2>1, <2>2, <2>3
  <2>6. ASSUME NEW q \in Procs, q # p
        PROVE  /\ semadj'[q][SEM_READER] = IF q \in Inside' THEN -1 ELSE 0
               /\ semadj'[q][SEM_WRITER] = IF q \in WriteSide' THEN -1 ELSE 0
    BY <1>u, <2>1, <2>2, <2>3, <2>6
  <2> QED
    BY <1>h, <2>4, <2>5, <2>6
<1>n. Cardinality(Inside) \in Nat /\ Cardinality(WriteSide) \in Nat
  BY <1>f, CountChanges
<1>1. CASE UNCHANGED vars
  <2>1. Inside' = Inside /\ WriteSide' = WriteSide /\ Writers' = Writers
    BY <1>1 DEF vars, Inside, WriteSide, Readers, Writers, Waiting
  <2> QED
    BY <1>1, <1>c, <1>u, <1>x, <2>1 DEF vars
<1>2. CASE Next
  <2> PICK p \in Procs : Step(p)
    BY <1>2 DEF Next
  <2>1. CASE ReadCall(p) \/ ReadLockFails(p) \/ WriteLockFails(p)
    <3>1. Inside' = Inside /\ WriteSide' = WriteSide /\ Writers' = Writers
      BY <2>1, <1>i, NobodyMoves
    <3>2. semval' = semval /\ semadj' = semadj
      BY <2>1 DEF ReadCall, ReadLockFails, WriteLockFails
    <3> QED
      BY <1>c, <1>u, <1>x, <3>1, <3>2
  <2>2. CASE ReadLock(p)
    <3>1. SemOp(p, Table({SEM_WRITER}, 1, 0))
      BY <2>2 DEF ReadLock, read_start
    <3>2. /\ Inside' = Inside \cup {p} /\ WriteSide' = WriteSide /\ Writers' = Writers
          /\ p \notin Inside
      BY <2>2, <1>i, ReadLockMoves
    <3>3. Writers = {}
      <4>1. semval[SEM_WRITER] = 0
        BY <3>1, SemOpEffect
      <4> QED
        BY <4>1, <1>c, <1>f, <1>i, FS_EmptySet
    <3>4. Shifts(Inside, Inside', p, 1) /\ Shifts(WriteSide, WriteSide', p, 0)
      BY <3>2 DEF Shifts
    <3>5. \A q \in Writers' : Inside' = {q}
      BY <1>x, <1>i, <3>2, <3>3
    <3> QED
      BY <1>h, <3>1, <3>4, <3>5
  <2>3. CASE ReadUnlock(p)
    <3>1. SemOp(p, Table({}, -1, 0))
      BY <2>3 DEF ReadUnlock, read_end
    <3>2. /\ Inside' = Inside \ {p} /\ WriteSide' = WriteSide /\ Writers' = Writers
          /\ p \in Inside /\ p \notin Writers
      BY <2>3, <1>x, <1>i, ReadUnlockMoves
    <3>3. Shifts(Inside, Inside', p, -1) /\ Shifts(WriteSide, WriteSide', p, 0)
      BY <3>2 DEF Shifts
    <3>4. \A q \in Writers' : Inside' = {q}
      BY <1>x, <1>i, <3>2
    <3> QED
      BY <1>h, <3>1, <3>3, <3>4
  <2>4. CASE WriteAnnounce(p, "write") \/ WriteAnnounce(p, "destroy")
    <3>1. SemOp(p, Table({}, 0, 1))
      BY <2>4 DEF WriteAnnounce, write_start1
    <3>2. /\ Inside' = Inside /\ WriteSide' = WriteSide \cup {p} /\ Writers' = Writers
          /\ p \notin WriteSide
      BY <2>4, <1>i, WriteAnnounceMoves
    <3>3. Shifts(Inside, Inside', p, 0) /\ Shifts(WriteSide, WriteSide', p, 1)
      BY <3>2 DEF Shifts
    <3>4. \A q \in Writers' : Inside' = {q}
      BY <1>x, <1>i, <3>2
    <3> QED
      BY <1>h, <3>1, <3>3, <3>4
  <2>5. CASE WriteLock(p)
    <3>1. SemOp(p, Table({SEM_READER}, 1, 0))
      BY <2>5 DEF WriteLock, write_start2
    <3>2. /\ Inside' = Inside \cup {p} /\ WriteSide' = WriteSide
          /\ Writers' = Writers \cup {p} /\ p \notin Inside
      BY <2>5, <1>i, WriteLockMoves
    <3>3. Inside = {}
      <4>1. semval[SEM_READER] = 0
        BY <3>1, SemOpEffect
      <4> QED
        BY <4>1, <1>c, <1>f, <1>i, FS_EmptySet
    <3>4. Shifts(Inside, Inside', p, 1) /\ Shifts(WriteSide, WriteSide', p, 0)
      BY <3>2 DEF Shifts
    <3>5. \A q \in Writers' : Inside' = {q}
      BY <1>x, <1>i, <3>2, <3>3
    <3> QED
      BY <1>h, <3>1, <3>4, <3>5
  <2>6. CASE WriteEndProc(p)
    <3>1. SemOp(p, Table({}, 0, -1))
      BY <2>6 DEF WriteEndProc, write_fail_end
    <3>2. /\ Inside' = Inside /\ Writers' = Writers
          /\ p \in WriteSide /\ WriteSide' = WriteSide \ {p}
      BY <2>6, <1>i, WriteEndProcMoves
    <3>3. Shifts(Inside, Inside', p, 0) /\ Shifts(WriteSide, WriteSide', p, -1)
      BY <3>2 DEF Shifts
    <3>4. \A q \in Writers' : Inside' = {q}
      BY <1>x, <1>i, <3>2
    <3> QED
      BY <1>h, <3>1, <3>3, <3>4
  <2>7. CASE WriteUnlock(p)
    <3>1. SemOp(p, Table({}, -1, -1))
      BY <2>7 DEF WriteUnlock, write_end
    <3>2. /\ p \in Inside /\ Inside' = Inside \ {p} /\ Writers' = {}
          /\ p \in WriteSide /\ WriteSide' = WriteSide \ {p}
      <4>1. /\ Writers' = Writers \ {p} /\ p \in Writers
            /\ Readers' = Readers /\ Waiting' = Waiting /\ p \notin Waiting
        BY <2>7, WriteUnlockMoves
      <4>2. Inside = {p} /\ p \notin Readers
        BY <4>1, <1>x DEF Readers, Writers
      <4> QED
        BY <4>1, <4>2, <1>i
    <3>3. Shifts(Inside, Inside', p, -1) /\ Shifts(WriteSide, WriteSide', p, -1)
      BY <3>2 DEF Shifts
    <3>4. \A q \in Writers' : Inside' = {q}
      BY <1>x, <1>i, <3>2
    <3> QED
      BY <1>h, <3>1, <3>3, <3>4
  <2>8. CASE Crash(p)
    <3>1. /\ Inside' = Inside \ {p} /\ WriteSide' = WriteSide \ {p}
          /\ Writers' = Writers \ {p}
      BY <2>8, <1>i, CrashMoves
    <3>2. /\ p \in Inside => semval[SEM_READER] >= 1
          /\ p \in WriteSide => semval[SEM_WRITER] >= 1
      <4>1. \A S : IsFiniteSet(S) /\ p \in S => Cardinality(S) >= 1
        BY FS_EmptySet, FS_CardinalityType
      <4> QED
        BY <4>1, <1>c, <1>f
    <3>3. /\ semval'[SEM_READER] = semval[SEM_READER] + semadj[p][SEM_READER]
          /\ semval'[SEM_WRITER] = semval[SEM_WRITER] + semadj[p][SEM_WRITER]
      <4>1. \A s \in Sems : semval'[s] = IF semval[s] + semadj[p][s] < 0 THEN 0
                                        ELSE semval[s] + semadj[p][s]
        BY <2>8 DEF Crash
      <4>2. SEM_READER \in Sems /\ SEM_WRITER \in Sems
        BY DEF Sems
      <4> QED
        BY <4>1, <4>2, <1>c, <1>u, <1>n, <3>2
    <3>4. \A q \in Procs, s \in Sems : semadj'[q][s] = IF q = p THEN 0 ELSE semadj[q][s]
      BY <2>8 DEF Crash, TypeOK
    <3>5. SEM_READER \in Sems /\ SEM_WRITER \in Sems
      BY DEF Sems
    <3>6. \A q \in Writers' : Inside' = {q}
      BY <3>1, <1>x
    <3>7. /\ Cardinality(Inside') = Cardinality(Inside) - (IF p \in Inside THEN 1 ELSE 0)
          /\ Cardinality(WriteSide') = Cardinality(WriteSide) - (IF p \in WriteSide THEN 1 ELSE 0)
      <4>1. \A S : IsFiniteSet(S) =>
              Cardinality(S \ {p}) = Cardinality(S) - (IF p \in S THEN 1 ELSE 0)
        BY FS_CardinalityType, FS_RemoveElement
      <4> QED
        BY <4>1, <1>f, <3>1
    <3> QED
      BY <1>c, <1>u, <1>n, <3>1, <3>3, <3>4, <3>5, <3>6, <3>7
  <2>9. CASE WriteEndProcRemoved(p) \/ Destroy(p)
    BY <2>9 DEF WriteEndProcRemoved, Destroy
  <2> QED
    BY <2>1, <2>2, <2>3, <2>4, <2>5, <2>6, <2>7, <2>8, <2>9 DEF Step
<1> QED
  BY <1>1, <1>2

-------------------------------------------------------------------------------
(* Mutual exclusion, for any number of processes and through signals,      *)
(* kills and destruction: whoever writes is alone inside.                  *)
THEOREM WriterAlone == Spec => []ExclusiveWriter
<1>1. IInv => ExclusiveWriter
  BY DEF IInv
<1> QED
  BY <1>1, InitInv, StepInv, PTL DEF Spec

(* The semaphores are never a unit off: no failed semop, withdrawal or     *)
(* kernel undo leaks or loses one.                                         *)
THEOREM SemaphoresAreExact == Spec => []SemaphoresCountHolders
<1>1. IInv => SemaphoresCountHolders
  BY DEF IInv
<1> QED
  BY <1>1, InitInv, StepInv, PTL DEF Spec

(* The kernel would give back exactly what a process holds if it died now. *)
THEOREM UndoIsExact == Spec => []UndoMatchesHolding
<1>1. IInv => UndoMatchesHolding
  BY DEF IInv
<1> QED
  BY <1>1, InitInv, StepInv, PTL DEF Spec

(* Whoever gets in finds the side it waited for empty.                     *)
LEMMA ReaderFindsNoWriter ==
  ASSUME IInv, NEW p \in Procs, ReadLock(p)
  PROVE  WriteSide = {} /\ Writers = {}
<1>1. exists /\ semval[SEM_WRITER] = 0
  <2>1. SemOp(p, Table({SEM_WRITER}, 1, 0))
    BY DEF ReadLock, read_start
  <2> QED
    BY <2>1, SemOpEffect DEF IInv
<1>2. Cardinality(WriteSide) = 0
  BY <1>1 DEF IInv, SemaphoresCountHolders, WriteSide
<1> QED
  BY <1>2, FiniteSides, FS_EmptySet DEF WriteSide

LEMMA WriterFindsNobody ==
  ASSUME IInv, NEW p \in Procs, WriteLock(p)
  PROVE  Inside = {}
<1>1. exists /\ semval[SEM_READER] = 0
  <2>1. SemOp(p, Table({SEM_READER}, 1, 0))
    BY DEF WriteLock, write_start2
  <2> QED
    BY <2>1, SemOpEffect DEF IInv
<1>2. Cardinality(Inside) = 0
  BY <1>1 DEF IInv, SemaphoresCountHolders
<1> QED
  BY <1>2, FiniteSides, FS_EmptySet

(* Writer preference: once a write is announced the readers inside only    *)
(* drain.                                                                  *)
THEOREM WriterPreference == Spec => ReadersOnlyDrain
<1> DEFINE Drain == exists /\ Waiting \cup Writers # {} => Readers' \subseteq Readers
<1>1. IInv /\ [Next]_vars => [Drain]_vars
  <2> SUFFICES ASSUME IInv, Next, exists, Waiting \cup Writers # {}
               PROVE  Readers' \subseteq Readers
    BY DEF vars
  <2> PICK p \in Procs : Step(p)
    BY DEF Next
  <2>t. TypeOK
    BY DEF IInv
  <2>1. CASE ReadCall(p) \/ ReadLockFails(p) \/ WriteLockFails(p)
    BY <2>1, <2>t, NobodyMoves
  <2>2. CASE ReadLock(p)
    BY <2>2, ReaderFindsNoWriter DEF WriteSide
  <2>3. CASE ReadUnlock(p)
    BY <2>3, <2>t, ReadUnlockMoves
  <2>4. CASE WriteAnnounce(p, "write") \/ WriteAnnounce(p, "destroy")
    BY <2>4, <2>t, WriteAnnounceMoves
  <2>5. CASE WriteLock(p)
    BY <2>5, <2>t, WriteLockMoves
  <2>6. CASE WriteEndProc(p)
    BY <2>6, <2>t, WriteEndProcMoves
  <2>7. CASE WriteEndProcRemoved(p)
    BY <2>7 DEF WriteEndProcRemoved
  <2>8. CASE WriteUnlock(p)
    BY <2>8, <2>t, WriteUnlockMoves
  <2>9. CASE Destroy(p)
    BY <2>9, <2>t DEF Destroy, Return, Goto, Readers, TypeOK
  <2>10. CASE Crash(p)
    BY <2>10, <2>t, CrashMoves
  <2> QED
    BY <2>1, <2>2, <2>3, <2>4, <2>5, <2>6, <2>7, <2>8, <2>9, <2>10 DEF Step
<1> QED
  BY <1>1, InitInv, StepInv, PTL DEF Spec, ReadersOnlyDrain

-------------------------------------------------------------------------------
(* With the set in place each step is one of the abstract lock, or none.   *)
LEMMA StepRefines ==
  ASSUME IInv, exists, Next
  PROVE  [RW!Next]_RW!vars
<1>t. TypeOK
  BY DEF IInv
<1> PICK p \in Procs : Step(p)
  BY DEF Next
<1>1. CASE ReadCall(p) \/ ReadLockFails(p) \/ WriteLockFails(p)
  <2>1. exists' = exists
    BY <1>1 DEF ReadCall, ReadLockFails, WriteLockFails
  <2> QED
    BY <1>1, <1>t, <2>1, NobodyMoves DEF RW!vars
<1>2. CASE ReadLock(p)
  <2>1. exists' = exists
    BY <1>2 DEF ReadLock
  <2> QED
    BY <1>2, <1>t, <2>1, ReaderFindsNoWriter, ReadLockMoves
       DEF WriteSide, Inside, RW!Next, RW!BeginRead, RW!Outside
<1>3. CASE ReadUnlock(p)
  <2>1. exists' = exists
    BY <1>3 DEF ReadUnlock
  <2> QED
    BY <1>3, <1>t, <2>1, ReadUnlockMoves DEF RW!Next, RW!EndRead
<1>4. CASE WriteAnnounce(p, "write") \/ WriteAnnounce(p, "destroy")
  <2>1. exists' = exists
    BY <1>4 DEF WriteAnnounce
  <2> QED
    BY <1>4, <1>t, <2>1, WriteAnnounceMoves
       DEF WriteSide, Inside, RW!Next, RW!Announce, RW!Outside
<1>5. CASE WriteLock(p)
  <2>1. exists' = exists
    BY <1>5 DEF WriteLock
  <2> QED
    BY <1>5, <1>t, <2>1, WriterFindsNobody, WriteLockMoves
       DEF Inside, RW!Next, RW!BeginWrite
<1>6. CASE WriteEndProc(p)
  <2>1. exists' = exists
    BY <1>6 DEF WriteEndProc
  <2> QED
    BY <1>6, <1>t, <2>1, WriteEndProcMoves DEF RW!Next, RW!Withdraw
<1>7. CASE WriteUnlock(p)
  <2>1. exists' = exists
    BY <1>7 DEF WriteUnlock
  <2> QED
    BY <1>7, <1>t, <2>1, WriteUnlockMoves DEF RW!Next, RW!EndWrite
<1>8. CASE WriteEndProcRemoved(p)
  BY <1>8 DEF WriteEndProcRemoved
<1>9. CASE Destroy(p)
  BY <1>9, <1>t
     DEF TypeOK, Destroy, Return, Goto, Readers, Writers, Waiting, RW!Next, RW!Remove
<1>10. CASE Crash(p)
  <2>1. Readers' = Readers \ {p} /\ Writers' = Writers \ {p} /\ Waiting' = Waiting \ {p}
    BY <1>10, <1>t, CrashMoves
  <2>2. exists' = exists
    BY <1>10 DEF Crash
  <2>3. CASE p \in Readers
    BY <2>1, <2>2, <2>3 DEF Readers, Writers, Waiting, RW!Next, RW!EndRead
  <2>4. CASE p \in Writers
    BY <2>1, <2>2, <2>4 DEF Readers, Writers, Waiting, RW!Next, RW!EndWrite
  <2>5. CASE p \in Waiting
    BY <2>1, <2>2, <2>5 DEF Readers, Writers, Waiting, RW!Next, RW!Withdraw
  <2>6. CASE p \notin Readers \cup Writers \cup Waiting
    BY <2>1, <2>2, <2>6 DEF RW!vars
  <2> QED
    BY <2>3, <2>4, <2>5, <2>6
<1> QED
  BY <1>1, <1>2, <1>3, <1>4, <1>5, <1>6, <1>7, <1>8, <1>9, <1>10 DEF Step

(* Once the set is gone, no call that was not already on the write side    *)
(* gets in: a reader has no failure path that pretends success.            *)
LEMMA RemovedOnlyDrains ==
  ASSUME TypeOK, ~exists, Next
  PROVE  [RW!Next]_RW!vars
<1> PICK p \in Procs : Step(p)
  BY DEF Next
<1> SUFFICES ~exists' /\ Readers' \subseteq Readers /\ Waiting' \subseteq Waiting
             /\ Writers' \subseteq Writers \cup Waiting
  BY DEF RW!Next, RW!Drain
<1>1. CASE ReadCall(p) \/ ReadLockFails(p) \/ WriteLockFails(p)
  <2>1. exists' = exists
    BY <1>1 DEF ReadCall, ReadLockFails, WriteLockFails
  <2> QED
    BY <1>1, <2>1, NobodyMoves
<1>2. CASE ReadLock(p) \/ WriteAnnounce(p, "write") \/ WriteAnnounce(p, "destroy")
           \/ WriteLock(p) \/ WriteEndProc(p)
  BY <1>2 DEF ReadLock, WriteAnnounce, WriteLock, WriteEndProc, SemOp
<1>3. CASE ReadUnlock(p)
  BY <1>3, ReadUnlockMoves DEF ReadUnlock
<1>4. CASE WriteUnlock(p)
  BY <1>4, WriteUnlockMoves DEF WriteUnlock
<1>5. CASE WriteEndProcRemoved(p)
  BY <1>5 DEF TypeOK, WriteEndProcRemoved, Return, Goto, Readers, Writers, Waiting
<1>6. CASE Destroy(p)
  BY <1>6 DEF TypeOK, Destroy, Return, Goto, Readers, Writers, Waiting
<1>7. CASE Crash(p)
  BY <1>7, CrashMoves DEF Crash
<1> QED
  BY <1>1, <1>2, <1>3, <1>4, <1>5, <1>6, <1>7 DEF Step

(* The two semaphores, their kernel undo and the failure path of write_lock *)
(* implement the abstract lock, through signals, kills and destruction.     *)
THEOREM SemaphoresImplementLock == Spec => RefinesRWLock
<1>1. Init => RW!Init
  BY DEF Init, RW!Init, Readers, Writers, Waiting
<1>2. IInv /\ [Next]_vars => [RW!Next]_RW!vars
  <2> SUFFICES ASSUME IInv, [Next]_vars PROVE [RW!Next]_RW!vars
    OBVIOUS
  <2>1. CASE UNCHANGED vars
    BY <2>1 DEF vars, RW!vars, Readers, Waiting, Writers
  <2>2. CASE Next
    BY <2>2, StepRefines, RemovedOnlyDrains DEF IInv
  <2> QED
    BY <2>1, <2>2
<1> QED
  BY <1>1, <1>2, InitInv, StepInv, PTL DEF Spec, RefinesRWLock, RW!Spec
=============================================================================
