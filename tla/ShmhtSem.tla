------------------------------- MODULE ShmhtSem -------------------------------
(***************************************************************************)
(* The read/write lock of shmht_sem.h: two System V semaphores changed by  *)
(* the six sembuf tables of the header, all with SEM_UNDO, and the library *)
(* calls of shmht.c seen as bracketed by it.  SEM_READER counts who is     *)
(* inside, SEM_WRITER counts who has announced a write.  A call of a       *)
(* process is one of                                                       *)
(*   read     read_lock ... read_unlock      (search, count)               *)
(*   write    write_lock ... write_unlock    (insert, remove, flush, ...)  *)
(*   destroy  shmht_destroy                                                *)
(* and is at "wait" (blocked in semop), "in" (the lock function returned   *)
(* success), "fail" (semop(write_start2) failed, write_end_proc is next)   *)
(* or "out".  The kernel's part is modelled from semop(2): a table of      *)
(* operations is applied at once or blocks, a stopped and continued        *)
(* process gets EINTR, a removed set gives EIDRM to sleepers and EINVAL to *)
(* later calls, and exit applies the process's undo adjustments.           *)
(***************************************************************************)
EXTENDS Integers, FiniteSets

CONSTANTS Procs,       \* the processes attached to the table
          Destroyers   \* those of them that may call shmht_destroy

ASSUME ProcsFinite == IsFiniteSet(Procs)
ASSUME DestroyersAreProcs == Destroyers \subseteq Procs

VARIABLES semval,      \* value of each semaphore
          semadj,      \* the kernel's SEM_UNDO adjustments, per process
          exists,      \* the semaphore set has not been removed
          call, at     \* the library call each process is in, and where

vars == <<semval, semadj, exists, call, at>>

SEM_READER == 0
SEM_WRITER == 1
Sems == {SEM_READER, SEM_WRITER}

-------------------------------------------------------------------------------
(* The sembuf tables: which semaphores must be zero, what is added to each *)
Table(mustBeZero, reader, writer) ==
  [zero |-> mustBeZero,
   add  |-> [s \in Sems |-> IF s = SEM_READER THEN reader ELSE writer]]

\* Mutated tables: the zero test or a unit forgotten, or one test too many
read_start_ignores_writers  == Table({}, 1, 0)
read_start_alone            == Table({SEM_READER, SEM_WRITER}, 1, 0)
write_start2_ignores_inside == Table({}, 1, 0)
write_end_keeps_reader      == Table({}, 0, -1)

read_start     == Table({SEM_WRITER}, 1, 0)
read_end       == Table({}, -1, 0)
write_start1   == Table({}, 0, 1)
write_start2   == Table({SEM_READER}, 1, 0)
write_fail_end == Table({}, 0, -1)
write_end      == Table({}, -1, -1)

\* Mutated form: the tables without SEM_UNDO
SemOpNoUndo(p, t) ==
  /\ exists
  /\ \A s \in t.zero : semval[s] = 0
  /\ \A s \in Sems : semval[s] + t.add[s] >= 0
  /\ semval' = [s \in Sems |-> semval[s] + t.add[s]]
  /\ UNCHANGED semadj

\* semop(semid, t): all of t at once, or block; SEM_UNDO records the inverse
SemOp(p, t) ==
  /\ exists
  /\ \A s \in t.zero : semval[s] = 0
  /\ \A s \in Sems : semval[s] + t.add[s] >= 0
  /\ semval' = [s \in Sems |-> semval[s] + t.add[s]]
  /\ semadj' = [semadj EXCEPT ![p] = [s \in Sems |-> @[s] - t.add[s]]]

Goto(p, c, a) ==
  /\ call' = [call EXCEPT ![p] = c]
  /\ at' = [at EXCEPT ![p] = a]

Return(p) == Goto(p, "none", "out")

-------------------------------------------------------------------------------
Init ==
  /\ semval = [s \in Sems |-> 0]
  /\ semadj = [p \in Procs |-> [s \in Sems |-> 0]]
  /\ exists = TRUE
  /\ call = [p \in Procs |-> "none"]
  /\ at = [p \in Procs |-> "out"]

\* read_lock: the call reaches semop(read_start) ...
ReadCall(p) ==
  /\ at[p] = "out"
  /\ Goto(p, "read", "wait")
  /\ UNCHANGED <<semval, semadj, exists>>

\* ... which goes through once no write is announced
ReadLock(p) ==
  /\ call[p] = "read" /\ at[p] = "wait"
  /\ SemOp(p, read_start)
  /\ Goto(p, "read", "in")
  /\ UNCHANGED exists

\* Mutated form: read_lock withdraws as a writer would
ReadLockFailsAsWriter(p) ==
  /\ call[p] = "read" /\ at[p] = "wait"
  /\ Goto(p, "read", "fail")
  /\ UNCHANGED <<semval, semadj, exists>>

\* Mutated form: on a removed set read_lock returns 0 as write_lock does
ReadLockFailsAsSuccess(p) ==
  /\ call[p] = "read" /\ at[p] = "wait"
  /\ IF exists THEN Return(p) ELSE Goto(p, "read", "in")
  /\ UNCHANGED <<semval, semadj, exists>>

\* semop(read_start) fails (EINTR, EIDRM, EINVAL): read_lock returns -1
ReadLockFails(p) ==
  /\ call[p] = "read" /\ at[p] = "wait"
  /\ Return(p)
  /\ UNCHANGED <<semval, semadj, exists>>

\* read_unlock: its result is ignored by search, so a removed set is too
ReadUnlock(p) ==
  /\ call[p] = "read" /\ at[p] = "in"
  /\ IF exists THEN SemOp(p, read_end) ELSE UNCHANGED <<semval, semadj>>
  /\ Return(p)
  /\ UNCHANGED exists

\* write_lock or shmht_destroy: semop(write_start1) never blocks.  On a
\* removed set it fails and the call returns -1 at once: no step
WriteAnnounce(p, c) ==
  /\ at[p] = "out"
  /\ c = "destroy" => p \in Destroyers
  /\ SemOp(p, write_start1)
  /\ Goto(p, c, "wait")
  /\ UNCHANGED exists

\* semop(write_start2) goes through once nobody is inside
WriteLock(p) ==
  /\ call[p] \in {"write", "destroy"} /\ at[p] = "wait"
  /\ SemOp(p, write_start2)
  /\ Goto(p, call[p], "in")
  /\ UNCHANGED exists

\* semop(write_start2) fails: SEMOP evaluates write_end_proc(semid) next
WriteLockFails(p) ==
  /\ call[p] \in {"write", "destroy"} /\ at[p] = "wait"
  /\ Goto(p, call[p], "fail")
  /\ UNCHANGED <<semval, semadj, exists>>

\* Mutated form: write_lock gives up without taking its announcement back
WriteEndProcNoWithdraw(p) ==
  /\ at[p] = "fail"
  /\ exists
  /\ Return(p)
  /\ UNCHANGED <<semval, semadj, exists>>

\* write_end_proc with the set in place: the announcement is withdrawn and
\* the lock function returns -1
WriteEndProc(p) ==
  /\ at[p] = "fail"
  /\ SemOp(p, write_fail_end)
  /\ Return(p)
  /\ UNCHANGED exists

\* write_end_proc with the set removed: its own SEMOP returns 0, and 0 is
\* then what write_lock returns, which every caller reads as success
\* (shmht_destroy returns that 0 to its caller)
WriteEndProcRemoved(p) ==
  /\ at[p] = "fail"
  /\ ~exists
  /\ IF call[p] = "write" THEN Goto(p, "write", "in") ELSE Return(p)
  /\ UNCHANGED <<semval, semadj, exists>>

\* write_unlock: its result is ignored by every caller
WriteUnlock(p) ==
  /\ call[p] = "write" /\ at[p] = "in"
  /\ IF exists THEN SemOp(p, write_end) ELSE UNCHANGED <<semval, semadj>>
  /\ Return(p)
  /\ UNCHANGED exists

\* shmht_destroy with the lock held: IPC_RMID drops the set and every
\* process's undo list, then the segment is marked for removal
Destroy(p) ==
  /\ call[p] = "destroy" /\ at[p] = "in"
  /\ exists' = FALSE
  /\ semadj' = [q \in Procs |-> [s \in Sems |-> 0]]
  /\ semval' = [s \in Sems |-> 0]
  /\ Return(p)

\* the process exits or is killed anywhere in a call; the kernel adds its
\* adjustments to the semaphores (never below zero).  A new process of the
\* same program then starts outside
Crash(p) ==
  /\ at[p] # "out"
  /\ semval' = [s \in Sems |-> IF semval[s] + semadj[p][s] < 0 THEN 0
                               ELSE semval[s] + semadj[p][s]]
  /\ semadj' = [semadj EXCEPT ![p] = [s \in Sems |-> 0]]
  /\ Return(p)
  /\ UNCHANGED exists

Step(p) ==
  \/ ReadCall(p) \/ ReadLock(p) \/ ReadLockFails(p) \/ ReadUnlock(p)
  \/ WriteAnnounce(p, "write") \/ WriteAnnounce(p, "destroy")
  \/ WriteLock(p) \/ WriteLockFails(p)
  \/ WriteEndProc(p) \/ WriteEndProcRemoved(p)
  \/ WriteUnlock(p) \/ Destroy(p) \/ Crash(p)

Next == \E p \in Procs : Step(p)

Spec == Init /\ [][Next]_vars

(***************************************************************************)
(* Fairness.  The code between lock and unlock has no loop that waits, so  *)
(* a process inside or in write_end_proc takes its next step (WF).  A      *)
(* blocked reader whose operation can go through is woken (WF).  The       *)
(* kernel serves the sleepers of a semaphore set in queue order, so a      *)
(* sleeping writer whose operation can go through again and again is       *)
(* served (SF).  A sleeper of a removed set is woken with EIDRM (WF).      *)
(* Nothing makes a process start a call, be interrupted or die.            *)
(***************************************************************************)
Fairness ==
  \A p \in Procs :
    /\ WF_vars(ReadUnlock(p)) /\ WF_vars(WriteUnlock(p)) /\ WF_vars(Destroy(p))
    /\ WF_vars(WriteEndProc(p)) /\ WF_vars(WriteEndProcRemoved(p))
    /\ WF_vars(ReadLock(p)) /\ SF_vars(WriteLock(p))
    /\ WF_vars(~exists /\ (ReadLockFails(p) \/ WriteLockFails(p)))

FairSpec == Spec /\ Fairness

-------------------------------------------------------------------------------
(* Properties *)

Readers == {p \in Procs : call[p] = "read" /\ at[p] = "in"}
Writers == {p \in Procs : call[p] # "read" /\ at[p] = "in"}
Waiting == {p \in Procs : call[p] # "read" /\ at[p] \in {"wait", "fail"}}
Inside  == Readers \cup Writers

(* Every variable has the shape the code gives it; a process is in a call  *)
(* exactly when it is not outside, and only the write side can be in       *)
(* write_end_proc.                                                         *)
TypeOK ==
  /\ semval \in [Sems -> Nat]
  /\ semadj \in [Procs -> [Sems -> Int]]
  /\ exists \in BOOLEAN
  /\ call \in [Procs -> {"none", "read", "write", "destroy"}]
  /\ at \in [Procs -> {"out", "wait", "fail", "in"}]
  /\ \A p \in Procs : /\ at[p] = "out" <=> call[p] = "none"
                      /\ at[p] = "fail" => call[p] # "read"

(* Mutual exclusion of the critical sections of shmht.c, through crashes   *)
(* and interrupted calls, for as long as the semaphores exist: whoever is  *)
(* inside insert, remove, flush, remove_older or destroy is inside alone.  *)
ExclusiveWriter ==
  exists => \A p \in Writers : Inside = {p}

(* No lost and no leaked unit: the semaphores count exactly the processes  *)
(* inside and the processes on the write side, whatever mix of failed      *)
(* semops, withdrawals and kernel undos led here.  A unit too many blocks  *)
(* the table for good, one too few breaks exclusion later.                 *)
SemaphoresCountHolders ==
  exists => /\ semval[SEM_READER] = Cardinality(Inside)
            /\ semval[SEM_WRITER] = Cardinality(Waiting \cup Writers)

(* What the kernel would undo for a process is what the process holds, so  *)
(* a crash at any point returns exactly its own units.                     *)
UndoMatchesHolding ==
  exists => \A p \in Procs :
    /\ semadj[p][SEM_READER] = IF p \in Inside THEN -1 ELSE 0
    /\ semadj[p][SEM_WRITER] = IF p \in Waiting \cup Writers THEN -1 ELSE 0

(* Writer preference: from the moment a process announces a write until it *)
(* leaves, the readers inside only drain, none is let in behind it.        *)
ReadersOnlyDrain ==
  [][exists /\ Waiting \cup Writers # {} => Readers' \subseteq Readers]_vars

(* A writer blocked in write_lock is not overtaken for ever: it gets the   *)
(* lock, or stops waiting because of a signal, a crash or a destroy.       *)
WriterProgress ==
  \A p \in Procs : p \in Waiting ~> p \notin Waiting

(* A reader blocked in read_lock gets out of it unless writers announce    *)
(* themselves again and again: the only starvation the lock allows.        *)
ReaderProgress ==
  \A p \in Procs :
    \/ (call[p] = "read" /\ at[p] = "wait") ~> ~(call[p] = "read" /\ at[p] = "wait")
    \/ []<>(semval[SEM_WRITER] > 0)

(* shmht.h says of shmht_destroy that every process using the table will   *)
(* fail: once the set is removed, no further critical section is entered.  *)
NoEntryAfterDestroy ==
  [][~exists => \A p \in Procs : at'[p] = "in" => at[p] = "in"]_vars

(* The two semaphores, the kernel's undo and the withdrawal of a failed     *)
(* write_lock implement the abstract lock, its removal included: no call    *)
(* that begins after shmht_destroy gets in.                                 *)
RW == INSTANCE RWLock WITH readers <- Readers, waiting <- Waiting,
                           writers <- Writers, removed <- ~exists

RefinesRWLock == RW!Spec
===============================================================================
