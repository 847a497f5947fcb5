---------------------------- MODULE TableExchange ----------------------------
(***************************************************************************)
(* The programs around the table: write_table.c puts a message into it and *)
(* raises a flag, read_table.c answers and lowers it, and destroy_table.c  *)
(* removes the table.  Each begins with create_shmht, whose steps are      *)
(* those of the kernel's calls and of the stores that others go by:        *)
(* nothing holds them together.  Operations on the table are one step,     *)
(* which RWLock promises, and act on a queue of values per key, which      *)
(* KeyFifo promises; only the value is read through a pointer into the     *)
(* segment after the lock is released.  A program may be killed between    *)
(* any two of its steps: segment and semaphores stay as they are.  Kills   *)
(* inside an operation are ShmhtCrash's, those inside the lock ShmhtSem's. *)
(***************************************************************************)
EXTENDS Integers, Sequences, FiniteSets, Functions

CONSTANTS Writers, Readers, Destroyers,   \* each runs once
          AnyOrder,                       \* started in any order, or as intended
          Buckets,                        \* of the table, 1..n
          Word,                           \* values of an unsigned entrycount
          MaxKills                        \* bound on killed programs

Procs == Writers \cup Readers \cup Destroyers

ASSUME ExchangeAssumption ==
  /\ AnyOrder \in BOOLEAN /\ MaxKills \in Nat
  /\ IsFiniteSet(Procs) /\ Cardinality(Procs) =
       Cardinality(Writers) + Cardinality(Readers) + Cardinality(Destroyers)
  /\ Buckets \subseteq Nat \ {0} /\ IsFiniteSet(Buckets)
  /\ Cardinality(Buckets) > Cardinality(Procs) + 1
  /\ Word \in Nat /\ Word > Cardinality(Buckets)

VARIABLES shm, sem,     \* what the key leads to: a segment, a semaphore set, or 0
          made,         \* segments and sets made so far
          mem,          \* the contents of each segment
          pc, created,  \* per process: where it is, create_shmht's created
          seg, set,     \* its segment, create_shmht's semaphore
          ptr, got,     \* a pointer into the segment, the answer it found
          served,       \* history: who was started since the last destruction
          killed,       \* history: programs killed so far
          broken        \* history: one was killed with the table half made or gone

kernel == <<shm, sem, made>>
handles == <<created, seg, set>>
vars == <<kernel, mem, pc, handles, ptr, got, served, killed, broken>>

Keys == {"flag", "key"}
Ids == 0..Cardinality(Procs)
Blank == [semaphore |-> 0, shmid |-> 0, entrycount |-> 0,
          queue |-> [k \in Keys |-> <<>>], val |-> [b \in Buckets |-> ""]]

Init ==
  /\ shm = 0 /\ sem = 0 /\ made = [shm |-> 0, sem |-> 0]
  /\ mem = [i \in Ids |-> Blank]
  /\ pc = [p \in Procs |-> "off"] /\ created = [p \in Procs |-> FALSE]
  /\ seg = [p \in Procs |-> 0] /\ set = [p \in Procs |-> 0]
  /\ ptr = [p \in Procs |-> 0] /\ got = [p \in Procs |-> ""]
  /\ served = {} /\ killed = 0 /\ broken = FALSE

At(p, from, to) ==
  pc[p] = from /\ pc' = [pc EXCEPT ![p] = to] /\ UNCHANGED <<killed, broken>>

-----------------------------------------------------------------------------
(* Starting a program, by hand.  It is intended that the table is made and *)
(* its creator through with create_shmht, or nobody else runs, when a      *)
(* program starts; that one writer and one reader use it; and that it is   *)
(* destroyed when they are done, before the next ones start.               *)

InCreate == {"shmget", "shmcreate", "bzero", "semget", "semcreate", "setval",
             "store", "storeid", "reset"}
Running == {p \in Procs : pc[p] \notin {"off", "done", "crashed", "killed"}}
Complete == shm # 0 /\ mem[shm].semaphore # 0 /\ mem[shm].semaphore = sem
Made == Complete /\ \A q \in Running : ~(created[q] /\ pc[q] \in InCreate)

Intended(p) ==
  /\ Made \/ Running = {}
  /\ \A q \in Running : q \notin Destroyers
  /\ p \in Writers => served \cap Writers = {}
  /\ p \in Readers => served \cap Readers = {}
  /\ p \in Destroyers => Running = {}

Start(p) ==
  /\ At(p, "off", "shmget")
  /\ AnyOrder \/ Intended(p)
  /\ served' = served \cup {p}
  /\ UNCHANGED <<kernel, mem, handles, ptr, got>>

-----------------------------------------------------------------------------
(* create_shmht                                                            *)

First(p) ==
  IF p \in Writers THEN "send" ELSE IF p \in Readers THEN "poll" ELSE "rmsem"

CreateStep(p, from, to) == At(p, from, to) /\ UNCHANGED <<ptr, got, served>>

Shmget(p) ==
  /\ CreateStep(p, "shmget", IF shm = 0 THEN "shmcreate" ELSE "semget")
  /\ seg' = [seg EXCEPT ![p] = shm]
  /\ UNCHANGED <<kernel, mem, created, set>>

\* without IPC_EXCL: another process may have made it meanwhile
ShmCreate(p) ==
  /\ CreateStep(p, "shmcreate", "bzero")
  /\ IF shm = 0
     THEN made' = [made EXCEPT !.shm = @ + 1] /\ shm' = made'.shm
     ELSE UNCHANGED <<made, shm>>
  /\ seg' = [seg EXCEPT ![p] = shm']
  /\ created' = [created EXCEPT ![p] = TRUE]
  /\ UNCHANGED <<sem, mem, set>>

Bzero(p) ==
  /\ CreateStep(p, "bzero", "semget")
  /\ mem' = [mem EXCEPT ![seg[p]] = Blank]
  /\ UNCHANGED <<kernel, handles>>

\* Mutated form: a set that is there is taken for a new one
SemgetTakesForNew(p) ==
  /\ CreateStep(p, "semget", "semcreate")
  /\ set' = [set EXCEPT ![p] = sem]
  /\ UNCHANGED <<kernel, mem, created, seg>>

Semget(p) ==
  /\ CreateStep(p, "semget", IF sem = 0 THEN "semcreate" ELSE "store")
  /\ set' = [set EXCEPT ![p] = sem]
  /\ UNCHANGED <<kernel, mem, created, seg>>

SemCreate(p) ==
  /\ CreateStep(p, "semcreate", "setval")
  /\ IF sem = 0
     THEN made' = [made EXCEPT !.sem = @ + 1] /\ sem' = made'.sem
     ELSE UNCHANGED <<made, sem>>
  /\ set' = [set EXCEPT ![p] = sem']
  /\ UNCHANGED <<shm, mem, created, seg>>

\* both semaphores become 0, whoever holds them (operations being one step,
\* nobody does here); a set that is gone: NULL is returned, and used
SetVal(p) ==
  /\ CreateStep(p, "setval", IF set[p] = sem THEN "store" ELSE "crashed")
  /\ UNCHANGED <<kernel, mem, handles>>

\* Mutated forms: no creator stores the id; who is none clears the counter
StoreNothing(p) ==
  /\ CreateStep(p, "store", IF created[p] THEN "storeid" ELSE First(p))
  /\ UNCHANGED <<kernel, mem, handles>>

StoreResets(p) ==
  /\ CreateStep(p, "store", IF created[p] THEN "storeid" ELSE First(p))
  /\ mem' = IF created[p] THEN [mem EXCEPT ![seg[p]].semaphore = set[p]]
            ELSE [mem EXCEPT ![seg[p]].entrycount = 0]
  /\ UNCHANGED <<kernel, handles>>

\* the id that others lock with; who has not created stores nothing new
Store(p) ==
  /\ CreateStep(p, "store", IF created[p] THEN "storeid" ELSE First(p))
  /\ mem' = IF created[p] THEN [mem EXCEPT ![seg[p]].semaphore = set[p]] ELSE mem
  /\ UNCHANGED <<kernel, handles>>

\* Mutated form: the segment's id is not stored
StoreNoShmid(p) ==
  /\ CreateStep(p, "storeid", "reset")
  /\ UNCHANGED <<kernel, mem, handles>>

StoreShmid(p) ==
  /\ CreateStep(p, "storeid", "reset")
  /\ mem' = [mem EXCEPT ![seg[p]].shmid = seg[p]]
  /\ UNCHANGED <<kernel, handles>>

\* entrycount = 0 comes last, when others may have the lock already
Reset(p) ==
  /\ CreateStep(p, "reset", First(p))
  /\ mem' = [mem EXCEPT ![seg[p]].entrycount = 0]
  /\ UNCHANGED <<kernel, handles>>

Create(p) ==
  \/ Shmget(p) \/ ShmCreate(p) \/ Bzero(p) \/ Semget(p)
  \/ SemCreate(p) \/ SetVal(p) \/ Store(p)
  \/ StoreShmid(p) \/ Reset(p)

-----------------------------------------------------------------------------
(* Operations of the table, by a process whose segment is table            *)

Table(p) == mem[seg[p]]

\* read_lock and write_lock fail when there is no such semaphore set
Locks(p) == Table(p).semaphore # 0 /\ Table(p).semaphore = sem

InUse(p) == UNION {Range(Table(p).queue[k]) : k \in Keys}
FreeBucket(p) == LET left == Buckets \ InUse(p) IN CHOOSE b \in left : \A c \in left : b <= c
HasRoom(p) == Table(p).entrycount < Cardinality(Buckets) /\ InUse(p) # Buckets
FirstOf(p, k) ==
  IF Locks(p) /\ Table(p).queue[k] # <<>> THEN Head(Table(p).queue[k]) ELSE 0

UseStep(p, from, to) == At(p, from, to) /\ UNCHANGED <<kernel, handles, served>>

Insert(p, k, v, from, to) ==
  /\ UseStep(p, from, to)
  /\ mem' = IF Locks(p) /\ HasRoom(p)
            THEN [mem EXCEPT ![seg[p]].queue[k] = Append(@, FreeBucket(p)),
                             ![seg[p]].val[FreeBucket(p)] = v,
                             ![seg[p]].entrycount = @ + 1]
            ELSE mem
  /\ UNCHANGED <<ptr, got>>

Remove(p, k, from, to) ==
  /\ UseStep(p, from, to)
  /\ mem' = IF FirstOf(p, k) # 0
            THEN [mem EXCEPT ![seg[p]].queue[k] = Tail(@),
                             ![seg[p]].entrycount = (@ - 1) % Word]
            ELSE mem
  /\ UNCHANGED <<ptr, got>>

\* shmht_search of the flag, which is read only in the next step
Poll(p) ==
  /\ UseStep(p, "poll", "look")
  /\ ptr' = [ptr EXCEPT ![p] = FirstOf(p, "flag")]
  /\ UNCHANGED <<mem, got>>

\* flag_val = val_pointer ? *(int*)val_pointer : otherwise
Look(p, awaited, to) ==
  /\ UseStep(p, "look",
       IF ptr[p] # 0 /\ Table(p).val[ptr[p]] = awaited THEN to ELSE "poll")
  /\ ptr' = [ptr EXCEPT ![p] = 0]
  /\ UNCHANGED <<mem, got>>

Fetch(p, from, to) ==
  /\ UseStep(p, from, to)
  /\ got' = [got EXCEPT ![p] =
       IF FirstOf(p, "key") = 0 THEN "NULL" ELSE Table(p).val[FirstOf(p, "key")]]
  /\ UNCHANGED <<mem, ptr>>

-----------------------------------------------------------------------------
(* write_table.c, read_table.c and shmht_destroy                           *)

\* Mutated form: the flag is raised before the message is there
WriteFlagFirst(p) ==
  \/ Remove(p, "flag", "send", "raise")
  \/ Insert(p, "flag", "1", "raise", "clear")
  \/ Insert(p, "key", "message", "clear", "poll")
  \/ Poll(p) \/ Look(p, "0", "fetch")
  \/ Fetch(p, "fetch", "done")

Write(p) ==
  \/ Insert(p, "key", "message", "send", "clear")
  \/ Remove(p, "flag", "clear", "raise")
  \/ Insert(p, "flag", "1", "raise", "poll")
  \/ Poll(p) \/ Look(p, "0", "fetch")
  \/ Fetch(p, "fetch", "done")

\* Mutated form: the flag is lowered behind the raised one
ReadFlagBehind(p) ==
  \/ Poll(p) \/ Look(p, "1", "fetch")
  \/ Fetch(p, "fetch", "take")
  \/ Remove(p, "key", "take", "answer")
  \/ Insert(p, "key", "Returned!", "answer", "lower")
  \/ Insert(p, "flag", "0", "lower", "done")

Read(p) ==
  \/ Poll(p) \/ Look(p, "1", "fetch")
  \/ Fetch(p, "fetch", "take")
  \/ Remove(p, "key", "take", "answer")
  \/ Insert(p, "key", "Returned!", "answer", "clear")
  \/ Remove(p, "flag", "clear", "lower")
  \/ Insert(p, "flag", "0", "lower", "done")

\* shmht_destroy takes the write lock first and returns if there is none
RmSem(p) ==
  /\ At(p, "rmsem", IF Locks(p) THEN "rmshm" ELSE "done")
  /\ sem' = IF Locks(p) THEN 0 ELSE sem
  /\ UNCHANGED <<shm, made, mem, handles, ptr, got, served>>

RmShm(p) ==
  /\ At(p, "rmshm", "done")
  /\ shm' = IF Table(p).shmid = shm THEN 0 ELSE shm
  /\ served' = {}
  /\ UNCHANGED <<sem, made, mem, handles, ptr, got>>

\* between two steps.  A creator's table is half made until its ids are stored,
\* a destroyer's is half gone once its semaphores are
Kill(p) ==
  /\ p \in Running /\ killed < MaxKills
  /\ pc' = [pc EXCEPT ![p] = "killed"]
  /\ killed' = killed + 1
  /\ broken' = (broken \/ pc[p] = "rmshm" \/ (created[p] /\ pc[p] \in InCreate \ {"reset"}))
  /\ UNCHANGED <<kernel, mem, handles, ptr, got, served>>

Run(p) ==
  \/ Create(p)
  \/ p \in Writers /\ Write(p)
  \/ p \in Readers /\ Read(p)
  \/ p \in Destroyers /\ (RmSem(p) \/ RmShm(p))

Next == \E p \in Procs : Start(p) \/ Run(p) \/ Kill(p)

Spec == Init /\ [][Next]_vars

\* a program that was started runs: it blocks only in the table's lock
FairSpec == Spec /\ \A p \in Procs : WF_vars(Run(p))

-----------------------------------------------------------------------------
(* Properties *)

\* the programs are run as intended, and no table was left half made or gone
Orderly == ~AnyOrder /\ ~broken

(* When the programs are run as intended, all that are past create_shmht   *)
(* use the segment and the lock that a new one would find, unless one was  *)
(* killed with the table half made or half gone: whatever else a killed    *)
(* program leaves is a table that the next can use.                        *)
OneTable ==
  Orderly => \A p \in Running \ Destroyers :
    pc[p] \notin InCreate => seg[p] = shm /\ Complete

(* So destroy_table, which needs the table's lock to remove it, leaves     *)
(* neither segment nor semaphores in such runs, even after programs that   *)
(* were killed.                                                            *)
DestroyLeavesNothing ==
  [][ Orderly => \A p \in Destroyers :
        pc[p] # "done" /\ pc'[p] = "done" => shm' = 0 /\ sem' = 0 ]_vars

\* entrycount, by which inserts are refused, is the number of entries
Counted ==
  \A i \in Ids : mem[i].entrycount = Len(mem[i].queue["flag"]) + Len(mem[i].queue["key"])

(* shmht.h:105 says that shmht_count returns "the number of items stored   *)
(* in the hashtable".  When the programs are run as intended it does,      *)
(* whoever is killed: no creator resets the counter of a table that others *)
(* have come to use, and no entry is left uncounted for the next ones.     *)
CountedInOrder == ~AnyOrder => Counted

(* In such runs the reader finds the message of the writer beside it and   *)
(* the writer finds the answer, never its own message, a leftover or       *)
(* nothing, although both look at the flag through a pointer to a bucket   *)
(* that may be freed and used again before they do.                        *)
Delivered ==
  ~AnyOrder => \A p \in Procs :
    got[p] \in {"", IF p \in Readers THEN "message" ELSE "Returned!"}

(* In such runs a writer and a reader of one table come to their end, if   *)
(* neither is killed.                                                      *)
BothEnd ==
  ~AnyOrder => \A w \in Writers, r \in Readers :
    {w, r} \subseteq served ~>
      {pc[w], pc[r]} = {"done"} \/ "killed" \in {pc[w], pc[r]} \/ broken

(* shmht.h:19 says that "the accesses are controlled by a semaphore R/W    *)
(* lock", "so not concurrency problem is possible": a program that comes   *)
(* to the table, or is still making it, changes nothing of what others     *)
(* have stored and counted.  But create_shmht takes no lock: a creator     *)
(* sets the counter to 0 after others can use the table, and the second of *)
(* two creators clears the segment.                                        *)
CreateDisturbsNobody ==
  [][ \A p \in Procs : pc[p] \in InCreate /\ pc'[p] # pc[p] =>
        \A i \in Ids : /\ mem'[i].queue = mem[i].queue
                       /\ mem'[i].entrycount = mem[i].entrycount ]_vars
=============================================================================
