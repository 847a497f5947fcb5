-------------------------- MODULE TableExchangeProofs --------------------------
(***************************************************************************)
(* That the programs around the table, started as intended and killed      *)
(* anywhere, use one table and one lock and give each other the right      *)
(* answers, for any number of programs.  The argument is that whoever      *)
(* finds no complete table is alone, and stays so until it is through with *)
(* making one, so that it resets a counter that is 0; and that what the    *)
(* queues of a complete table hold is one of seven stages, which tells     *)
(* where its writer and its reader may be.                                 *)
(***************************************************************************)
EXTENDS TableExchange, FiniteSetTheorems, WellFoundedInduction, TLAPS

-----------------------------------------------------------------------------
(* The invariant: kernel, segments and handles                             *)

Creating(p) == pc[p] \in InCreate

\* it leaves a table half made, or half gone, if it is killed here
Halfway(p) == pc[p] = "rmshm" \/ (created[p] /\ Creating(p) /\ pc[p] # "reset")

Over == {"off", "done", "crashed", "killed"}
Using == {"send", "clear", "raise", "poll", "look", "fetch", "take", "answer", "lower"}
Places == Over \cup InCreate \cup Using \cup {"rmsem", "rmshm"}

Words == {"", "message", "Returned!", "0", "1"}
Segment == [semaphore : Nat, shmid : Nat, entrycount : Nat,
            queue : [Keys -> Seq(Buckets)], val : [Buckets -> Words]]

Typed ==
  /\ made \in [shm : Nat, sem : Nat]
  /\ shm \in Nat /\ sem \in Nat
  /\ mem \in [Ids -> Segment]
  /\ pc \in [Procs -> Places] /\ created \in [Procs -> BOOLEAN]
  /\ seg \in [Procs -> Nat] /\ set \in [Procs -> Nat]
  /\ ptr \in [Procs -> Nat] /\ got \in [Procs -> Words \cup {"NULL"}]

Served == served \subseteq Procs /\ Running \subseteq served

\* a process makes one segment
MadeBound == made.shm <= Cardinality({p \in Procs : created[p]})

Roles == \A p \in Procs :
  /\ pc[p] \in {"rmsem", "rmshm"} => p \in Destroyers
  /\ pc[p] \in {"send", "raise"} => p \in Writers
  /\ pc[p] \in {"take", "answer", "lower"} => p \in Readers
  /\ pc[p] \in {"clear", "poll", "look", "fetch"} => p \in Writers \cup Readers
  /\ ptr[p] # 0 => pc[p] \in {"look", "killed"}
  /\ pc[p] \in {"off", "shmget", "shmcreate"} => ~created[p]

\* ids are given out once
Segments ==
  /\ shm <= made.shm /\ sem <= made.sem
  /\ shm = 0 => sem = 0
  /\ \A i \in Ids : /\ mem[i].semaphore <= made.sem
                    /\ i > made.shm => mem[i] = Blank

HandlesOf(p) ==
  /\ pc[p] # "shmget" => seg[p] = shm
  /\ pc[p] = "shmcreate" => shm = 0
  /\ pc[p] \notin {"shmget", "shmcreate"} => shm # 0
  /\ pc[p] \in {"bzero", "storeid", "reset"} => created[p]
  /\ created[p] /\ pc[p] \in {"bzero", "semget"} => sem = 0
  /\ pc[p] \in {"semcreate", "rmshm"} => sem = 0
  /\ pc[p] = "rmshm" => mem[shm].shmid = shm \/ broken
  /\ pc[p] \in {"semcreate", "setval", "store"} => set[p] = sem
  /\ pc[p] = "setval" => mem[shm].semaphore # sem
  /\ pc[p] \in {"setval", "store"} => sem # 0
  /\ created[p] /\ Creating(p) /\ pc[p] \notin {"storeid", "reset"} => mem[shm] = Blank
  /\ pc[p] \in {"storeid", "reset"} => Complete /\ mem[shm].entrycount = 0
  /\ pc[p] = "reset" => mem[shm].shmid = shm

Handles == \A p \in Running : HandlesOf(p)

\* who finds no complete table is alone, and so is who creates or destroys one
Alone ==
  /\ Complete \/ \A p, q \in Running : p = q
  /\ \A p \in Running \cap Destroyers, q \in Running : p = q
  /\ \A p, q \in Running : created[p] /\ Creating(p) => p = q

\* a table that can be used, and destroyed
Whole == Complete /\ mem[shm].shmid = shm

Settled == ~broken => Whole \/ shm = 0 \/ \E p \in Running : Halfway(p)

KInv == Typed /\ Served /\ MadeBound /\ Roles /\ Segments /\ Handles /\ Alone /\ Settled

-----------------------------------------------------------------------------
(* Constants                                                               *)

LEMMA Kinds ==
  /\ Writers \cap Readers = {} /\ Writers \cap Destroyers = {}
  /\ Readers \cap Destroyers = {}
  /\ IsFiniteSet(Procs) /\ Cardinality(Procs) \in Nat
<1>1. IsFiniteSet(Procs) /\ Cardinality(Procs) \in Nat
  BY ExchangeAssumption, FS_CardinalityType
<1>2. /\ IsFiniteSet(Writers) /\ Cardinality(Writers) \in Nat
      /\ IsFiniteSet(Readers) /\ Cardinality(Readers) \in Nat
      /\ IsFiniteSet(Destroyers) /\ Cardinality(Destroyers) \in Nat
  <2>1. Writers \in SUBSET Procs /\ Readers \in SUBSET Procs /\ Destroyers \in SUBSET Procs
    BY DEF Procs
  <2>. QED BY <1>1, <2>1, FS_Subset, FS_CardinalityType
<1> DEFINE WR == Writers \cup Readers
<1>3. /\ IsFiniteSet(WR) /\ Cardinality(WR) \in Nat
      /\ IsFiniteSet(Writers \cap Readers) /\ IsFiniteSet(WR \cap Destroyers)
      /\ Cardinality(Writers \cap Readers) \in Nat /\ Cardinality(WR \cap Destroyers) \in Nat
  <2>1. Writers \cap Readers \in SUBSET Writers /\ WR \cap Destroyers \in SUBSET Destroyers
    OBVIOUS
  <2>2. IsFiniteSet(WR)
    BY <1>2, FS_Union
  <2>3. IsFiniteSet(Writers \cap Readers) /\ IsFiniteSet(WR \cap Destroyers)
    BY <1>2, <2>1, FS_Subset
  <2>. QED BY <2>2, <2>3, FS_CardinalityType
<1>4. Cardinality(WR) =
        Cardinality(Writers) + Cardinality(Readers) - Cardinality(Writers \cap Readers)
  BY <1>2, FS_Union
<1>5. Cardinality(Procs) =
        Cardinality(WR) + Cardinality(Destroyers) - Cardinality(WR \cap Destroyers)
  BY <1>2, <1>3, FS_Union DEF Procs
<1>6. Cardinality(Writers \cap Readers) = 0 /\ Cardinality(WR \cap Destroyers) = 0
  <2>1. Cardinality(Procs) =
          Cardinality(Writers) + Cardinality(Readers) + Cardinality(Destroyers)
    BY ExchangeAssumption
  <2> HIDE DEF WR
  <2>. QED BY <1>2, <1>3, <1>4, <1>5, <2>1
<1>7. Writers \cap Readers = {} /\ WR \cap Destroyers = {}
  BY <1>3, <1>6, FS_EmptySet
<1>. QED BY <1>1, <1>7

LEMMA WordsAreNat == ASSUME NEW c \in Int PROVE c % Word \in Nat
<1>1. Cardinality(Buckets) \in Nat
  BY ExchangeAssumption, FS_CardinalityType
<1>2. Word \in Nat /\ Word > 0
  BY <1>1, ExchangeAssumption
<1>. QED BY <1>2

LEMMA BlankTyped == Blank \in Segment /\ Blank.semaphore = 0 /\ Blank.entrycount = 0
<1>1. [k \in Keys |-> <<>>] \in [Keys -> Seq(Buckets)]
  OBVIOUS
<1>2. [b \in Buckets |-> ""] \in [Buckets -> Words]
  BY DEF Words
<1>. QED BY <1>1, <1>2 DEF Blank, Segment

\* the segments of those who have made one, and of one more process, are ids
LEMMA SegmentIds ==
  ASSUME Typed, MadeBound
  PROVE  /\ \A i \in Nat : i <= made.shm => i \in Ids
         /\ \A p \in Procs : ~created[p] =>
              /\ made.shm + 1 \in Ids
              /\ made.shm + 1 <= Cardinality({q \in Procs : [created EXCEPT ![p] = TRUE][q]})
<1> DEFINE Makers == {p \in Procs : created[p]}
<1>1. /\ IsFiniteSet(Makers) /\ Cardinality(Makers) \in Nat
      /\ Cardinality(Makers) <= Cardinality(Procs) /\ Cardinality(Procs) \in Nat
      /\ made.shm \in Nat
  <2>1. Makers \in SUBSET Procs
    OBVIOUS
  <2>2. IsFiniteSet(Makers) /\ Cardinality(Makers) <= Cardinality(Procs)
    BY <2>1, Kinds, FS_Subset
  <2>. QED BY <2>2, Kinds, FS_CardinalityType DEF Typed
<1>2. ASSUME NEW p \in Procs, ~created[p]
      PROVE  /\ Cardinality(Makers) + 1 <= Cardinality(Procs)
             /\ Cardinality({q \in Procs : [created EXCEPT ![p] = TRUE][q]})
                  = Cardinality(Makers) + 1
  <2> DEFINE More == {q \in Procs : [created EXCEPT ![p] = TRUE][q]}
  <2>1. More = Makers \cup {p} /\ p \notin Makers /\ More \in SUBSET Procs
    BY <1>2 DEF Typed
  <2>2. Cardinality(More) = Cardinality(Makers) + 1
    BY <1>1, <2>1, FS_AddElement
  <2>3. Cardinality(More) <= Cardinality(Procs)
    BY <2>1, Kinds, FS_Subset
  <2>. QED BY <2>2, <2>3
<1>3. made.shm <= Cardinality(Makers)
  BY DEF MadeBound
<1> HIDE DEF Makers
<1>4. \A i \in Nat : i <= made.shm => i \in Ids
  BY <1>1, <1>3 DEF Ids
<1>. QED BY <1>1, <1>2, <1>3, <1>4 DEF Ids

-----------------------------------------------------------------------------
(* What every step does                                                    *)

LEMMA Moves ==
  ASSUME Typed, NEW p \in Procs, NEW x \in Places, pc' = [pc EXCEPT ![p] = x]
  PROVE  /\ pc' \in [Procs -> Places] /\ pc'[p] = x
         /\ \A q \in Procs : q # p => pc'[q] = pc[q]
         /\ \A q \in Procs : q # p => (q \in Running' <=> q \in Running)
         /\ p \in Running' <=> x \notin Over
         /\ Running' \subseteq Running \cup {p}
BY DEF Typed, Running, Over

LEMMA RunningPlace ==
  ASSUME NEW p \in Running
  PROVE  p \in Procs /\ pc[p] \notin Over
BY DEF Running, Over

\* steps that change no segment: a process is started, killed, or learns an id
LEMMA LocalKeeps ==
  ASSUME KInv, NEW p \in Procs, NEW x \in Places, pc' = [pc EXCEPT ![p] = x],
         UNCHANGED <<shm, sem, made, mem, created>>, broken => broken',
         \A q \in Procs \ {p} : seg'[q] = seg[q] /\ set'[q] = set[q],
         x \notin Over => HandlesOf(p)'
  PROVE  /\ MadeBound' /\ Segments' /\ Handles' /\ Complete' = Complete /\ Whole' = Whole
         /\ p \in Running /\ (x \in InCreate => Creating(p)) => Alone'
<1>. USE DEF KInv
<1>1. /\ \A q \in Procs : q # p => pc'[q] = pc[q] /\ (q \in Running' <=> q \in Running)
      /\ p \in Running' <=> x \notin Over
      /\ Running' \subseteq Running \cup {p}
  BY Moves
<1>2. MadeBound' /\ Segments'
  BY DEF MadeBound, Segments
<1>3. Complete' = Complete /\ Whole' = Whole
  BY DEF Complete, Whole
<1>4. Handles'
  <2>. SUFFICES ASSUME NEW q \in Running' PROVE HandlesOf(q)'
    BY DEF Handles
  <2>1. CASE q = p
    BY <1>1, <2>1
  <2>2. CASE q # p
    <3>1. q \in Procs /\ q \in Running
      BY <1>1, <2>2 DEF Running
    <3>2. HandlesOf(q) /\ pc'[q] = pc[q] /\ seg'[q] = seg[q] /\ set'[q] = set[q]
      BY <1>1, <2>2, <3>1 DEF Handles
    <3>. QED BY <1>3, <3>2 DEF HandlesOf, Creating
  <2>. QED BY <2>1, <2>2
<1>5. ASSUME p \in Running, x \in InCreate => Creating(p) PROVE Alone'
  <2>1. Running' \subseteq Running
    BY <1>1, <1>5
  <2>2. \A q \in Running' : (created[q] /\ Creating(q))' => created[q] /\ Creating(q)
    <3>. SUFFICES ASSUME NEW q \in Running', (created[q] /\ Creating(q))'
                  PROVE  created[q] /\ Creating(q)
      OBVIOUS
    <3>1. q \in Procs
      BY DEF Running
    <3>. QED BY <1>1, <1>5, <3>1, Moves DEF Creating
  <2>. QED BY <1>3, <2>1, <2>2 DEF Alone
<1>. QED BY <1>2, <1>3, <1>4, <1>5

\* operations on the table: the queues and values of one segment change
LEMMA UseKeeps ==
  ASSUME KInv, NEW p \in Procs, NEW x \in Using \cup {"done"},
         pc[p] \in Using, pc' = [pc EXCEPT ![p] = x],
         UNCHANGED <<shm, sem, made, created, seg, set, served, broken>>,
         \A i \in Ids : /\ mem'[i].semaphore = mem[i].semaphore
                        /\ mem'[i].shmid = mem[i].shmid
                        /\ i # shm => mem'[i] = mem[i]
  PROVE  /\ Served' /\ MadeBound' /\ Segments' /\ Handles' /\ Alone' /\ Settled'
         /\ Complete' = Complete
<1>. USE DEF KInv
<1>1. /\ x \in Places /\ p \in Running /\ pc'[p] = x
      /\ \A q \in Procs : q # p => pc'[q] = pc[q] /\ (q \in Running' <=> q \in Running)
      /\ Running' \subseteq Running \cup {p}
  <2>1. x \in Places
    BY DEF Places, Over
  <2>2. p \in Running
    BY DEF Running, Using
  <2>. QED BY <2>1, <2>2, Moves
<1>2. shm \in Ids
  BY SegmentIds DEF Typed, Segments
<1>3. Served' /\ MadeBound'
  BY <1>1 DEF Served, MadeBound
<1>4. Segments'
  <2>1. \A i \in Ids : i > made.shm => i # shm
    BY DEF Segments, Typed, Ids
  <2>. QED BY <2>1 DEF Segments
<1>5. Complete' = Complete /\ Whole' = Whole
  BY <1>2 DEF Complete, Whole
<1>6. Handles'
  <2>. SUFFICES ASSUME NEW q \in Running' PROVE HandlesOf(q)'
    BY DEF Handles
  <2>1. CASE q = p
    <3>1. pc'[p] \in Using
      <4>1. pc'[p] = x
        BY <1>1, Moves
      <4>2. x # "done"
        BY <2>1, <4>1 DEF Running
      <4>. QED BY <4>1, <4>2
    <3>2. seg[p] = shm /\ shm # 0
      BY <1>1 DEF Handles, HandlesOf, Using
    <3>. QED BY <2>1, <3>1, <3>2 DEF HandlesOf, Creating, Using, InCreate
  <2>2. CASE q # p
    <3>1. q \in Procs /\ q \in Running
      BY <1>1, <2>2 DEF Running
    <3>2. HandlesOf(q) /\ pc'[q] = pc[q]
      BY <1>1, <2>2, <3>1 DEF Handles
    <3>3. ~(created[q] /\ Creating(q))
      BY <1>1, <2>2, <3>1 DEF Alone
    <3>4. ~(created[q] /\ Creating(q))' /\ pc[q] \notin {"bzero", "storeid", "reset"}
      BY <3>2, <3>3 DEF HandlesOf, Creating, InCreate
    <3>. QED BY <1>2, <3>2, <3>4 DEF HandlesOf
  <2>. QED BY <2>1, <2>2
<1>7. Alone'
  <2>1. Running' \subseteq Running
    BY <1>1
  <2>2. \A q \in Running' : (created[q] /\ Creating(q))' => created[q] /\ Creating(q)
    <3>. SUFFICES ASSUME NEW q \in Running', (created[q] /\ Creating(q))'
                  PROVE  created[q] /\ Creating(q)
      OBVIOUS
    <3>1. q \in Procs /\ q # p
      BY <1>1 DEF Running, Creating, InCreate, Using
    <3>. QED BY <1>1, <3>1 DEF Creating
  <2>. QED BY <1>5, <2>1, <2>2 DEF Alone
<1>8. Settled'
  <2>1. \A q \in Running : Halfway(q) => q \in Running' /\ Halfway(q)'
    BY <1>1 DEF Halfway, Creating, Using, InCreate, Running
  <2>. QED BY <1>5, <2>1 DEF Settled
<1>. QED BY <1>3, <1>4, <1>5, <1>6, <1>7, <1>8

-----------------------------------------------------------------------------
(* Starting and ending a program                                           *)

LEMMA InitKeeps == ASSUME Init PROVE KInv
<1>1. Running = {}
  BY DEF Init, Running
<1>2. Typed
  BY BlankTyped DEF Init, Typed, Places, Over, Words
<1>3. MadeBound
  <2>1. \A p \in Procs : ~created[p]
    BY DEF Init
  <2>2. {p \in Procs : created[p]} = {}
    BY <2>1
  <2>3. made.shm = 0
    BY DEF Init
  <2>. QED BY <2>2, <2>3, FS_EmptySet DEF MadeBound
<1>4. Segments
  <2>1. \A i \in Ids : mem[i] = Blank /\ mem[i].semaphore = 0
    BY BlankTyped DEF Init
  <2>2. shm = 0 /\ sem = 0 /\ made.shm = 0 /\ made.sem = 0
    BY DEF Init
  <2>. QED BY <2>1, <2>2 DEF Segments
<1>5. Served /\ Roles /\ Handles /\ Alone /\ Settled
  BY <1>1 DEF Init, Served, Roles, Handles, Alone, Settled
<1>. QED BY <1>2, <1>3, <1>4, <1>5 DEF KInv

LEMMA StartKeeps == ASSUME KInv, ~AnyOrder, NEW p \in Procs, Start(p) PROVE KInv'
<1>. USE DEF KInv
<1>1. /\ pc[p] = "off" /\ pc' = [pc EXCEPT ![p] = "shmget"] /\ Intended(p)
      /\ served' = served \cup {p}
      /\ UNCHANGED <<shm, sem, made, mem, created, seg, set, ptr, got, broken>>
  BY DEF Start, At, kernel, handles
<1>2. "shmget" \in Places /\ "shmget" \notin Over /\ p \notin Running
  BY <1>1 DEF Places, InCreate, Over, Running
<1>3. /\ pc'[p] = "shmget" /\ \A q \in Procs : q # p => pc'[q] = pc[q]
      /\ Running' \subseteq Running \cup {p} /\ pc' \in [Procs -> Places]
      /\ \A q \in Procs : q # p => (q \in Running' <=> q \in Running)
  BY <1>1, <1>2, Moves
<1>4. HandlesOf(p)'
  <2>1. ~created[p]
    BY <1>1 DEF Roles
  <2>. QED BY <1>1, <1>3, <2>1 DEF HandlesOf
<1>5. MadeBound' /\ Segments' /\ Handles' /\ Complete' = Complete /\ Whole' = Whole
  BY <1>1, <1>2, <1>4, LocalKeeps
<1>6. Typed' /\ Served' /\ Roles'
  BY <1>1, <1>3 DEF Typed, Served, Roles
<1>7. Alone'
  <2>1. Complete' \/ \A q, r \in Running' : q = r
    BY <1>1, <1>3, <1>5 DEF Intended, Made
  <2>2. \A q \in Running' \cap Destroyers, r \in Running' : q = r
    BY <1>1, <1>3, Kinds DEF Intended, Alone
  <2>3. \A q \in Running' : ~(created[q] /\ Creating(q))'
    <3>. SUFFICES ASSUME NEW q \in Running', (created[q] /\ Creating(q))' PROVE FALSE
      OBVIOUS
    <3>1. q # p
      BY <1>1 DEF Roles
    <3>2. q \in Running /\ created[q] /\ Creating(q)
      BY <1>1, <1>3, <3>1 DEF Creating, Running
    <3>. QED BY <1>1, <3>2 DEF Intended, Made, Creating
  <2>. QED BY <2>1, <2>2, <2>3 DEF Alone
<1>8. Settled'
  <2>1. \A q \in Running : Halfway(q) => q \in Running' /\ Halfway(q)'
    BY <1>1, <1>2, <1>3 DEF Halfway, Creating, Running
  <2>. QED BY <1>1, <1>5, <2>1 DEF Settled
<1>. QED BY <1>5, <1>6, <1>7, <1>8

LEMMA KillKeeps == ASSUME KInv, NEW p \in Procs, Kill(p) PROVE KInv'
<1>. USE DEF KInv
<1>1. /\ p \in Running /\ pc' = [pc EXCEPT ![p] = "killed"]
      /\ broken' = (broken \/ pc[p] = "rmshm"
                      \/ (created[p] /\ pc[p] \in InCreate \ {"reset"}))
      /\ UNCHANGED <<shm, sem, made, mem, created, seg, set, ptr, got, served>>
  BY DEF Kill, kernel, handles
<1>2. "killed" \in Places /\ "killed" \in Over
  BY DEF Places, Over
<1>3. /\ pc'[p] = "killed" /\ \A q \in Procs : q # p => pc'[q] = pc[q]
      /\ Running' \subseteq Running /\ pc' \in [Procs -> Places]
      /\ \A q \in Procs : q # p => (q \in Running' <=> q \in Running)
  BY <1>1, <1>2, Moves
<1>4. MadeBound' /\ Segments' /\ Handles' /\ Whole' = Whole /\ Alone'
  BY <1>1, <1>2, LocalKeeps DEF Over, InCreate
<1>5. Typed' /\ Served' /\ Roles'
  BY <1>1, <1>3 DEF Typed, Served, Roles
<1>6. Settled'
  <2>1. ~broken' => ~broken /\ ~Halfway(p)
    BY <1>1 DEF Halfway, Creating
  <2>2. \A q \in Running : Halfway(q) /\ q # p => q \in Running' /\ Halfway(q)'
    BY <1>1, <1>3, RunningPlace DEF Halfway, Creating
  <2>. QED BY <1>1, <1>4, <2>1, <2>2 DEF Settled
<1>. QED BY <1>4, <1>5, <1>6

-----------------------------------------------------------------------------
(* create_shmht                                                            *)

LEMMA CreatorAlone ==
  ASSUME KInv, NEW p \in Running,
         \/ created[p] /\ Creating(p)
         \/ pc[p] \in {"shmcreate", "semcreate", "setval"}
  PROVE  /\ pc[p] \notin {"storeid", "reset"} => ~Complete
         /\ Running = {p}
<1>. USE DEF KInv
<1>1. HandlesOf(p)
  BY DEF Handles
<1>2. pc[p] \notin {"storeid", "reset"} => ~Complete
  BY <1>1, BlankTyped DEF HandlesOf, Complete
<1>. QED BY <1>2 DEF Alone

LEMMA ShmgetKeeps == ASSUME KInv, NEW p \in Procs, Shmget(p) PROVE KInv'
<1>. USE DEF KInv
<1> DEFINE x == IF shm = 0 THEN "shmcreate" ELSE "semget"
<1>1. /\ pc[p] = "shmget" /\ pc' = [pc EXCEPT ![p] = x]
      /\ seg' = [seg EXCEPT ![p] = shm]
      /\ UNCHANGED <<shm, sem, made, mem, created, set, ptr, got, served, broken>>
  BY DEF Shmget, CreateStep, At, kernel
<1>2. x \in Places /\ x \notin Over /\ x \in {"shmcreate", "semget"} /\ p \in Running
  BY <1>1 DEF Places, InCreate, Over, Running
<1>3. /\ pc'[p] = x /\ \A q \in Procs : q # p => pc'[q] = pc[q]
      /\ Running' \subseteq Running /\ pc' \in [Procs -> Places] /\ p \in Running'
      /\ \A q \in Procs : q # p => (q \in Running' <=> q \in Running)
  BY <1>1, <1>2, Moves
<1>4. seg'[p] = shm /\ \A q \in Procs \ {p} : seg'[q] = seg[q]
  BY <1>1 DEF Typed
<1>5. ~created[p]
  BY <1>1 DEF Roles
<1>6. HandlesOf(p)'
  BY <1>1, <1>3, <1>4, <1>5 DEF HandlesOf
<1>7. MadeBound' /\ Segments' /\ Handles' /\ Whole' = Whole /\ Alone'
  BY <1>1, <1>2, <1>4, <1>6, LocalKeeps DEF Creating, InCreate
<1>8. Typed' /\ Served' /\ Roles'
  <2>1. Typed' /\ Served'
    BY <1>1, <1>3 DEF Typed, Served
  <2>2. Roles'
    BY <1>1, <1>2, <1>3, <1>5 DEF Roles
  <2>. QED BY <2>1, <2>2
<1>9. Settled'
  <2>1. \A q \in Running : Halfway(q) => q \in Running' /\ Halfway(q)'
    BY <1>1, <1>3, <1>5, RunningPlace DEF Halfway, Creating
  <2>. QED BY <1>1, <1>7, <2>1 DEF Settled
<1>. QED BY <1>7, <1>8, <1>9

LEMMA ShmCreateKeeps == ASSUME KInv, NEW p \in Procs, ShmCreate(p) PROVE KInv'
<1>. USE DEF KInv
<1>1. /\ pc[p] = "shmcreate" /\ pc' = [pc EXCEPT ![p] = "bzero"]
      /\ created' = [created EXCEPT ![p] = TRUE]
      /\ UNCHANGED <<sem, mem, set, ptr, got, served, broken>>
  BY DEF ShmCreate, CreateStep, At
<1>2. p \in Running /\ "bzero" \in Places /\ "bzero" \notin Over
  BY <1>1 DEF Places, InCreate, Over, Running
<1>3. /\ pc'[p] = "bzero" /\ \A q \in Procs : q # p => pc'[q] = pc[q]
      /\ Running' \subseteq Running /\ pc' \in [Procs -> Places] /\ p \in Running'
  BY <1>1, <1>2, Moves
<1>4. HandlesOf(p) /\ shm = 0 /\ sem = 0 /\ ~created[p]
  BY <1>1, <1>2 DEF Handles, HandlesOf, Segments, Roles
<1>5. made' = [made EXCEPT !.shm = @ + 1] /\ shm' = made'.shm /\ seg' = [seg EXCEPT ![p] = shm']
  BY <1>4 DEF ShmCreate
<1>6. /\ shm' = made.shm + 1 /\ made'.shm = made.shm + 1 /\ made'.sem = made.sem
      /\ made' \in [shm : Nat, sem : Nat] /\ made.shm \in Nat /\ made.sem \in Nat
      /\ seg'[p] = made.shm + 1
  BY <1>5 DEF Typed
<1>7. made.shm + 1 \in Ids /\ mem[made.shm + 1] = Blank
  <2>1. made.shm + 1 \in Ids
    BY <1>4, SegmentIds
  <2>. QED BY <1>6, <2>1 DEF Segments
<1>8. Running = {p} /\ Running' = {p}
  BY <1>1, <1>2, <1>3, CreatorAlone
<1>9. Typed'
  BY <1>1, <1>3, <1>5, <1>6 DEF Typed
<1>10. MadeBound'
  BY <1>1, <1>4, <1>6, SegmentIds DEF MadeBound
<1>11. Served' /\ Roles'
  <2>1. \A q \in Procs : q # p => created'[q] = created[q]
    BY <1>1 DEF Typed
  <2>. QED BY <1>1, <1>3, <1>8, <2>1 DEF Served, Roles
<1>12. Segments'
  BY <1>1, <1>4, <1>6 DEF Segments, Typed, Ids
<1>13. created'[p]
  BY <1>1 DEF Typed
<1>14. Handles'
  BY <1>1, <1>3, <1>4, <1>6, <1>7, <1>8, <1>13 DEF Handles, HandlesOf
<1>15. Alone' /\ Settled'
  BY <1>3, <1>8, <1>13 DEF Alone, Settled, Halfway, Creating, InCreate
<1>. QED BY <1>9, <1>10, <1>11, <1>12, <1>14, <1>15

LEMMA BzeroKeeps == ASSUME KInv, NEW p \in Procs, Bzero(p) PROVE KInv'
<1>. USE DEF KInv
<1>1. /\ pc[p] = "bzero" /\ pc' = [pc EXCEPT ![p] = "semget"]
      /\ mem' = [mem EXCEPT ![seg[p]] = Blank]
      /\ UNCHANGED <<shm, sem, made, created, seg, set, ptr, got, served, broken>>
  BY DEF Bzero, CreateStep, At, kernel, handles
<1>2. p \in Running /\ "semget" \in Places /\ "semget" \notin Over
  BY <1>1 DEF Places, InCreate, Over, Running
<1>3. /\ pc'[p] = "semget" /\ \A q \in Procs : q # p => pc'[q] = pc[q]
      /\ Running' \subseteq Running /\ pc' \in [Procs -> Places] /\ p \in Running'
      /\ \A q \in Procs : q # p => (q \in Running' <=> q \in Running)
  BY <1>1, <1>2, Moves
<1>4. HandlesOf(p) /\ created[p] /\ Creating(p)
  BY <1>1, <1>2 DEF Handles, HandlesOf, Creating, InCreate
<1>5. mem' = mem
  <2>1. mem[seg[p]] = Blank
    BY <1>1, <1>4 DEF HandlesOf
  <2>. QED BY <1>1, <2>1 DEF Typed
<1>6. HandlesOf(p)'
  BY <1>1, <1>3, <1>4, <1>5 DEF HandlesOf
<1>7. MadeBound' /\ Segments' /\ Handles' /\ Whole' = Whole /\ Alone'
  BY <1>1, <1>2, <1>5, <1>6, LocalKeeps DEF Creating, InCreate
<1>8. Typed' /\ Served' /\ Roles'
  BY <1>1, <1>3, <1>4, <1>5 DEF Typed, Served, Roles
<1>9. Settled'
  BY <1>1, <1>3, <1>4 DEF Settled, Halfway, Creating, InCreate
<1>. QED BY <1>7, <1>8, <1>9

LEMMA SemgetKeeps == ASSUME KInv, NEW p \in Procs, Semget(p) PROVE KInv'
<1>. USE DEF KInv
<1> DEFINE x == IF sem = 0 THEN "semcreate" ELSE "store"
<1>1. /\ pc[p] = "semget" /\ pc' = [pc EXCEPT ![p] = x]
      /\ set' = [set EXCEPT ![p] = sem]
      /\ UNCHANGED <<shm, sem, made, mem, created, seg, ptr, got, served, broken>>
  BY DEF Semget, CreateStep, At, kernel
<1>2. x \in Places /\ x \notin Over /\ x \in {"semcreate", "store"} /\ p \in Running
  BY <1>1 DEF Places, InCreate, Over, Running
<1>3. /\ pc'[p] = x /\ \A q \in Procs : q # p => pc'[q] = pc[q]
      /\ Running' \subseteq Running /\ pc' \in [Procs -> Places] /\ p \in Running'
      /\ \A q \in Procs : q # p => (q \in Running' <=> q \in Running)
  BY <1>1, <1>2, Moves
<1>4. set'[p] = sem /\ \A q \in Procs \ {p} : set'[q] = set[q]
  BY <1>1 DEF Typed
<1>5. HandlesOf(p)'
  <2>1. HandlesOf(p) /\ Creating(p)
    BY <1>1, <1>2 DEF Handles, Creating, InCreate
  <2>. QED BY <1>1, <1>3, <1>4, <2>1 DEF HandlesOf, Creating
<1>6. MadeBound' /\ Segments' /\ Handles' /\ Whole' = Whole /\ Alone'
  BY <1>1, <1>2, <1>4, <1>5, LocalKeeps DEF Creating, InCreate
<1>7. Typed' /\ Served' /\ Roles'
  <2>1. Typed' /\ Served'
    BY <1>1, <1>3 DEF Typed, Served
  <2>2. Roles'
    BY <1>1, <1>2, <1>3 DEF Roles
  <2>. QED BY <2>1, <2>2
<1>8. Settled'
  <2>1. \A q \in Running : Halfway(q) => q \in Running' /\ Halfway(q)'
    BY <1>1, <1>2, <1>3, RunningPlace DEF Halfway, Creating, InCreate
  <2>. QED BY <1>1, <1>6, <2>1 DEF Settled
<1>. QED BY <1>6, <1>7, <1>8

LEMMA SemCreateKeeps == ASSUME KInv, NEW p \in Procs, SemCreate(p) PROVE KInv'
<1>. USE DEF KInv
<1>1. /\ pc[p] = "semcreate" /\ pc' = [pc EXCEPT ![p] = "setval"]
      /\ UNCHANGED <<shm, mem, created, seg, ptr, got, served, broken>>
  BY DEF SemCreate, CreateStep, At
<1>2. p \in Running /\ "setval" \in Places /\ "setval" \notin Over
  BY <1>1 DEF Places, InCreate, Over, Running
<1>3. /\ pc'[p] = "setval" /\ \A q \in Procs : q # p => pc'[q] = pc[q]
      /\ Running' \subseteq Running /\ pc' \in [Procs -> Places] /\ p \in Running'
  BY <1>1, <1>2, Moves
<1>4. HandlesOf(p) /\ sem = 0 /\ shm # 0 /\ seg[p] = shm
  BY <1>1, <1>2 DEF Handles, HandlesOf
<1>5. made' = [made EXCEPT !.sem = @ + 1] /\ sem' = made'.sem /\ set' = [set EXCEPT ![p] = sem']
  BY <1>4 DEF SemCreate
<1>6. /\ sem' = made.sem + 1 /\ made'.sem = made.sem + 1 /\ made'.shm = made.shm
      /\ made' \in [shm : Nat, sem : Nat] /\ made.sem \in Nat /\ made.shm \in Nat
      /\ set'[p] = made.sem + 1
  BY <1>5 DEF Typed
<1>7. shm \in Ids /\ mem[shm].semaphore # made.sem + 1
  <2>1. shm \in Ids
    BY SegmentIds DEF Typed, Segments
  <2>2. mem[shm].semaphore \in Nat /\ mem[shm].semaphore <= made.sem
    BY <2>1 DEF Typed, Segment, Segments
  <2>. QED BY <1>6, <2>1, <2>2
<1>8. Running = {p} /\ Running' = {p}
  BY <1>1, <1>2, <1>3, CreatorAlone
<1>9. Typed'
  BY <1>1, <1>3, <1>5, <1>6 DEF Typed
<1>10. MadeBound' /\ Served' /\ Roles'
  BY <1>1, <1>3, <1>6, <1>8 DEF MadeBound, Served, Roles
<1>11. Segments'
  <2>1. \A i \in Ids : mem[i].semaphore \in Nat
    BY DEF Typed, Segment
  <2>. QED BY <1>1, <1>4, <1>6, <2>1 DEF Segments
<1>12. Handles'
  <2>1. created[p] => mem[shm] = Blank
    BY <1>1, <1>4 DEF HandlesOf, Creating, InCreate
  <2>. QED BY <1>1, <1>3, <1>4, <1>6, <1>7, <1>8, <2>1 DEF Handles, HandlesOf
<1>13. Alone' /\ Settled'
  <2>1. Alone'
    BY <1>8 DEF Alone
  <2>2. Whole \/ shm = 0 => FALSE
    BY <1>1, <1>2, <1>4, CreatorAlone DEF Whole
  <2>. QED BY <1>1, <1>3, <1>8, <2>1, <2>2 DEF Settled, Halfway, Creating, InCreate
<1>. QED BY <1>9, <1>10, <1>11, <1>12, <1>13

LEMMA SetValKeeps == ASSUME KInv, NEW p \in Procs, SetVal(p) PROVE KInv'
<1>. USE DEF KInv
<1>1. /\ pc[p] = "setval" /\ p \in Running
      /\ UNCHANGED <<shm, sem, made, mem, created, seg, set, ptr, got, served, broken>>
  BY DEF SetVal, CreateStep, At, kernel, handles, Running
<1>2. HandlesOf(p) /\ Creating(p) /\ set[p] = sem /\ sem # 0
  BY <1>1 DEF Handles, HandlesOf, Creating, InCreate
<1>3. pc' = [pc EXCEPT ![p] = "store"] /\ "store" \in Places /\ "store" \notin Over
  BY <1>2 DEF SetVal, CreateStep, At, Places, InCreate, Over
<1>4. /\ pc'[p] = "store" /\ \A q \in Procs : q # p => pc'[q] = pc[q]
      /\ Running' \subseteq Running /\ pc' \in [Procs -> Places] /\ p \in Running'
      /\ \A q \in Procs : q # p => (q \in Running' <=> q \in Running)
  BY <1>1, <1>3, Moves
<1>5. HandlesOf(p)'
  BY <1>1, <1>2, <1>4 DEF HandlesOf
<1>6. MadeBound' /\ Segments' /\ Handles' /\ Whole' = Whole /\ Alone'
  BY <1>1, <1>3, <1>5, LocalKeeps DEF Creating, InCreate
<1>7. Typed' /\ Served' /\ Roles'
  BY <1>1, <1>4 DEF Typed, Served, Roles
<1>8. Settled'
  <2>1. \A q \in Running : Halfway(q) => q \in Running' /\ Halfway(q)'
    BY <1>1, <1>4, RunningPlace DEF Halfway, Creating, InCreate
  <2>. QED BY <1>1, <1>6, <2>1 DEF Settled
<1>. QED BY <1>6, <1>7, <1>8

LEMMA StoreKeeps == ASSUME KInv, NEW p \in Procs, Store(p) PROVE KInv'
<1>. USE DEF KInv
<1> DEFINE x == IF created[p] THEN "storeid" ELSE First(p)
<1>1. /\ pc[p] = "store" /\ pc' = [pc EXCEPT ![p] = x]
      /\ UNCHANGED <<shm, sem, made, created, seg, set, ptr, got, served, broken>>
      /\ mem' = IF created[p] THEN [mem EXCEPT ![seg[p]].semaphore = set[p]] ELSE mem
  BY DEF Store, CreateStep, At, kernel, handles
<1>2. /\ x \in Places /\ x \notin Over /\ x \in {"storeid", "send", "poll", "rmsem"}
      /\ p \in Running
      /\ x = "storeid" <=> created[p]
      /\ x = "send" => p \in Writers
      /\ x = "poll" => p \in Readers
      /\ x = "rmsem" => p \in Destroyers
  BY <1>1 DEF First, Places, Using, InCreate, Over, Running, Procs
<1>3. /\ pc'[p] = x /\ \A q \in Procs : q # p => pc'[q] = pc[q]
      /\ Running' \subseteq Running /\ pc' \in [Procs -> Places] /\ p \in Running'
      /\ \A q \in Procs : q # p => (q \in Running' <=> q \in Running)
  BY <1>1, <1>2, Moves
<1>4. HandlesOf(p) /\ Creating(p) /\ seg[p] = shm /\ shm # 0 /\ set[p] = sem /\ sem # 0
  BY <1>1, <1>2 DEF Handles, HandlesOf, Creating, InCreate
<1>5. shm \in Ids
  BY SegmentIds DEF Typed, Segments
<1>6. Served' /\ MadeBound' /\ Roles'
  <2>1. Served' /\ MadeBound'
    BY <1>1, <1>3 DEF Served, MadeBound
  <2>2. Roles'
    BY <1>1, <1>2, <1>3 DEF Roles
  <2>. QED BY <2>1, <2>2
<1>7. CASE created[p]
  <2>1. /\ Running = {p} /\ Running' = {p} /\ mem[shm] = Blank
    <3>1. Running = {p}
      BY <1>2, <1>4, <1>7, CreatorAlone
    <3>. QED BY <1>1, <1>3, <1>4, <1>7, <3>1 DEF HandlesOf
  <2>2. /\ mem' \in [Ids -> Segment]
        /\ mem'[shm].semaphore = sem /\ mem'[shm].entrycount = mem[shm].entrycount
        /\ \A i \in Ids : i # shm => mem'[i] = mem[i]
    BY ZenonT(60), <1>1, <1>4, <1>5, <1>7 DEF Typed, Segment
  <2>3. Typed'
    BY <1>1, <1>3, <2>2 DEF Typed
  <2>4. Segments'
    BY <1>1, <1>4, <2>2 DEF Segments, Typed, Ids
  <2>5. Complete'
    BY <1>1, <1>4, <2>2 DEF Complete
  <2>6. mem'[shm].entrycount = 0
    BY <2>1, <2>2, BlankTyped
  <2>7. HandlesOf(p)'
    BY <1>1, <1>2, <1>3, <1>4, <1>7, <2>5, <2>6 DEF HandlesOf
  <2>8. Handles' /\ Alone'
    BY <2>1, <2>7 DEF Handles, Alone
  <2>9. Settled'
    BY <1>1, <1>2, <1>3, <1>7, <2>1 DEF Settled, Halfway, Creating, InCreate
  <2>. QED BY <1>6, <2>3, <2>4, <2>8, <2>9
<1>8. CASE ~created[p]
  <2>1. mem' = mem
    BY <1>1, <1>8
  <2>2. HandlesOf(p)'
    BY <1>1, <1>2, <1>3, <1>4, <1>8, <2>1 DEF HandlesOf
  <2>3. Segments' /\ Handles' /\ Whole' = Whole /\ Alone'
    BY <1>1, <1>2, <1>4, <2>1, <2>2, LocalKeeps
  <2>4. Typed'
    BY <1>1, <1>3, <2>1 DEF Typed
  <2>5. Settled'
    <3>1. \A q \in Running : Halfway(q) => q \in Running' /\ Halfway(q)'
      BY <1>1, <1>3, <1>8, RunningPlace DEF Halfway, Creating
    <3>. QED BY <1>1, <2>3, <3>1 DEF Settled
  <2>. QED BY <1>6, <2>3, <2>4, <2>5
<1>. QED BY <1>7, <1>8

LEMMA StoreShmidKeeps == ASSUME KInv, NEW p \in Procs, StoreShmid(p) PROVE KInv'
<1>. USE DEF KInv
<1>1. /\ pc[p] = "storeid" /\ pc' = [pc EXCEPT ![p] = "reset"]
      /\ UNCHANGED <<shm, sem, made, created, seg, set, ptr, got, served, broken>>
      /\ mem' = [mem EXCEPT ![seg[p]].shmid = seg[p]]
  BY DEF StoreShmid, CreateStep, At, kernel, handles
<1>2. p \in Running /\ "reset" \in Places /\ "reset" \notin Over
  BY <1>1 DEF Places, InCreate, Over, Running
<1>3. /\ pc'[p] = "reset" /\ \A q \in Procs : q # p => pc'[q] = pc[q]
      /\ Running' \subseteq Running /\ pc' \in [Procs -> Places] /\ p \in Running'
  BY <1>1, <1>2, Moves
<1>4. HandlesOf(p) /\ created[p] /\ Creating(p)
  BY <1>1, <1>2 DEF Handles, HandlesOf, Creating, InCreate
<1>5. /\ seg[p] = shm /\ shm # 0 /\ Complete /\ mem[shm].entrycount = 0
  BY <1>1, <1>4 DEF HandlesOf
<1>6. shm \in Ids
  BY SegmentIds DEF Typed, Segments
<1>7. Running = {p} /\ Running' = {p}
  BY <1>2, <1>3, <1>4, CreatorAlone
<1>8. /\ mem' \in [Ids -> Segment]
      /\ mem'[shm].semaphore = mem[shm].semaphore /\ mem'[shm].shmid = shm
      /\ mem'[shm].entrycount = mem[shm].entrycount
      /\ \A i \in Ids : i # shm => mem'[i] = mem[i]
  BY ZenonT(60), <1>1, <1>5, <1>6 DEF Typed, Segment
<1>9. Typed'
  BY <1>1, <1>3, <1>8 DEF Typed
<1>10. MadeBound' /\ Served' /\ Roles'
  BY <1>1, <1>3, <1>7 DEF MadeBound, Served, Roles
<1>11. Segments'
  BY <1>1, <1>5, <1>8 DEF Segments, Typed, Ids
<1>12. Complete' /\ Whole'
  BY <1>1, <1>5, <1>8 DEF Complete, Whole
<1>13. HandlesOf(p)'
  BY <1>1, <1>3, <1>4, <1>5, <1>8, <1>12 DEF HandlesOf
<1>14. Handles' /\ Alone' /\ Settled'
  BY <1>7, <1>12, <1>13 DEF Handles, Alone, Settled
<1>. QED BY <1>9, <1>10, <1>11, <1>14

\* the counter is 0 already: nobody has come to the table before
LEMMA ResetKeeps == ASSUME KInv, NEW p \in Procs, Reset(p) PROVE KInv' /\ mem' = mem
<1>. USE DEF KInv
<1> DEFINE x == First(p)
<1>1. /\ pc[p] = "reset" /\ pc' = [pc EXCEPT ![p] = x]
      /\ UNCHANGED <<shm, sem, made, created, seg, set, ptr, got, served, broken>>
      /\ mem' = [mem EXCEPT ![seg[p]].entrycount = 0]
  BY DEF Reset, CreateStep, At, kernel, handles
<1>2. /\ x \in Places /\ x \notin Over /\ x \in {"send", "poll", "rmsem"}
      /\ p \in Running
      /\ x = "send" => p \in Writers
      /\ x = "poll" => p \in Readers
      /\ x = "rmsem" => p \in Destroyers
  BY <1>1 DEF First, Places, Using, InCreate, Over, Running, Procs
<1>3. /\ pc'[p] = x /\ \A q \in Procs : q # p => pc'[q] = pc[q]
      /\ Running' \subseteq Running /\ pc' \in [Procs -> Places] /\ p \in Running'
      /\ \A q \in Procs : q # p => (q \in Running' <=> q \in Running)
  BY <1>1, <1>2, Moves
<1>4. HandlesOf(p) /\ created[p] /\ Creating(p)
  BY <1>1, <1>2 DEF Handles, HandlesOf, Creating, InCreate
<1>5. /\ seg[p] = shm /\ shm # 0 /\ Complete /\ mem[shm].entrycount = 0 /\ mem[shm].shmid = shm
  BY <1>1, <1>4 DEF HandlesOf
<1>6. shm \in Ids
  BY SegmentIds DEF Typed, Segments
<1>7. mem' = mem
  <2>1. mem \in [Ids -> Segment] /\ mem[shm] \in Segment
    BY <1>6 DEF Typed
  <2>2. [mem[shm] EXCEPT !.entrycount = 0] = mem[shm]
    BY <1>5, <2>1 DEF Segment
  <2>3. mem' = [mem EXCEPT ![shm] = [mem[shm] EXCEPT !.entrycount = 0]]
    BY <1>1, <1>5
  <2>. QED BY <2>1, <2>2, <2>3
<1>8. HandlesOf(p)'
  BY <1>1, <1>2, <1>3, <1>5 DEF HandlesOf, Creating, InCreate
<1>9. MadeBound' /\ Segments' /\ Handles' /\ Whole' = Whole /\ Alone'
  BY <1>1, <1>2, <1>4, <1>7, <1>8, LocalKeeps
<1>10. Typed' /\ Served'
  BY <1>1, <1>3, <1>7 DEF Typed, Served
<1>11. Roles'
  BY <1>1, <1>2, <1>3 DEF Roles
<1>12. Settled'
  BY <1>5, <1>9 DEF Settled, Whole
<1>. QED BY <1>7, <1>9, <1>10, <1>11, <1>12

-----------------------------------------------------------------------------
(* Operations on the table                                                 *)

\* the place is one of the process's program
Fits(p, x) ==
  /\ x \in {"send", "raise"} => p \in Writers
  /\ x \in {"take", "answer", "lower"} => p \in Readers
  /\ x \in Using => p \in Writers \cup Readers

LEMMA TableIs ==
  ASSUME KInv, NEW p \in Procs, pc[p] \in Using
  PROVE  /\ p \in Running /\ seg[p] = shm /\ shm # 0 /\ shm \in Ids /\ seg[p] \in Ids
         /\ Table(p) \in Segment /\ Table(p) = mem[shm]
         /\ Locks(p) <=> Complete
         /\ Complete \/ Running = {p}
<1>. USE DEF KInv
<1>1. p \in Running
  BY DEF Running, Using
<1>2. seg[p] = shm /\ shm # 0
  BY <1>1 DEF Handles, HandlesOf, Using
<1>3. shm \in Ids
  BY SegmentIds DEF Typed, Segments
<1>4. Complete \/ Running = {p}
  BY <1>1 DEF Alone
<1>. QED BY <1>1, <1>2, <1>3, <1>4 DEF Table, Locks, Complete, Typed

\* the least free bucket, when one is free
LEMMA FreeBucketIs ==
  ASSUME KInv, NEW p \in Procs, pc[p] \in Using, InUse(p) # Buckets
  PROVE  FreeBucket(p) \in Buckets \ InUse(p)
<1> DEFINE left == Buckets \ InUse(p)
<1>1. InUse(p) \subseteq Buckets
  <2>1. \A k \in Keys : Table(p).queue[k] \in Seq(Buckets)
    BY TableIs DEF Segment
  <2>2. \A k \in Keys : Range(Table(p).queue[k]) \subseteq Buckets
    BY <2>1 DEF Range
  <2>. QED BY <2>2 DEF InUse
<1>2. left \subseteq Nat /\ left # {}
  BY <1>1, ExchangeAssumption
<1>3. \E b \in left : \A c \in left : b <= c
  <2> HIDE DEF left
  <2>1. PICK b \in left : \A c \in left : ~(<<c, b>> \in OpToRel(<, Nat))
    BY <1>2, NatLessThanWellFounded, WFMin
  <2>2. \A c \in left : ~(c < b)
    BY <1>2, <2>1 DEF OpToRel
  <2>. QED BY <1>2, <2>2
<1>. QED BY <1>3 DEF FreeBucket

LEMMA UseStepKeeps ==
  ASSUME KInv, NEW p \in Procs, NEW from \in Using, NEW x \in Using \cup {"done"},
         UseStep(p, from, x), Fits(p, x),
         mem' \in [Ids -> Segment],
         \A i \in Ids : /\ mem'[i].semaphore = mem[i].semaphore
                        /\ mem'[i].shmid = mem[i].shmid
                        /\ i # shm => mem'[i] = mem[i],
         ptr' \in [Procs -> Nat], got' \in [Procs -> Words \cup {"NULL"}],
         ptr'[p] # 0 => x = "look", \A q \in Procs : q # p => ptr'[q] = ptr[q]
  PROVE  KInv' /\ Complete' = Complete
<1>. USE DEF KInv
<1>1. /\ pc[p] = from /\ pc' = [pc EXCEPT ![p] = x]
      /\ UNCHANGED <<shm, sem, made, created, seg, set, served, broken>>
  BY DEF UseStep, At, kernel, handles
<1>2. x \in Places
  BY DEF Places, Over
<1>3. pc'[p] = x /\ pc' \in [Procs -> Places] /\ \A q \in Procs : q # p => pc'[q] = pc[q]
  BY <1>1, <1>2, Moves
<1>4. /\ Served' /\ MadeBound' /\ Segments' /\ Handles' /\ Alone' /\ Settled'
      /\ Complete' = Complete
  BY <1>1, UseKeeps
<1>5. Typed'
  BY <1>1, <1>3 DEF Typed
<1>6. Roles'
  <2>1. ASSUME NEW q \in Procs, q # p
        PROVE  pc'[q] = pc[q] /\ ptr'[q] = ptr[q] /\ created'[q] = created[q]
    BY <1>1, <1>3, <2>1
  <2>2. /\ pc'[p] \in {"rmsem", "rmshm", "off", "shmget", "shmcreate"} => FALSE
        /\ pc'[p] \in {"send", "raise"} => p \in Writers
        /\ pc'[p] \in {"take", "answer", "lower"} => p \in Readers
        /\ pc'[p] \in {"clear", "poll", "look", "fetch"} => p \in Writers \cup Readers
        /\ ptr'[p] # 0 => pc'[p] \in {"look", "killed"}
    BY <1>3 DEF Fits, Using
  <2>. QED BY <2>1, <2>2 DEF Roles
<1>. QED BY <1>4, <1>5, <1>6

LEMMA InsertKeeps ==
  ASSUME KInv, NEW p \in Procs, NEW k \in Keys, NEW v \in Words,
         NEW from \in Using \ {"look"}, NEW x \in Using \cup {"done"}, Fits(p, x),
         Insert(p, k, v, from, x)
  PROVE  KInv' /\ Complete' = Complete
<1>. USE DEF KInv
<1>1. /\ UseStep(p, from, x) /\ ptr' = ptr /\ got' = got /\ pc[p] = from
      /\ mem' = IF Locks(p) /\ HasRoom(p)
            THEN [mem EXCEPT ![seg[p]].queue[k] = Append(@, FreeBucket(p)),
                             ![seg[p]].val[FreeBucket(p)] = v,
                             ![seg[p]].entrycount = @ + 1]
            ELSE mem
  BY DEF Insert, UseStep, At
<1>2. /\ seg[p] = shm /\ shm \in Ids /\ Table(p) \in Segment
      /\ mem \in [Ids -> Segment] /\ Table(p) = mem[shm]
  BY <1>1, TableIs DEF Typed
<1>3. ptr' \in [Procs -> Nat] /\ got' \in [Procs -> Words \cup {"NULL"}] /\ ptr'[p] = 0
  BY <1>1 DEF Typed, Roles, Using
<1>4. /\ mem' \in [Ids -> Segment]
      /\ \A i \in Ids : /\ mem'[i].semaphore = mem[i].semaphore
                        /\ mem'[i].shmid = mem[i].shmid
                        /\ i # shm => mem'[i] = mem[i]
  <2>1. CASE Locks(p) /\ HasRoom(p)
    <3> DEFINE b == FreeBucket(p)
    <3>1. b \in Buckets
      BY <1>1, <2>1, FreeBucketIs DEF HasRoom
    <3>2. Append(mem[shm].queue[k], b) \in Seq(Buckets)
      BY <1>2, <3>1 DEF Segment
    <3> HIDE DEF b
    <3> DEFINE c == mem[shm].entrycount + 1
    <3> DEFINE t == [mem[shm] EXCEPT !.queue[k] = Append(@, b), !.val[b] = v,
                                     !.entrycount = c]
    <3>4. mem' = [mem EXCEPT ![shm] = t]
      BY <1>1, <1>2, <2>1 DEF b
    <3>5. c \in Nat
      BY <1>2 DEF Segment
    <3> HIDE DEF c
    <3>3. t \in Segment /\ t.semaphore = mem[shm].semaphore /\ t.shmid = mem[shm].shmid
      BY <1>2, <3>1, <3>2, <3>5 DEF Segment
    <3> HIDE DEF t
    <3>. QED BY <1>2, <3>3, <3>4
  <2>2. CASE ~(Locks(p) /\ HasRoom(p))
    BY <1>1, <1>2, <2>2
  <2>. QED BY <2>1, <2>2
<1>. QED BY <1>1, <1>3, <1>4, UseStepKeeps

LEMMA RemoveKeeps ==
  ASSUME KInv, NEW p \in Procs, NEW k \in Keys,
         NEW from \in Using \ {"look"}, NEW x \in Using \cup {"done"}, Fits(p, x),
         Remove(p, k, from, x)
  PROVE  KInv' /\ Complete' = Complete
<1>. USE DEF KInv
<1>1. /\ UseStep(p, from, x) /\ ptr' = ptr /\ got' = got /\ pc[p] = from
      /\ mem' = IF FirstOf(p, k) # 0
            THEN [mem EXCEPT ![seg[p]].queue[k] = Tail(@),
                             ![seg[p]].entrycount = (@ - 1) % Word]
            ELSE mem
  BY DEF Remove, UseStep, At
<1>2. /\ seg[p] = shm /\ shm \in Ids /\ Table(p) \in Segment
      /\ mem \in [Ids -> Segment] /\ Table(p) = mem[shm]
  BY <1>1, TableIs DEF Typed
<1>3. ptr' \in [Procs -> Nat] /\ got' \in [Procs -> Words \cup {"NULL"}] /\ ptr'[p] = 0
  BY <1>1 DEF Typed, Roles, Using
<1>4. /\ mem' \in [Ids -> Segment]
      /\ \A i \in Ids : /\ mem'[i].semaphore = mem[i].semaphore
                        /\ mem'[i].shmid = mem[i].shmid
                        /\ i # shm => mem'[i] = mem[i]
  <2>1. CASE FirstOf(p, k) # 0
    <3>1. Tail(mem[shm].queue[k]) \in Seq(Buckets)
      <4>1. mem[shm].queue[k] \in Seq(Buckets) /\ mem[shm].queue[k] # <<>>
        BY <1>2, <2>1 DEF FirstOf, Segment
      <4>. QED BY <4>1
    <3> DEFINE c == (mem[shm].entrycount - 1) % Word
    <3> DEFINE t == [mem[shm] EXCEPT !.queue[k] = Tail(@), !.entrycount = c]
    <3>4. c \in Nat
      <4>1. mem[shm].entrycount - 1 \in Int
        BY <1>2 DEF Segment
      <4>. QED BY <4>1, WordsAreNat
    <3>3. mem' = [mem EXCEPT ![shm] = t]
      BY <1>1, <1>2, <2>1
    <3> HIDE DEF c
    <3>2. t \in Segment /\ t.semaphore = mem[shm].semaphore /\ t.shmid = mem[shm].shmid
      BY <1>2, <3>1, <3>4 DEF Segment
    <3> HIDE DEF t
    <3>. QED BY <1>2, <3>2, <3>3
  <2>2. CASE FirstOf(p, k) = 0
    BY <1>1, <1>2, <2>2
  <2>. QED BY <2>1, <2>2
<1>. QED BY <1>1, <1>3, <1>4, UseStepKeeps

\* what a pointer to a queue's first element leads to
LEMMA FirstIs ==
  ASSUME KInv, NEW p \in Procs, pc[p] \in Using, NEW k \in Keys
  PROVE  /\ FirstOf(p, k) \in Nat
         /\ FirstOf(p, k) # 0 =>
              /\ FirstOf(p, k) \in Buckets /\ Complete
              /\ mem[shm].queue[k] # <<>> /\ FirstOf(p, k) = Head(mem[shm].queue[k])
<1>1. Table(p).queue[k] \in Seq(Buckets) /\ Table(p) = mem[shm] /\ (Locks(p) <=> Complete)
  BY TableIs DEF Segment
<1>2. Table(p).queue[k] # <<>> => Head(Table(p).queue[k]) \in Buckets
  BY <1>1
<1>. QED BY <1>1, <1>2, ExchangeAssumption DEF FirstOf

LEMMA LooksKeep ==
  ASSUME KInv, NEW p \in Procs, p \in Writers \cup Readers,
         \/ Poll(p)
         \/ \E v \in Words : Look(p, v, "fetch")
         \/ p \in Writers /\ Fetch(p, "fetch", "done")
         \/ p \in Readers /\ Fetch(p, "fetch", "take")
  PROVE  KInv' /\ Complete' = Complete
<1>. USE DEF KInv
<1>1. mem' = mem
  BY DEF Poll, Look, Fetch
<1>2. mem' \in [Ids -> Segment]
  BY <1>1 DEF Typed
<1>3. CASE Poll(p)
  <2>1. /\ UseStep(p, "poll", "look") /\ ptr' = [ptr EXCEPT ![p] = FirstOf(p, "flag")]
        /\ got' = got /\ pc[p] = "poll"
    BY <1>3 DEF Poll, UseStep, At
  <2>2. FirstOf(p, "flag") \in Nat
    BY <2>1, FirstIs DEF Keys, Using
  <2>3. /\ ptr' \in [Procs -> Nat] /\ \A q \in Procs : q # p => ptr'[q] = ptr[q]
        /\ got' \in [Procs -> Words \cup {"NULL"}]
    BY <2>1, <2>2 DEF Typed
  <2>4. Fits(p, "look") /\ {"look", "poll"} \subseteq Using
    BY DEF Fits, Using
  <2>. QED BY <1>1, <1>2, <2>1, <2>3, <2>4, UseStepKeeps
<1>4. CASE \E v \in Words : Look(p, v, "fetch")
  <2>1. PICK x \in {"fetch", "poll"} : UseStep(p, "look", x)
    BY <1>4 DEF Look
  <2>2. ptr' = [ptr EXCEPT ![p] = 0] /\ got' = got
    BY <1>4 DEF Look
  <2>3. /\ ptr' \in [Procs -> Nat] /\ \A q \in Procs : q # p => ptr'[q] = ptr[q]
        /\ got' \in [Procs -> Words \cup {"NULL"}] /\ ptr'[p] = 0
    BY <2>2 DEF Typed
  <2>4. Fits(p, x) /\ {"look", x} \subseteq Using
    BY DEF Fits, Using
  <2>. QED BY <1>1, <1>2, <2>1, <2>3, <2>4, UseStepKeeps
<1>5. CASE \/ p \in Writers /\ Fetch(p, "fetch", "done")
           \/ p \in Readers /\ Fetch(p, "fetch", "take")
  <2>1. PICK x \in {"done", "take"} : Fetch(p, "fetch", x) /\ (x = "take" => p \in Readers)
    BY <1>5
  <2>2. UseStep(p, "fetch", x) /\ ptr' = ptr /\ pc[p] = "fetch"
    BY <2>1 DEF Fetch, UseStep, At
  <2> DEFINE a == IF FirstOf(p, "key") = 0 THEN "NULL" ELSE Table(p).val[FirstOf(p, "key")]
  <2>3. got' = [got EXCEPT ![p] = a]
    BY <2>1 DEF Fetch
  <2>4. a \in Words \cup {"NULL"}
    <3>1. FirstOf(p, "key") # 0 => FirstOf(p, "key") \in Buckets
      BY <2>2, FirstIs DEF Keys, Using
    <3>2. Table(p).val \in [Buckets -> Words]
      BY <2>2, TableIs DEF Using, Segment
    <3>. QED BY <3>1, <3>2
  <2> HIDE DEF a
  <2>5. /\ ptr' \in [Procs -> Nat] /\ \A q \in Procs : q # p => ptr'[q] = ptr[q]
        /\ got' \in [Procs -> Words \cup {"NULL"}] /\ ptr'[p] = 0
    BY <2>2, <2>3, <2>4 DEF Typed, Roles
  <2>6. Fits(p, x) /\ "fetch" \in Using /\ x \in Using \cup {"done"}
    BY <2>1 DEF Fits, Using
  <2>. QED BY <1>1, <1>2, <2>2, <2>5, <2>6, UseStepKeeps
<1>. QED BY <1>3, <1>4, <1>5

-----------------------------------------------------------------------------
(* shmht_destroy                                                           *)

LEMMA DestroyerAlone ==
  ASSUME KInv, NEW p \in Procs, pc[p] \in {"rmsem", "rmshm"}
  PROVE  /\ Running = {p} /\ HandlesOf(p) /\ seg[p] = shm /\ shm # 0 /\ shm \in Ids
         /\ p \in Destroyers
         /\ Locks(p) <=> Complete
<1>. USE DEF KInv
<1>1. p \in Destroyers /\ p \in Running
  BY DEF Roles, Running
<1>2. HandlesOf(p) /\ seg[p] = shm /\ shm # 0
  BY <1>1 DEF Handles, HandlesOf
<1>3. shm \in Ids
  BY SegmentIds DEF Typed, Segments
<1>4. Running = {p}
  BY <1>1 DEF Alone
<1>. QED BY <1>1, <1>2, <1>3, <1>4 DEF Locks, Table, Complete

LEMMA RmSemKeeps == ASSUME KInv, NEW p \in Procs, RmSem(p) PROVE KInv'
<1>. USE DEF KInv
<1> DEFINE x == IF Locks(p) THEN "rmshm" ELSE "done"
<1>1. /\ pc[p] = "rmsem" /\ pc' = [pc EXCEPT ![p] = x]
      /\ sem' = IF Locks(p) THEN 0 ELSE sem
      /\ UNCHANGED <<shm, made, mem, created, seg, set, ptr, got, served, broken>>
  BY DEF RmSem, At, handles
<1>2. x \in Places /\ x \in {"rmshm", "done"}
  BY DEF Places, Over
<1>3. /\ pc'[p] = x /\ \A q \in Procs : q # p => pc'[q] = pc[q]
      /\ Running' \subseteq Running \cup {p} /\ pc' \in [Procs -> Places]
      /\ p \in Running' <=> x \notin Over
  BY <1>1, <1>2, Moves
<1>4. /\ Running = {p} /\ HandlesOf(p) /\ seg[p] = shm /\ shm # 0 /\ shm \in Ids
      /\ p \in Destroyers
      /\ Locks(p) <=> Complete
  BY <1>1, DestroyerAlone
<1>5. Running' \subseteq {p}
  BY <1>3, <1>4
<1>6. Typed' /\ MadeBound' /\ Served' /\ Roles'
  <2>1. Typed' /\ MadeBound'
    BY <1>1, <1>3 DEF Typed, MadeBound
  <2>2. Served'
    BY <1>1, <1>4, <1>5 DEF Served
  <2>3. Roles'
    BY <1>1, <1>2, <1>3, <1>4 DEF Roles
  <2>. QED BY <2>1, <2>2, <2>3
<1>7. Segments'
  BY <1>1, <1>4 DEF Segments, Typed
<1>8. CASE Complete
  <2>1. mem[shm].shmid = shm \/ broken
    <3>1. ~Halfway(p)
      BY <1>1 DEF Halfway, Creating, InCreate
    <3>. QED BY <1>4, <3>1 DEF Settled, Whole
  <2>2. x = "rmshm" /\ sem' = 0
    BY <1>1, <1>4, <1>8
  <2>3. HandlesOf(p)'
    BY <1>1, <1>3, <1>4, <2>1, <2>2 DEF HandlesOf, Creating, InCreate
  <2>4. Running' = {p} /\ Halfway(p)'
    BY <1>3, <1>5, <2>2 DEF Halfway, Over
  <2>. QED BY <1>6, <1>7, <2>3, <2>4 DEF Handles, Alone, Settled
<1>9. CASE ~Complete
  <2>1. x = "done" /\ sem' = sem
    BY <1>1, <1>4, <1>9
  <2>2. Running' = {}
    BY <1>3, <1>5, <2>1 DEF Over
  <2>3. ~Halfway(p)
    BY <1>1 DEF Halfway, Creating, InCreate
  <2>4. broken'
    BY <1>1, <1>4, <1>9, <2>3 DEF Settled, Whole
  <2>. QED BY <1>6, <1>7, <2>2, <2>4 DEF Handles, Alone, Settled
<1>. QED BY <1>8, <1>9

LEMMA RmShmKeeps ==
  ASSUME KInv, NEW p \in Procs, RmShm(p) PROVE KInv' /\ sem' = 0 /\ (shm' = 0 \/ broken)
<1>. USE DEF KInv
<1>1. /\ pc[p] = "rmshm" /\ pc' = [pc EXCEPT ![p] = "done"]
      /\ shm' = IF Table(p).shmid = shm THEN 0 ELSE shm
      /\ served' = {}
      /\ UNCHANGED <<sem, made, mem, created, seg, set, ptr, got, broken>>
  BY DEF RmShm, At, handles
<1>2. "done" \in Places /\ "done" \in Over
  BY DEF Places, Over
<1>3. /\ pc'[p] = "done" /\ \A q \in Procs : q # p => pc'[q] = pc[q]
      /\ Running' \subseteq Running \cup {p} /\ pc' \in [Procs -> Places]
      /\ p \in Running' <=> "done" \notin Over
  BY <1>1, <1>2, Moves
<1>4. /\ Running = {p} /\ HandlesOf(p) /\ seg[p] = shm
  BY <1>1, DestroyerAlone
<1>5. /\ shm' = 0 \/ (broken /\ shm' = shm)
      /\ sem' = 0 /\ sem = 0
  BY <1>1, <1>4 DEF HandlesOf, Table
<1>6. Running' = {}
  BY <1>2, <1>3, <1>4
<1>7. Typed' /\ MadeBound' /\ Roles'
  <2>1. Typed' /\ MadeBound'
    BY <1>1, <1>3, <1>5 DEF Typed, MadeBound
  <2>2. Roles'
    BY <1>1, <1>3 DEF Roles
  <2>. QED BY <2>1, <2>2
<1>8. Segments'
  BY <1>1, <1>5 DEF Segments, Typed
<1>9. Served' /\ Handles' /\ Alone' /\ Settled'
  BY <1>1, <1>5, <1>6 DEF Served, Handles, Alone, Settled
<1>. QED BY <1>5, <1>7, <1>8, <1>9

-----------------------------------------------------------------------------
(* One table                                                               *)

LEMMA StutterKeeps == ASSUME KInv, UNCHANGED vars PROVE KInv'
BY DEF KInv, vars, kernel, handles, Typed, Served, MadeBound, Roles, Segments, Handles,
       HandlesOf, Alone, Settled, Whole, Halfway, Creating, Running, Complete

\* the steps of write_table and read_table, one operation each
LEMMA TableSteps ==
  ASSUME KInv, NEW p \in Procs, (p \in Writers /\ Write(p)) \/ (p \in Readers /\ Read(p))
  PROVE  KInv' /\ Complete' = Complete
<1>. USE DEF Fits
<1>1. Keys = {"flag", "key"} /\ p \in Writers \cup Readers
  BY DEF Keys
<1>2. ASSUME p \in Writers, Write(p)
      PROVE  KInv' /\ Complete' = Complete
  <2>1. CASE Insert(p, "key", "message", "send", "clear")
    BY <1>1, <1>2, <2>1, InsertKeeps DEF Using, Words
  <2>2. CASE Remove(p, "flag", "clear", "raise")
    BY <1>1, <1>2, <2>2, RemoveKeeps DEF Using
  <2>3. CASE Insert(p, "flag", "1", "raise", "poll")
    BY <1>1, <1>2, <2>3, InsertKeeps DEF Using, Words
  <2>4. CASE Poll(p) \/ Look(p, "0", "fetch") \/ Fetch(p, "fetch", "done")
    BY <1>1, <1>2, <2>4, LooksKeep DEF Words
  <2>. QED BY <1>2, <2>1, <2>2, <2>3, <2>4 DEF Write
<1>3. ASSUME p \in Readers, Read(p)
      PROVE  KInv' /\ Complete' = Complete
  <2>1. CASE Remove(p, "key", "take", "answer")
    BY <1>1, <1>3, <2>1, RemoveKeeps DEF Using
  <2>2. CASE Insert(p, "key", "Returned!", "answer", "clear")
    BY <1>1, <1>3, <2>2, InsertKeeps DEF Using, Words
  <2>3. CASE Remove(p, "flag", "clear", "lower")
    BY <1>1, <1>3, <2>3, RemoveKeeps DEF Using
  <2>4. CASE Insert(p, "flag", "0", "lower", "done")
    BY <1>1, <1>3, <2>4, InsertKeeps DEF Using, Words
  <2>5. CASE Poll(p) \/ Look(p, "1", "fetch") \/ Fetch(p, "fetch", "take")
    BY <1>1, <1>3, <2>5, LooksKeep DEF Words
  <2>. QED BY <1>3, <2>1, <2>2, <2>3, <2>4, <2>5 DEF Read
<1>. QED BY <1>2, <1>3

LEMMA NextKeeps == ASSUME KInv, ~AnyOrder, [Next]_vars PROVE KInv'
<1>1. CASE UNCHANGED vars
  BY <1>1, StutterKeeps
<1>2. ASSUME NEW p \in Procs, Start(p) \/ Run(p) \/ Kill(p)
      PROVE  KInv'
  <2>1. CASE Start(p)
    BY <2>1, StartKeeps
  <2>2. CASE Kill(p)
    BY <2>2, KillKeeps
  <2>3. CASE Create(p)
    BY <2>3, ShmgetKeeps, ShmCreateKeeps, BzeroKeeps, SemgetKeeps, SemCreateKeeps,
       SetValKeeps, StoreKeeps, StoreShmidKeeps, ResetKeeps DEF Create
  <2>4. CASE (p \in Writers /\ Write(p)) \/ (p \in Readers /\ Read(p))
    BY <2>4, TableSteps
  <2>5. CASE RmSem(p) \/ RmShm(p)
    BY <2>5, RmSemKeeps, RmShmKeeps
  <2>. QED BY <1>2, <2>1, <2>2, <2>3, <2>4, <2>5 DEF Run
<1>. QED BY <1>1, <1>2 DEF Next

LEMMA OneMoves ==
  ASSUME KInv, NEW p \in Procs, Start(p) \/ Run(p) \/ Kill(p), NEW q \in Procs, q # p
  PROVE  pc'[q] = pc[q]
<1>1. CASE Start(p) \/ Kill(p) \/ RmSem(p) \/ RmShm(p)
  BY <1>1 DEF Start, Kill, RmSem, RmShm, At, KInv, Typed
<1>2. CASE Create(p)
  <2>1. ASSUME NEW from, NEW to, CreateStep(p, from, to) PROVE pc'[q] = pc[q]
    BY <2>1 DEF CreateStep, At, KInv, Typed
  <2>. QED BY <1>2, <2>1 DEF Create, Shmget, ShmCreate, Bzero, Semget, SemCreate, SetVal, Store,
           StoreShmid, Reset
<1>3. CASE Write(p) \/ Read(p)
  <2>1. ASSUME NEW from, NEW to, UseStep(p, from, to) PROVE pc'[q] = pc[q]
    BY <2>1 DEF UseStep, At, KInv, Typed
  <2>. QED BY <1>3, <2>1 DEF Write, Read, Insert, Remove, Poll, Look, Fetch
<1>. QED BY <1>1, <1>2, <1>3 DEF Run

LEMMA Invariant == ASSUME ~AnyOrder PROVE Spec => []KInv
<1>1. Init => KInv
  BY InitKeeps
<1>2. KInv /\ [Next]_vars => KInv'
  BY NextKeeps
<1>. QED BY <1>1, <1>2, PTL DEF Spec

(* Programs run as intended, killed or not, use one segment and one lock   *)
(* as long as none was killed with the table half made or half gone.       *)
THEOREM ProgramsUseOneTable == Spec => []OneTable
<1>1. CASE AnyOrder
  <2>1. OneTable
    BY <1>1 DEF OneTable, Orderly
  <2>. QED BY <2>1, PTL
<1>2. CASE ~AnyOrder
  <2>1. KInv => OneTable
    <3>. SUFFICES ASSUME KInv, Orderly, NEW p \in Running \ Destroyers, pc[p] \notin InCreate
                  PROVE  seg[p] = shm /\ Complete
      BY DEF OneTable
    <3>1. HandlesOf(p) /\ p \in Procs
      BY DEF KInv, Handles, Running
    <3>2. seg[p] = shm /\ shm # 0
      BY <3>1 DEF HandlesOf, InCreate
    <3>3. ASSUME ~Complete
          PROVE  FALSE
      <4>1. Running = {p}
        BY <3>3 DEF KInv, Alone
      <4>2. ~Halfway(p)
        BY <3>1 DEF Halfway, Creating, KInv, Roles
      <4>. QED BY <3>2, <3>3, <4>1, <4>2 DEF KInv, Settled, Whole, Orderly
    <3>. QED BY <3>2, <3>3
  <2>. QED BY <1>2, <2>1, Invariant, PTL
<1>. QED BY <1>1, <1>2

(* In such runs a destroyer that ends has removed the segment and the      *)
(* semaphores.                                                             *)
THEOREM DestroyedTablesLeaveNothing == Spec => DestroyLeavesNothing
<1> DEFINE Gone == Orderly => \A p \in Destroyers :
                     pc[p] # "done" /\ pc'[p] = "done" => shm' = 0 /\ sem' = 0
<1>1. CASE AnyOrder
  <2>1. Gone
    BY <1>1 DEF Orderly
  <2>. QED BY <2>1, PTL DEF DestroyLeavesNothing
<1>2. CASE ~AnyOrder
  <2>1. KInv /\ [Next]_vars => Gone
    <3>. SUFFICES ASSUME KInv, [Next]_vars, Orderly, NEW p \in Destroyers,
                         pc[p] # "done", pc'[p] = "done"
                  PROVE  shm' = 0 /\ sem' = 0
      OBVIOUS
    <3>1. p \in Procs /\ p \notin Writers \cup Readers
      BY Kinds DEF Procs
    <3>2. PICK q \in Procs : Start(q) \/ Run(q) \/ Kill(q)
      BY DEF Next, vars
    <3>3. q = p
      BY <3>1, <3>2, OneMoves
    <3>4. RmSem(p) \/ RmShm(p)
      BY <3>1, <3>2, <3>3 DEF Start, Run, Kill, Create, Shmget, ShmCreate, Bzero, Semget,
         SemCreate, SetVal, Store, StoreShmid, Reset, First, CreateStep, At, KInv, Typed
    <3>5. CASE RmSem(p)
      <4>1. pc[p] = "rmsem" /\ ~Locks(p)
        BY <3>1, <3>5 DEF RmSem, At, KInv, Typed
      <4>2. Running = {p} /\ shm # 0 /\ ~Complete /\ ~Halfway(p)
        BY <3>1, <4>1, DestroyerAlone DEF Halfway, Creating, InCreate
      <4>. QED BY <4>2 DEF KInv, Settled, Whole, Orderly
    <3>. QED BY <3>1, <3>4, <3>5, RmShmKeeps DEF Orderly
  <2>. QED BY <1>2, <2>1, Invariant, PTL DEF Spec, DestroyLeavesNothing
<1>. QED BY <1>1, <1>2

-----------------------------------------------------------------------------
(* The counter: the creator, which is alone, resets what is 0, and below   *)
(* the number of buckets it does not wrap                                  *)

T == mem[shm]

Tally == Counted /\ \A i \in Ids : mem[i].entrycount <= Cardinality(Buckets)

LEMMA BucketsBound ==
  /\ Cardinality(Buckets) \in Nat /\ Word \in Nat
  /\ Word > Cardinality(Buckets) /\ 0 <= Cardinality(Buckets)
<1>1. Cardinality(Buckets) \in Nat
  BY ExchangeAssumption, FS_CardinalityType
<1>. QED BY <1>1, ExchangeAssumption

LEMMA InsertDoes ==
  ASSUME KInv, NEW p \in Procs, NEW k \in Keys, NEW v \in Words,
         NEW from \in Using, NEW x \in Using \cup {"done"}, Insert(p, k, v, from, x),
         Complete, HasRoom(p)
  PROVE  /\ T'.entrycount = T.entrycount + 1 /\ T.entrycount < Cardinality(Buckets)
         /\ \A i \in Ids : i # shm => mem'[i] = mem[i]
         /\ \E b \in Buckets :
           /\ \A j \in Keys : T.queue[j] # <<b>>
           /\ T'.queue[k] = Append(T.queue[k], b)
           /\ \A j \in Keys : j # k => T'.queue[j] = T.queue[j]
           /\ T'.val[b] = v /\ \A c \in Buckets : c # b => T'.val[c] = T.val[c]
<1> DEFINE b == FreeBucket(p)
<1>1. pc[p] = from /\ shm' = shm
  BY DEF Insert, UseStep, At, kernel
<1>2. /\ seg[p] = shm /\ shm \in Ids /\ mem \in [Ids -> Segment] /\ Locks(p)
      /\ Table(p) = T /\ T \in Segment
  BY <1>1, TableIs DEF KInv, Typed, T
<1>3. b \in Buckets \ InUse(p) /\ InUse(p) # Buckets
  BY <1>1, FreeBucketIs DEF HasRoom
<1>4. \A j \in Keys : T.queue[j] # <<b>>
  <2>1. ASSUME NEW j \in Keys, T.queue[j] = <<b>> PROVE b \in InUse(p)
    <3>1. b \in Range(T.queue[j])
      BY <2>1 DEF Range
    <3>. QED BY <1>2, <3>1 DEF InUse
  <2>. QED BY <1>3, <2>1
<1>5. mem' = [mem EXCEPT ![shm].queue[k] = Append(@, b), ![shm].val[b] = v,
                         ![shm].entrycount = @ + 1]
  BY <1>2, <1>3 DEF Insert
<1> HIDE DEF b
<1>6. T' = [T EXCEPT !.queue[k] = Append(@, b), !.val[b] = v, !.entrycount = @ + 1]
  BY <1>1, <1>2, <1>5 DEF T
<1>7. /\ T.queue \in [Keys -> Seq(Buckets)] /\ T.val \in [Buckets -> Words]
      /\ T.entrycount < Cardinality(Buckets)
  BY <1>2 DEF Segment, HasRoom
<1>8. /\ T'.queue = [T.queue EXCEPT ![k] = Append(@, b)]
      /\ T'.val = [T.val EXCEPT ![b] = v]
      /\ T'.entrycount = T.entrycount + 1
  BY <1>2, <1>6 DEF Segment
<1>9. /\ T'.queue[k] = Append(T.queue[k], b)
      /\ \A j \in Keys : j # k => T'.queue[j] = T.queue[j]
      /\ T'.val[b] = v /\ \A c \in Buckets : c # b => T'.val[c] = T.val[c]
  BY <1>3, <1>7, <1>8
<1>10. \A i \in Ids : i # shm => mem'[i] = mem[i]
  BY <1>2, <1>5
<1>. QED BY <1>3, <1>4, <1>7, <1>8, <1>9, <1>10

LEMMA RemoveActs ==
  ASSUME KInv, Complete, NEW p \in Procs, NEW k \in Keys,
         NEW from \in Using, NEW x \in Using \cup {"done"}, Remove(p, k, from, x)
  PROVE  /\ T.queue[k] = <<>> => T' = T
         /\ \A b \in Buckets : T.queue[k] = <<b>> => T'.queue[k] = <<>>
         /\ \A j \in Keys : j # k => T'.queue[j] = T.queue[j]
         /\ T'.val = T.val
         /\ \A i \in Ids : i # shm => mem'[i] = mem[i]
         /\ T.queue[k] # <<>> => /\ T'.queue[k] = Tail(T.queue[k])
                                 /\ T'.entrycount = (T.entrycount - 1) % Word
<1>1. pc[p] = from /\ shm' = shm
  BY DEF Remove, UseStep, At, kernel
<1>2. /\ seg[p] = shm /\ shm \in Ids /\ mem \in [Ids -> Segment] /\ Locks(p)
      /\ Table(p) = T /\ T \in Segment
  BY <1>1, TableIs DEF KInv, Typed, T
<1>3. T.queue \in [Keys -> Seq(Buckets)] /\ T.val \in [Buckets -> Words]
  BY <1>2 DEF Segment
<1>4. CASE T.queue[k] = <<>>
  <2>1. mem' = mem
    BY <1>2, <1>4 DEF Remove, FirstOf
  <2>. QED BY <1>1, <1>4, <2>1 DEF T
<1>5. CASE T.queue[k] # <<>>
  <2>1. FirstOf(p, k) # 0
    <3>1. Head(T.queue[k]) \in Buckets
      BY <1>3, <1>5
    <3>. QED BY <1>2, <1>5, <3>1, ExchangeAssumption DEF FirstOf
  <2>2. mem' = [mem EXCEPT ![shm].queue[k] = Tail(@), ![shm].entrycount = (@ - 1) % Word]
    BY <1>2, <2>1 DEF Remove
  <2>3. T' = [T EXCEPT !.queue[k] = Tail(@), !.entrycount = (@ - 1) % Word]
    BY <1>1, <1>2, <2>2 DEF T
  <2>4. /\ T'.queue = [T.queue EXCEPT ![k] = Tail(@)] /\ T'.val = T.val
        /\ T'.entrycount = (T.entrycount - 1) % Word
    BY <1>2, <2>3 DEF Segment
  <2>5. T'.queue[k] = Tail(T.queue[k]) /\ \A j \in Keys : j # k => T'.queue[j] = T.queue[j]
    BY <1>3, <2>4
  <2>6. \A b \in Buckets : T.queue[k] = <<b>> => Tail(T.queue[k]) = <<>>
    OBVIOUS
  <2>7. \A i \in Ids : i # shm => mem'[i] = mem[i]
    BY <1>2, <2>2
  <2>. QED BY <1>5, <2>4, <2>5, <2>6, <2>7
<1>. QED BY <1>4, <1>5

LEMMA InsertTallies ==
  ASSUME KInv, Tally, NEW p \in Procs, NEW k \in Keys, NEW v \in Words,
         NEW from \in Using, NEW x \in Using \cup {"done"}, Insert(p, k, v, from, x)
  PROVE  Tally'
<1>1. pc[p] = from /\ shm' = shm
  BY DEF Insert, UseStep, At, kernel
<1>2. /\ shm \in Ids /\ T \in Segment /\ (Locks(p) <=> Complete)
  BY <1>1, TableIs DEF T
<1>3. CASE Locks(p) /\ HasRoom(p)
  <2>1. /\ T'.entrycount = T.entrycount + 1 /\ T.entrycount < Cardinality(Buckets)
        /\ \A i \in Ids : i # shm => mem'[i] = mem[i]
        /\ \E b \in Buckets : /\ T'.queue[k] = Append(T.queue[k], b)
                              /\ \A j \in Keys : j # k => T'.queue[j] = T.queue[j]
    BY <1>2, <1>3, InsertDoes, ZenonT(60)
  <2>2. PICK b \in Buckets : /\ T'.queue[k] = Append(T.queue[k], b)
                             /\ \A j \in Keys : j # k => T'.queue[j] = T.queue[j]
    BY <2>1
  <2>3. \A q \in Seq(Buckets) : Len(Append(q, b)) = Len(q) + 1 /\ Len(q) \in Nat
    OBVIOUS
  <2>4. \A j \in Keys : T.queue[j] \in Seq(Buckets)
    BY <1>2 DEF Segment
  <2>5. /\ Len(T'.queue[k]) = Len(T.queue[k]) + 1
        /\ \A j \in Keys : Len(T.queue[j]) \in Nat
    BY <2>2, <2>3, <2>4
  <2>6. T.entrycount = Len(T.queue["flag"]) + Len(T.queue["key"])
    BY <1>2 DEF Tally, Counted, T
  <2>7. PICK c \in Nat, f \in Nat, g \in Nat, B \in Nat :
          /\ c = T.entrycount /\ f = Len(T.queue["flag"]) /\ g = Len(T.queue["key"])
          /\ B = Cardinality(Buckets)
    BY <1>2, <2>5, BucketsBound DEF Keys, Segment
  <2>8. c = f + g /\ c < B
    BY <2>1, <2>6, <2>7
  <2>9. T'.entrycount = c + 1
    BY <2>1, <2>7
  <2>10. \/ Len(T'.queue["flag"]) = f + 1 /\ Len(T'.queue["key"]) = g
         \/ Len(T'.queue["flag"]) = f /\ Len(T'.queue["key"]) = g + 1
    <3>1. CASE k = "flag"
      BY <2>2, <2>5, <2>7, <3>1 DEF Keys
    <3>2. CASE k = "key"
      BY <2>2, <2>5, <2>7, <3>2 DEF Keys
    <3>. QED BY <3>1, <3>2 DEF Keys
  <2>11. T'.entrycount = Len(T'.queue["flag"]) + Len(T'.queue["key"])
    <3>1. c + 1 = (f + 1) + g /\ c + 1 = f + (g + 1)
      BY <2>8
    <3>. QED BY <2>9, <2>10, <3>1
  <2>12. T'.entrycount <= Cardinality(Buckets)
    <3>1. c + 1 <= B
      BY <2>8
    <3>. QED BY <2>7, <2>9, <3>1
  <2>. QED BY <1>1, <2>1, <2>11, <2>12 DEF Tally, Counted, T
<1>4. CASE ~(Locks(p) /\ HasRoom(p))
  BY <1>4 DEF Insert, Tally, Counted
<1>. QED BY <1>3, <1>4

LEMMA RemoveTallies ==
  ASSUME KInv, Tally, NEW p \in Procs, NEW k \in Keys,
         NEW from \in Using, NEW x \in Using \cup {"done"}, Remove(p, k, from, x)
  PROVE  Tally'
<1>1. pc[p] = from /\ shm' = shm
  BY DEF Remove, UseStep, At, kernel
<1>2. /\ shm \in Ids /\ T \in Segment /\ (Locks(p) <=> Complete)
  BY <1>1, TableIs DEF T
<1>3. CASE Complete /\ T.queue[k] # <<>>
  <2>1. /\ T'.queue[k] = Tail(T.queue[k]) /\ T'.entrycount = (T.entrycount - 1) % Word
        /\ \A i \in Ids : i # shm => mem'[i] = mem[i]
        /\ \A j \in Keys : j # k => T'.queue[j] = T.queue[j]
    BY <1>3, RemoveActs, ZenonT(60)
  <2>2. \A q \in Seq(Buckets) : /\ q # <<>> => Len(Tail(q)) = Len(q) - 1 /\ Len(q) > 0
                                /\ Len(q) \in Nat
    OBVIOUS
  <2>3. \A j \in Keys : T.queue[j] \in Seq(Buckets)
    BY <1>2 DEF Segment
  <2>4. /\ Len(T'.queue[k]) = Len(T.queue[k]) - 1 /\ Len(T.queue[k]) > 0
        /\ \A j \in Keys : Len(T.queue[j]) \in Nat
    BY <1>3, <2>1, <2>2, <2>3
  <2>5. /\ T.entrycount = Len(T.queue["flag"]) + Len(T.queue["key"])
        /\ T.entrycount <= Cardinality(Buckets) /\ T.entrycount \in Nat
    BY <1>2 DEF Tally, Counted, T, Segment
  <2>6. PICK c \in Nat, f \in Nat, g \in Nat, B \in Nat :
          /\ c = T.entrycount /\ f = Len(T.queue["flag"]) /\ g = Len(T.queue["key"])
          /\ B = Cardinality(Buckets)
    BY <2>4, <2>5, BucketsBound DEF Keys
  <2>7. c = f + g /\ c <= B /\ Word \in Nat /\ B < Word
    BY <2>5, <2>6, BucketsBound
  <2>8. \/ f > 0 /\ Len(T'.queue["flag"]) = f - 1 /\ Len(T'.queue["key"]) = g
        \/ g > 0 /\ Len(T'.queue["flag"]) = f /\ Len(T'.queue["key"]) = g - 1
    <3>1. CASE k = "flag"
      BY <2>1, <2>4, <2>6, <3>1 DEF Keys
    <3>2. CASE k = "key"
      BY <2>1, <2>4, <2>6, <3>2 DEF Keys
    <3>. QED BY <3>1, <3>2 DEF Keys
  <2>9. f > 0 \/ g > 0
    BY <2>8
  <2>10. T'.entrycount = c - 1
    <3>1. \A n, w \in Nat : n < w => (n % w) = n
      BY SMT
    <3>2. c - 1 \in Nat /\ c - 1 < Word
      BY <2>7, <2>9
    <3>3. (c - 1) % Word = c - 1
      BY <2>7, <3>1, <3>2
    <3>. QED BY <2>1, <2>6, <3>3
  <2>11. T'.entrycount = Len(T'.queue["flag"]) + Len(T'.queue["key"])
    <3>1. c - 1 = (f - 1) + g /\ c - 1 = f + (g - 1)
      BY <2>7
    <3>. QED BY <2>8, <2>10, <3>1
  <2>12. T'.entrycount <= Cardinality(Buckets)
    <3>1. c - 1 <= B
      BY <2>7
    <3>. QED BY <2>6, <2>10, <3>1
  <2>. QED BY <1>1, <2>1, <2>11, <2>12 DEF Tally, Counted, T
<1>4. CASE ~(Complete /\ T.queue[k] # <<>>)
  <2>1. FirstOf(p, k) = 0
    BY <1>1, <1>2, <1>4, TableIs DEF FirstOf, T
  <2>. QED BY <2>1 DEF Remove, Tally, Counted
<1>. QED BY <1>3, <1>4

LEMMA CreateTallies == ASSUME KInv, Tally, NEW p \in Procs, Create(p) PROVE Tally'
<1>1. CASE Shmget(p) \/ ShmCreate(p) \/ Semget(p) \/ SemCreate(p) \/ SetVal(p) \/ Reset(p)
  <2>1. mem' = mem
    BY <1>1, ResetKeeps DEF Shmget, ShmCreate, Semget, SemCreate, SetVal
  <2>. QED BY <2>1 DEF Tally, Counted
<1>2. CASE Bzero(p)
  <2>1. /\ Blank.entrycount = 0 /\ Blank.queue["flag"] = <<>> /\ Blank.queue["key"] = <<>>
    BY DEF Blank, Keys
  <2>2. Len(<<>>) = 0
    OBVIOUS
  <2>3. \A i \in Ids : mem'[i] = Blank \/ mem'[i] = mem[i]
    BY <1>2 DEF Bzero, KInv, Typed
  <2>4. ASSUME NEW t, t = Blank
        PROVE  t.entrycount = Len(t.queue["flag"]) + Len(t.queue["key"]) /\ t.entrycount = 0
    <3>1. 0 + 0 = 0
      OBVIOUS
    <3>. QED BY <2>1, <2>2, <2>4, <3>1
  <2>. QED BY <2>3, <2>4, BucketsBound DEF Tally, Counted
<1>3. CASE Store(p) \/ StoreShmid(p)
  <2>1. \A i \in Ids : mem'[i].entrycount = mem[i].entrycount /\ mem'[i].queue = mem[i].queue
    <3>1. ASSUME NEW i \in Ids, NEW f, mem' = [mem EXCEPT ![seg[p]].semaphore = f]
          PROVE  mem'[i].entrycount = mem[i].entrycount /\ mem'[i].queue = mem[i].queue
      BY <3>1 DEF KInv, Typed, Segment
    <3>2. ASSUME NEW i \in Ids, NEW f, mem' = [mem EXCEPT ![seg[p]].shmid = f]
          PROVE  mem'[i].entrycount = mem[i].entrycount /\ mem'[i].queue = mem[i].queue
      BY <3>2 DEF KInv, Typed, Segment
    <3>3. CASE StoreShmid(p)
      BY <3>2, <3>3 DEF StoreShmid
    <3>4. CASE Store(p)
      BY <3>1, <3>4 DEF Store
    <3>. QED BY <1>3, <3>3, <3>4
  <2>. QED BY <2>1 DEF Tally, Counted
<1>. QED BY <1>1, <1>2, <1>3 DEF Create

LEMMA NextTallies == ASSUME KInv, Tally, [Next]_vars PROVE Tally'
<1>1. CASE UNCHANGED vars
  BY <1>1 DEF vars, Tally, Counted
<1>2. ASSUME NEW p \in Procs, Start(p) \/ Run(p) \/ Kill(p)
      PROVE  Tally'
  <2>1. CASE Start(p) \/ Kill(p) \/ RmSem(p) \/ RmShm(p)
    BY <2>1 DEF Start, Kill, RmSem, RmShm, Tally, Counted
  <2>2. CASE Create(p)
    BY <2>2, CreateTallies
  <2>3. CASE Write(p) \/ Read(p)
    <3>1. CASE Poll(p) \/ (\E v : Look(p, v, "fetch")) \/ (\E x : Fetch(p, "fetch", x))
      BY <3>1 DEF Poll, Look, Fetch, Tally, Counted
    <3>2. CASE \/ Remove(p, "flag", "clear", "raise") \/ Remove(p, "key", "take", "answer")
               \/ Remove(p, "flag", "clear", "lower")
      BY <3>2, RemoveTallies DEF Using, Keys
    <3>3. CASE Insert(p, "key", "message", "send", "clear")
      BY <3>3, InsertTallies DEF Using, Keys, Words
    <3>4. CASE Insert(p, "flag", "1", "raise", "poll")
      BY <3>4, InsertTallies DEF Using, Keys, Words
    <3>5. CASE Insert(p, "key", "Returned!", "answer", "clear")
      BY <3>5, InsertTallies DEF Using, Keys, Words
    <3>6. CASE Insert(p, "flag", "0", "lower", "done")
      BY <3>6, InsertTallies DEF Using, Keys, Words
    <3>. QED BY <2>3, <3>1, <3>2, <3>3, <3>4, <3>5, <3>6 DEF Write, Read
  <2>. QED BY <1>2, <2>1, <2>2, <2>3 DEF Run
<1>. QED BY <1>1, <1>2 DEF Next

LEMMA InitTally == ASSUME Init PROVE Tally
<1>1. /\ Blank.entrycount = 0 /\ Blank.queue["flag"] = <<>> /\ Blank.queue["key"] = <<>>
  BY DEF Blank, Keys
<1>2. Len(<<>>) = 0
  OBVIOUS
<1>3. \A i \in Ids : mem[i] = Blank
  BY DEF Init
<1>4. ASSUME NEW t, t = Blank
      PROVE  t.entrycount = Len(t.queue["flag"]) + Len(t.queue["key"]) /\ t.entrycount = 0
  <2>1. 0 + 0 = 0
    OBVIOUS
  <2>. QED BY <1>1, <1>2, <1>4, <2>1
<1>. QED BY <1>3, <1>4, BucketsBound DEF Tally, Counted

(* In such runs entrycount is the number of entries of its table, whoever  *)
(* is killed, between the stores of create_shmht too.                      *)
THEOREM EntriesAreCounted == Spec => []CountedInOrder
<1>1. CASE AnyOrder
  <2>1. CountedInOrder
    BY <1>1 DEF CountedInOrder
  <2>. QED BY <2>1, PTL
<1>2. CASE ~AnyOrder
  <2>1. Init => KInv /\ Tally
    BY InitKeeps, InitTally
  <2>2. KInv /\ Tally /\ [Next]_vars => KInv' /\ Tally'
    BY <1>2, NextKeeps, NextTallies
  <2>3. KInv /\ Tally => CountedInOrder
    BY DEF Tally, CountedInOrder
  <2>. QED BY <2>1, <2>2, <2>3, PTL DEF Spec
<1>. QED BY <1>1, <1>2

-----------------------------------------------------------------------------
(* The messages.  What the two queues of a complete table hold is one of   *)
(* seven stages, each reached from the one before by a step of the writer  *)
(* or the reader; the stage tells where the two may be, and what the       *)
(* bucket behind a pointer to the flag holds by the time it is read.       *)

KeyAt(n) == IF n \in {1, 4} THEN "" ELSE IF n <= 3 THEN "message" ELSE "Returned!"
FlagAt(n) == IF n \in {1, 2, 6} THEN "" ELSE IF n <= 5 THEN "1" ELSE "0"

Queued(k, v) ==
  IF v = "" THEN T.queue[k] = <<>>
  ELSE \E b \in Buckets : T.queue[k] = <<b>> /\ T.val[b] = v

Stage(n) ==
  /\ Queued("key", KeyAt(n)) /\ Queued("flag", FlagAt(n))
  /\ T.queue["key"] # <<>> => T.queue["key"] # T.queue["flag"]

WriterAt(w, n) ==
  /\ pc[w] \in InCreate \cup {"send"} => n = 1
  /\ pc[w] \in {"clear", "raise"} => n = 2
  /\ pc[w] \in {"poll", "look"} => n >= 3
  /\ pc[w] = "fetch" => n = 7
  /\ pc[w] = "look" /\ ptr[w] # 0 => /\ n <= 5 => T.queue["flag"] = <<ptr[w]>>
                                     /\ n = 6 => T.val[ptr[w]] = "1"

ReaderAt(r, n) ==
  /\ pc[r] \in InCreate \cup {"poll", "look"} => n <= 3
  /\ pc[r] = "look" /\ ptr[r] # 0 => n = 3 /\ T.queue["flag"] = <<ptr[r]>>
  /\ pc[r] \in {"fetch", "take"} => n = 3
  /\ pc[r] = "answer" => n = 4
  /\ pc[r] = "clear" => n = 5
  /\ pc[r] = "lower" => n = 6

Exchange(n) ==
  /\ Stage(n)
  /\ \A w \in Writers : WriterAt(w, n)
  /\ \A r \in Readers : ReaderAt(r, n)
  /\ served \cap Writers = {} => n = 1
  /\ served \cap Readers = {} => n <= 3

OneEach ==
  /\ \A p, q \in served \cap Writers : p = q
  /\ \A p, q \in served \cap Readers : p = q

\* without a lock that works no operation does anything
Useless == \A p \in Running :
  /\ ptr[p] = 0
  /\ pc[p] \notin {"fetch", "take", "answer", "lower"}
  /\ p \in Readers => pc[p] # "clear"

Heard == \A p \in Procs : got[p] \in {"", IF p \in Readers THEN "message" ELSE "Returned!"}

Protocol ==
  /\ OneEach /\ Heard
  /\ Complete => \E n \in 1..7 : Exchange(n)
  /\ ~Complete => Useless

-----------------------------------------------------------------------------
(* What the operations do to a complete table                              *)

LEMMA StageQueues ==
  ASSUME NEW n \in 1..7, Stage(n), KInv, Complete
  PROVE  /\ T.queue["key"] = <<>> \/ \E b \in Buckets : T.queue["key"] = <<b>>
         /\ T.queue["flag"] = <<>> \/ \E b \in Buckets : T.queue["flag"] = <<b>>
BY DEF Stage, Queued

LEMMA AppendToNone == ASSUME NEW b \in Buckets PROVE Append(<<>>, b) = <<b>>
OBVIOUS

LEMMA FlagRaised ==
  ASSUME NEW n \in 3..5, Stage(n)
  PROVE  \E b \in Buckets : T.queue["flag"] = <<b>> /\ T.val[b] = "1"
<1>1. FlagAt(n) = "1"
  BY DEF FlagAt
<1>. QED BY <1>1 DEF Stage, Queued

LEMMA RangeOfOne ==
  ASSUME NEW q, q = <<>> \/ \E b \in Buckets : q = <<b>>
  PROVE  \E a : Range(q) \subseteq {a}
<1>1. CASE q = <<>>
  <2>1. DOMAIN q = {}
    BY <1>1
  <2>. QED BY <2>1 DEF Range
<1>2. CASE \E b \in Buckets : q = <<b>>
  <2>1. PICK b \in Buckets : q = <<b>>
    BY <1>2
  <2>2. DOMAIN q = {1} /\ q[1] = b
    BY <2>1
  <2>. QED BY <2>2 DEF Range
<1>. QED BY <1>1, <1>2

LEMMA Room ==
  ASSUME KInv, Tally, Complete, NEW n \in 1..7, Stage(n), NEW p \in Procs, pc[p] \in Using
  PROVE  HasRoom(p)
<1>1. Table(p) = T
  BY TableIs DEF T
<1>2. \E a, b : InUse(p) \subseteq {a, b}
  <2>1. PICK a : Range(T.queue["key"]) \subseteq {a}
    BY StageQueues, RangeOfOne
  <2>2. PICK b : Range(T.queue["flag"]) \subseteq {b}
    BY StageQueues, RangeOfOne
  <2>. QED BY <1>1, <2>1, <2>2 DEF InUse, Keys
<1>3. PICK a, b : InUse(p) \subseteq {a, b}
  BY <1>2
<1>4. IsFiniteSet({a, b}) /\ Cardinality({a, b}) \in Nat /\ Cardinality({a, b}) <= 2
  <2>1. IsFiniteSet({a}) /\ Cardinality({a}) = 1
    BY FS_Singleton
  <2>2. /\ IsFiniteSet({a} \cup {b})
        /\ Cardinality({a} \cup {b}) = 1 \/ Cardinality({a} \cup {b}) = 2
    BY <2>1, FS_AddElement
  <2>3. {a, b} = {a} \cup {b}
    OBVIOUS
  <2>. QED BY <2>2, <2>3
<1>5. Cardinality(Procs) >= 1 /\ Cardinality(Procs) \in Nat
  <2>1. Cardinality(Procs) # 0
    BY Kinds, FS_EmptySet
  <2>. QED BY <2>1, Kinds
<1>6. Cardinality(Buckets) > 2 /\ Cardinality(Buckets) \in Nat
  <2>1. Cardinality(Buckets) \in Nat /\ Cardinality(Buckets) > Cardinality(Procs) + 1
    BY ExchangeAssumption, FS_CardinalityType
  <2>. QED BY <1>5, <2>1
<1>7. Buckets \subseteq {a, b} => Cardinality(Buckets) <= Cardinality({a, b})
  <2>1. Buckets \subseteq {a, b} => Buckets \in SUBSET {a, b}
    OBVIOUS
  <2>. QED BY <1>4, <2>1, FS_Subset
<1>8. InUse(p) # Buckets
  BY <1>3, <1>4, <1>6, <1>7
<1>9. T.entrycount < Cardinality(Buckets)
  <2>1. \A c \in Buckets : Len(<<c>>) = 1
    OBVIOUS
  <2>4. Len(<<>>) = 0
    OBVIOUS
  <2>5. ASSUME NEW q, q = <<>> \/ \E c \in Buckets : q = <<c>> PROVE Len(q) \in {0, 1}
    BY <2>1, <2>4, <2>5
  <2>2. Len(T.queue["key"]) \in {0, 1} /\ Len(T.queue["flag"]) \in {0, 1}
    BY <2>5, StageQueues
  <2>6. PICK f \in {0, 1}, g \in {0, 1} :
          f = Len(T.queue["flag"]) /\ g = Len(T.queue["key"])
    BY <2>2
  <2>3. T.entrycount = Len(T.queue["flag"]) + Len(T.queue["key"])
    <3>1. shm \in Ids
      BY TableIs
    <3>. QED BY <3>1 DEF Tally, Counted, T
  <2>7. T.entrycount = f + g
    BY <2>3, <2>6
  <2>. QED BY <1>6, <2>7
<1>. QED BY <1>1, <1>8, <1>9 DEF HasRoom

LEMMA InsertActs ==
  ASSUME KInv, Tally, Complete, NEW n \in 1..7, Stage(n), NEW p \in Procs, NEW k \in Keys,
         NEW v \in Words, NEW from \in Using, NEW x \in Using \cup {"done"},
         Insert(p, k, v, from, x)
  PROVE  \E b \in Buckets :
           /\ \A j \in Keys : T.queue[j] # <<b>>
           /\ T'.queue[k] = Append(T.queue[k], b)
           /\ \A j \in Keys : j # k => T'.queue[j] = T.queue[j]
           /\ T'.val[b] = v /\ \A c \in Buckets : c # b => T'.val[c] = T.val[c]
<1>1. pc[p] \in Using
  BY DEF Insert, UseStep, At
<1>2. HasRoom(p)
  BY <1>1, Room
<1>. QED BY <1>2, InsertDoes

-----------------------------------------------------------------------------
(* The steps from a stage to the next                                      *)

\* of the writers, or the readers, only one runs
LEMMA OthersOver ==
  ASSUME KInv, OneEach, NEW p \in Running, NEW q \in Procs, q # p,
         {p, q} \subseteq Writers \/ {p, q} \subseteq Readers
  PROVE  pc[q] \in Over
BY DEF KInv, Served, OneEach, Running, Over

\* a step of p, on the table
TableStep(p) ==
  /\ \A q \in Procs : q # p => pc'[q] = pc[q] /\ ptr'[q] = ptr[q]
  /\ UNCHANGED <<shm, served>>

LEMMA WriterAdvances ==
  ASSUME KInv, OneEach, NEW p \in Writers, p \in Running, TableStep(p),
         NEW n \in 1..2, NEW m \in n..3, Exchange(n), Stage(m)', WriterAt(p, m)'
  PROVE  Exchange(m)'
<1>1. \A w \in Writers : w # p => WriterAt(w, m)'
  <2>. SUFFICES ASSUME NEW w \in Writers, w # p PROVE WriterAt(w, m)'
    OBVIOUS
  <2>1. w \in Procs /\ p \in Procs
    BY DEF Procs
  <2>2. pc'[w] \in Over
    BY <2>1, OthersOver DEF TableStep
  <2>. QED BY <2>2 DEF WriterAt, Over, InCreate
<1>2. \A r \in Readers : ReaderAt(r, m)'
  <2>. SUFFICES ASSUME NEW r \in Readers PROVE ReaderAt(r, m)'
    OBVIOUS
  <2>1. r \in Procs /\ r # p
    BY Kinds DEF Procs
  <2>2. ReaderAt(r, n) /\ pc'[r] = pc[r] /\ ptr'[r] = ptr[r]
    BY <2>1 DEF Exchange, TableStep
  <2>3. n < 3 /\ m <= 3
    OBVIOUS
  <2>. QED BY <2>2, <2>3 DEF ReaderAt
<1>3. p \in served /\ served' = served
  BY DEF KInv, Served, TableStep
<1>. QED BY <1>1, <1>2, <1>3 DEF Exchange

LEMMA ReaderAdvances ==
  ASSUME KInv, OneEach, NEW p \in Readers, p \in Running, TableStep(p),
         NEW n \in 3..6, NEW m, m = n + 1, Exchange(n), Stage(m)', ReaderAt(p, m)',
         n <= 4 => T'.queue["flag"] = T.queue["flag"],
         n = 5 => T'.val = T.val
  PROVE  Exchange(m)'
<1>1. \A r \in Readers : r # p => ReaderAt(r, m)'
  <2>. SUFFICES ASSUME NEW r \in Readers, r # p PROVE ReaderAt(r, m)'
    OBVIOUS
  <2>1. r \in Procs /\ p \in Procs
    BY DEF Procs
  <2>2. pc'[r] \in Over
    BY <2>1, OthersOver DEF TableStep
  <2>. QED BY <2>2 DEF ReaderAt, Over, InCreate
<1>2. \A w \in Writers : WriterAt(w, m)'
  <2>. SUFFICES ASSUME NEW w \in Writers PROVE WriterAt(w, m)'
    OBVIOUS
  <2>1. w \in Procs /\ w # p
    BY Kinds DEF Procs
  <2>2. WriterAt(w, n) /\ pc'[w] = pc[w] /\ ptr'[w] = ptr[w]
    BY <2>1 DEF Exchange, TableStep
  <2>3. pc[w] \notin InCreate \cup {"send", "clear", "raise", "fetch"} /\ m >= 3
    BY <2>2 DEF WriterAt
  <2>4. ASSUME pc[w] = "look", ptr[w] # 0
        PROVE  /\ m <= 5 => T'.queue["flag"] = <<ptr[w]>>
               /\ m = 6 => T'.val[ptr[w]] = "1"
    <3>1. m <= 5 => T'.queue["flag"] = <<ptr[w]>>
      BY <2>2, <2>4 DEF WriterAt
    <3>2. ASSUME m = 6 PROVE T'.val[ptr[w]] = "1"
      <4>1. n = 5 /\ T.queue["flag"] = <<ptr[w]>>
        BY <2>2, <2>4, <3>2 DEF WriterAt
      <4>2. PICK b \in Buckets : T.queue["flag"] = <<b>> /\ T.val[b] = "1"
        BY <4>1, FlagRaised DEF Exchange
      <4>3. b = ptr[w]
        <5>1. <<b>>[1] = <<ptr[w]>>[1]
          BY <4>1, <4>2
        <5>. QED BY <5>1
      <4>4. T'.val = T.val
        BY <4>1
      <4>. QED BY <2>2, <4>2, <4>3, <4>4
    <3>. QED BY <3>1, <3>2
  <2>. QED BY <2>2, <2>3, <2>4 DEF WriterAt
<1>3. p \in served /\ served' = served /\ n # 1 /\ served \cap Writers # {}
  BY DEF KInv, Served, TableStep, Exchange
<1>. QED BY <1>1, <1>2, <1>3 DEF Exchange

\* the table stays as it is
LEMMA StageStays ==
  ASSUME KInv, OneEach, NEW p \in Procs, p \in Running, TableStep(p), T' = T,
         NEW n \in 1..7, Exchange(n),
         p \in Writers => WriterAt(p, n)', p \in Readers => ReaderAt(p, n)'
  PROVE  Exchange(n)'
<1>1. Stage(n)'
  BY DEF Exchange, Stage, Queued
<1>2. \A w \in Writers : w # p => WriterAt(w, n)'
  BY DEF TableStep, Procs, Exchange, WriterAt
<1>3. \A r \in Readers : r # p => ReaderAt(r, n)'
  BY DEF TableStep, Procs, Exchange, ReaderAt
<1>. QED BY <1>1, <1>2, <1>3 DEF Exchange, TableStep

\* an insertion into an empty queue, and the removal of the one element
LEMMA InsertStages ==
  ASSUME KInv, Tally, Complete, NEW n \in 1..7, NEW m \in 1..7, Stage(n), NEW p \in Procs,
         NEW k \in Keys, NEW v \in Words, v # "",
         NEW from \in Using, NEW x \in Using \cup {"done"}, Insert(p, k, v, from, x),
         k = "key" => KeyAt(n) = "" /\ KeyAt(m) = v /\ FlagAt(m) = FlagAt(n),
         k = "flag" => FlagAt(n) = "" /\ FlagAt(m) = v /\ KeyAt(m) = KeyAt(n)
  PROVE  /\ Stage(m)'
         /\ \A j \in Keys : j # k => T'.queue[j] = T.queue[j]
<1> DEFINE Acts(b) ==
        /\ \A j \in Keys : T.queue[j] # <<b>>
        /\ T'.queue[k] = Append(T.queue[k], b)
        /\ \A j \in Keys : j # k => T'.queue[j] = T.queue[j]
        /\ T'.val[b] = v /\ \A c \in Buckets : c # b => T'.val[c] = T.val[c]
<1>0. \E b \in Buckets : Acts(b)
  BY InsertActs, ZenonT(40)
<1>1. PICK b \in Buckets : Acts(b)
  BY <1>0
<1>2. T.queue[k] = <<>>
  <2>1. CASE k = "key"
    BY <2>1 DEF Stage, Queued
  <2>2. CASE k = "flag"
    BY <2>2 DEF Stage, Queued
  <2>. QED BY <2>1, <2>2 DEF Keys
<1>3. T'.queue[k] = <<b>>
  <2>1. Append(<<>>, b) = <<b>>
    BY AppendToNone
  <2>2. T'.queue[k] = Append(T.queue[k], b)
    BY <1>1
  <2>. QED BY <1>2, <2>1, <2>2
<1>4. \A j \in Keys, u \in Words : j # k /\ Queued(j, u) => Queued(j, u)'
  BY <1>1 DEF Queued
<1>5. Queued(k, v)'
  BY <1>1, <1>3 DEF Queued
<1>6. KeyAt(n) \in Words /\ FlagAt(n) \in Words
  BY DEF KeyAt, FlagAt, Words
<1>7. CASE k = "key"
  <2>1. Queued("key", KeyAt(m))' /\ Queued("flag", FlagAt(m))'
    BY <1>4, <1>5, <1>6, <1>7 DEF Stage, Keys
  <2>2. T'.queue["key"] # T'.queue["flag"]
    BY <1>1, <1>3, <1>7 DEF Keys
  <2>. QED BY <1>1, <2>1, <2>2 DEF Stage
<1>8. CASE k = "flag"
  <2>1. Queued("key", KeyAt(m))' /\ Queued("flag", FlagAt(m))'
    BY <1>4, <1>5, <1>6, <1>8 DEF Stage, Keys
  <2>2. T'.queue["key"] # T'.queue["flag"]
    BY <1>1, <1>3, <1>8 DEF Keys
  <2>. QED BY <1>1, <2>1, <2>2 DEF Stage
<1>. QED BY <1>7, <1>8 DEF Keys

LEMMA RemoveStages ==
  ASSUME KInv, Complete, NEW n \in 1..7, NEW m \in 1..7, Stage(n), NEW p \in Procs,
         NEW k \in Keys,
         NEW from \in Using, NEW x \in Using \cup {"done"}, Remove(p, k, from, x),
         k = "key" => KeyAt(m) = "" /\ FlagAt(m) = FlagAt(n),
         k = "flag" => FlagAt(m) = "" /\ KeyAt(m) = KeyAt(n)
  PROVE  /\ Stage(m)' /\ T'.val = T.val
         /\ \A j \in Keys : j # k => T'.queue[j] = T.queue[j]
<1>1. /\ T.queue[k] = <<>> => T' = T
      /\ \A b \in Buckets : T.queue[k] = <<b>> => T'.queue[k] = <<>>
      /\ \A j \in Keys : j # k => T'.queue[j] = T.queue[j]
      /\ T'.val = T.val
  BY RemoveActs
<1>2. T.queue[k] = <<>> \/ \E b \in Buckets : T.queue[k] = <<b>>
  BY StageQueues DEF Keys
<1>3. T'.queue[k] = <<>>
  BY <1>1, <1>2
<1>4. \A j \in Keys, u \in Words : j # k /\ Queued(j, u) => Queued(j, u)'
  BY <1>1 DEF Queued
<1>5. Queued(k, "")'
  BY <1>3 DEF Queued
<1>6. KeyAt(n) \in Words /\ FlagAt(n) \in Words
  BY DEF KeyAt, FlagAt, Words
<1>7. Queued("key", KeyAt(m))' /\ Queued("flag", FlagAt(m))'
  BY <1>4, <1>5, <1>6 DEF Stage, Keys
<1>8. T'.queue["key"] # <<>> => T'.queue["key"] # T'.queue["flag"]
  BY <1>1, <1>3 DEF Keys
<1>. QED BY <1>1, <1>7, <1>8 DEF Stage

-----------------------------------------------------------------------------
(* The operations of write_table and read_table                            *)

LEMMA UseStepMoves ==
  ASSUME KInv, NEW p \in Procs, NEW from \in Using, NEW x \in Using \cup {"done"},
         UseStep(p, from, x), \A q \in Procs : q # p => ptr'[q] = ptr[q]
  PROVE  /\ TableStep(p) /\ p \in Running /\ pc[p] = from /\ pc'[p] = x
         /\ Running' \subseteq Running
<1>1. /\ pc[p] = from /\ pc' = [pc EXCEPT ![p] = x] /\ x \in Places
      /\ UNCHANGED <<shm, served>>
  BY DEF UseStep, At, kernel, Places, Over
<1>2. p \in Running
  BY <1>1 DEF Running, Using
<1>. QED BY <1>1, <1>2, Moves DEF TableStep, KInv

\* without a lock that works
LEMMA UselessStays ==
  ASSUME KInv, ~Complete, ~Complete', Useless, NEW p \in Procs,
         (p \in Writers /\ Write(p)) \/ (p \in Readers /\ Read(p))
  PROVE  Useless' /\ got' = got
<1>1. ASSUME NEW from \in Using, NEW x \in Using \cup {"done"}, UseStep(p, from, x),
             ptr' \in [Procs -> Nat], ptr'[p] = 0, \A q \in Procs : q # p => ptr'[q] = ptr[q],
             x \notin {"fetch", "take", "answer", "lower"}, p \in Readers => x # "clear"
      PROVE  Useless'
  <2>1. TableStep(p) /\ p \in Running /\ pc'[p] = x /\ Running' \subseteq Running
    BY <1>1, UseStepMoves
  <2>2. \A q \in Procs : q # p => pc'[q] = pc[q] /\ ptr'[q] = ptr[q]
    BY <2>1 DEF TableStep
  <2>3. Running' \subseteq Procs
    BY DEF Running
  <2>. QED BY <1>1, <2>1, <2>2, <2>3 DEF Useless
<1>2. ASSUME pc[p] \in Using
      PROVE  /\ ~Locks(p) /\ p \in Running /\ ptr[p] = 0
             /\ pc[p] \notin {"fetch", "take", "answer", "lower"}
             /\ p \in Readers => pc[p] # "clear"
  <2>1. ~Locks(p) /\ p \in Running
    BY <1>2, TableIs
  <2>. QED BY <2>1 DEF Useless
<1>3. ptr \in [Procs -> Nat] /\ Writers \cap Readers = {}
  BY Kinds DEF KInv, Typed
<1>4. CASE Poll(p)
  <2>1. UseStep(p, "poll", "look") /\ ptr' = [ptr EXCEPT ![p] = FirstOf(p, "flag")] /\ got' = got
    BY <1>4 DEF Poll
  <2>2. pc[p] = "poll"
    BY <2>1 DEF UseStep, At
  <2>3. FirstOf(p, "flag") = 0
    BY <1>2, <2>2 DEF FirstOf, Using
  <2>4. /\ ptr' \in [Procs -> Nat] /\ ptr'[p] = 0
        /\ \A q \in Procs : q # p => ptr'[q] = ptr[q]
    BY <1>3, <2>1, <2>3
  <2>. QED BY <1>1, <2>1, <2>4 DEF Using
<1>5. ASSUME NEW v \in Words, Look(p, v, "fetch")
      PROVE  Useless' /\ got' = got
  <2>1. ptr' = [ptr EXCEPT ![p] = 0] /\ got' = got /\ pc[p] = "look"
    BY <1>5 DEF Look, UseStep, At
  <2>2. ptr[p] = 0
    BY <1>2, <2>1 DEF Using
  <2>3. UseStep(p, "look", "poll")
    BY <1>5, <2>2 DEF Look
  <2>4. /\ ptr' \in [Procs -> Nat] /\ ptr'[p] = 0
        /\ \A q \in Procs : q # p => ptr'[q] = ptr[q]
    BY <1>3, <2>1
  <2>. QED BY <1>1, <2>1, <2>3, <2>4 DEF Using
<1>6. ASSUME NEW from \in Using, NEW x \in Using \cup {"done"}, UseStep(p, from, x),
             from \notin {"poll", "look"}, ptr' = ptr, got' = got,
             p \in Writers => x \in {"clear", "raise", "poll"},
             p \in Readers => from \in {"take", "answer", "clear", "lower"}
      PROVE  Useless'
  <2>1. pc[p] = from
    BY <1>6 DEF UseStep, At
  <2>2. ptr'[p] = 0 /\ p \notin Readers
    BY <1>2, <1>6, <2>1
  <2>3. p \in Writers
    BY <2>2
  <2>. QED BY <1>1, <1>3, <1>6, <2>2, <2>3
<1>7. ASSUME p \in Writers, Write(p)
      PROVE  Useless' /\ got' = got
  <2>1. CASE Insert(p, "key", "message", "send", "clear") \/ Insert(p, "flag", "1", "raise", "poll")
    BY <1>3, <1>6, <1>7, <2>1 DEF Insert, Using
  <2>2. CASE Remove(p, "flag", "clear", "raise")
    BY <1>3, <1>6, <1>7, <2>2 DEF Remove, Using
  <2>3. ~Fetch(p, "fetch", "done")
    BY <1>2 DEF Fetch, UseStep, At, Using
  <2>. QED BY <1>4, <1>5, <1>7, <2>1, <2>2, <2>3 DEF Write, Words
<1>8. ASSUME p \in Readers, Read(p)
      PROVE  Useless' /\ got' = got
  <2>1. /\ ~Fetch(p, "fetch", "take") /\ ~Remove(p, "key", "take", "answer")
        /\ ~Insert(p, "key", "Returned!", "answer", "clear")
        /\ ~Remove(p, "flag", "clear", "lower") /\ ~Insert(p, "flag", "0", "lower", "done")
    BY <1>2, <1>8 DEF Fetch, Remove, Insert, UseStep, At, Using
  <2>. QED BY <1>4, <1>5, <1>8, <2>1 DEF Read, Words
<1>. QED BY <1>7, <1>8

\* what is behind a pointer to the flag
LEMMA FlagSeen ==
  ASSUME KInv, NEW n \in 1..7, Stage(n), Complete, NEW p \in Procs, pc[p] \in Using
  PROVE  /\ n \in {1, 2, 6} => FirstOf(p, "flag") = 0
         /\ FirstOf(p, "flag") # 0 => T.queue["flag"] = <<FirstOf(p, "flag")>>
<1>1. Table(p) = T /\ Locks(p)
  BY TableIs DEF T
<1>2. n \in {1, 2, 6} => T.queue["flag"] = <<>>
  BY DEF Stage, Queued, FlagAt
<1>3. ASSUME NEW b \in Buckets, T.queue["flag"] = <<b>> PROVE FirstOf(p, "flag") = b
  <2>1. Head(<<b>>) = b /\ <<b>> # <<>>
    OBVIOUS
  <2>. QED BY <1>1, <1>3, <2>1 DEF FirstOf
<1>4. T.queue["flag"] = <<>> => FirstOf(p, "flag") = 0
  BY <1>1 DEF FirstOf
<1>. QED BY <1>2, <1>3, <1>4, StageQueues

LEMMA KeySeen ==
  ASSUME KInv, NEW n \in {2, 3, 5, 6, 7}, Stage(n), Complete, NEW p \in Procs, pc[p] \in Using
  PROVE  FirstOf(p, "key") # 0 /\ Table(p).val[FirstOf(p, "key")] = KeyAt(n)
<1>1. Table(p) = T /\ Locks(p)
  BY TableIs DEF T
<1>2. KeyAt(n) # ""
  BY DEF KeyAt
<1>3. PICK b \in Buckets : T.queue["key"] = <<b>> /\ T.val[b] = KeyAt(n)
  BY <1>2 DEF Stage, Queued
<1>4. Head(<<b>>) = b /\ <<b>> # <<>> /\ b # 0
  BY ExchangeAssumption
<1>. QED BY <1>1, <1>3, <1>4 DEF FirstOf

LEMMA WriteExchanges ==
  ASSUME KInv, Tally, Complete, OneEach, NEW n \in 1..7, Exchange(n), NEW p \in Writers, Write(p)
  PROVE  /\ \E m \in 1..7 : Exchange(m)'
         /\ got' = got \/ got' = [got EXCEPT ![p] = "Returned!"]
<1>1. p \in Procs /\ p \notin Readers /\ WriterAt(p, n) /\ Stage(n)
  BY Kinds DEF Procs, Exchange
<1>2. CASE Insert(p, "key", "message", "send", "clear")
  <2>1. UseStep(p, "send", "clear") /\ ptr' = ptr /\ got' = got
    BY <1>2 DEF Insert
  <2>2. TableStep(p) /\ p \in Running /\ pc[p] = "send" /\ pc'[p] = "clear"
    BY <1>1, <2>1, UseStepMoves DEF Using
  <2>3. n = 1
    BY <1>1, <2>2 DEF WriterAt
  <2>4. Stage(2)'
    <3>1. KeyAt(1) = "" /\ KeyAt(2) = "message" /\ FlagAt(1) = FlagAt(2) /\ Stage(1)
      BY <1>1, <2>3 DEF KeyAt, FlagAt
    <3>2. /\ "key" \in Keys /\ "message" \in Words /\ "message" # "" /\ "key" # "flag"
          /\ "send" \in Using /\ "clear" \in Using \cup {"done"} /\ 1 \in 1..7 /\ 2 \in 1..7
      BY DEF Using, Keys, Words
    <3>. QED BY <1>1, <1>2, <3>1, <3>2, InsertStages
  <2>5. WriterAt(p, 2)'
    BY <2>2 DEF WriterAt, InCreate
  <2>6. Exchange(2)'
    BY <2>2, <2>3, <2>4, <2>5, WriterAdvances
  <2>. QED BY <2>1, <2>6
<1>3. CASE Remove(p, "flag", "clear", "raise")
  <2>1. UseStep(p, "clear", "raise") /\ ptr' = ptr /\ got' = got
    BY <1>3 DEF Remove
  <2>2. TableStep(p) /\ p \in Running /\ pc[p] = "clear" /\ pc'[p] = "raise"
    BY <1>1, <2>1, UseStepMoves DEF Using
  <2>3. n = 2
    BY <1>1, <2>2 DEF WriterAt
  <2>4. Stage(2)'
    BY <1>1, <1>3, <2>3, RemoveStages DEF Using, Keys, FlagAt
  <2>5. WriterAt(p, 2)'
    BY <2>2 DEF WriterAt, InCreate
  <2>6. Exchange(2)'
    BY <2>2, <2>3, <2>4, <2>5, WriterAdvances
  <2>. QED BY <2>1, <2>6
<1>4. CASE Insert(p, "flag", "1", "raise", "poll")
  <2>1. UseStep(p, "raise", "poll") /\ ptr' = ptr /\ got' = got
    BY <1>4 DEF Insert
  <2>2. TableStep(p) /\ p \in Running /\ pc[p] = "raise" /\ pc'[p] = "poll"
    BY <1>1, <2>1, UseStepMoves DEF Using
  <2>3. n = 2
    BY <1>1, <2>2 DEF WriterAt
  <2>4. Stage(3)'
    <3>1. FlagAt(2) = "" /\ FlagAt(3) = "1" /\ KeyAt(2) = KeyAt(3) /\ Stage(2)
      BY <1>1, <2>3 DEF KeyAt, FlagAt
    <3>2. /\ "flag" \in Keys /\ "1" \in Words /\ "1" # "" /\ "key" # "flag"
          /\ "raise" \in Using /\ "poll" \in Using \cup {"done"} /\ 2 \in 1..7 /\ 3 \in 1..7
      BY DEF Using, Keys, Words
    <3>. QED BY <1>1, <1>4, <3>1, <3>2, InsertStages
  <2>5. WriterAt(p, 3)'
    BY <2>2 DEF WriterAt, InCreate
  <2>6. Exchange(3)'
    BY <2>2, <2>3, <2>4, <2>5, WriterAdvances
  <2>. QED BY <2>1, <2>6
<1>5. CASE Poll(p)
  <2>1. /\ UseStep(p, "poll", "look") /\ ptr' = [ptr EXCEPT ![p] = FirstOf(p, "flag")]
        /\ got' = got /\ mem' = mem
    BY <1>5 DEF Poll
  <2>2. ptr'[p] = FirstOf(p, "flag") /\ \A q \in Procs : q # p => ptr'[q] = ptr[q]
    BY <1>1, <2>1 DEF KInv, Typed
  <2>3. TableStep(p) /\ p \in Running /\ pc[p] = "poll" /\ pc'[p] = "look"
    BY <1>1, <2>1, <2>2, UseStepMoves DEF Using
  <2>4. T' = T
    BY <2>1, <2>3 DEF T, TableStep
  <2>5. n >= 3
    BY <1>1, <2>3 DEF WriterAt
  <2>6. WriterAt(p, n)'
    <3>1. /\ n = 6 => ptr'[p] = 0
          /\ ptr'[p] # 0 => T.queue["flag"] = <<ptr'[p]>>
      BY <1>1, <2>2, <2>3, FlagSeen DEF Using
    <3>. QED BY <2>3, <2>4, <2>5, <3>1 DEF WriterAt, InCreate
  <2>7. Exchange(n)'
    BY <1>1, <2>3, <2>4, <2>6, StageStays
  <2>. QED BY <2>1, <2>7
<1>6. CASE Look(p, "0", "fetch")
  <2>1. PICK x \in {"fetch", "poll"} :
          /\ UseStep(p, "look", x)
          /\ x = "fetch" => ptr[p] # 0 /\ Table(p).val[ptr[p]] = "0"
    BY <1>6 DEF Look
  <2>2. ptr' = [ptr EXCEPT ![p] = 0] /\ got' = got /\ mem' = mem
    BY <1>6 DEF Look
  <2>3. ptr'[p] = 0 /\ \A q \in Procs : q # p => ptr'[q] = ptr[q]
    BY <1>1, <2>2 DEF KInv, Typed
  <2>4. TableStep(p) /\ p \in Running /\ pc[p] = "look" /\ pc'[p] = x
    BY <1>1, <2>1, <2>3, UseStepMoves DEF Using
  <2>5. T' = T /\ Table(p) = T
    BY <1>1, <2>2, <2>4, TableIs DEF T, TableStep, Using
  <2>6. /\ n >= 3
        /\ ptr[p] # 0 => /\ n <= 5 => T.queue["flag"] = <<ptr[p]>>
                         /\ n = 6 => T.val[ptr[p]] = "1"
    BY <1>1, <2>4 DEF WriterAt
  <2>7. x = "fetch" => n = 7
    <3>1. ASSUME x = "fetch", n <= 5 PROVE FALSE
      <4> n \in 3..5
        BY <2>6, <3>1
      <4>1. PICK b \in Buckets : T.queue["flag"] = <<b>> /\ T.val[b] = "1"
        BY <1>1, FlagRaised
      <4>2. T.queue["flag"] = <<ptr[p]>>
        BY <2>1, <2>6, <3>1
      <4>3. <<b>>[1] = <<ptr[p]>>[1]
        BY <4>1, <4>2
      <4>. QED BY <2>1, <2>5, <3>1, <4>1, <4>3
    <3>2. ASSUME x = "fetch", n = 6 PROVE FALSE
      BY <2>1, <2>5, <2>6, <3>2
    <3>. QED BY <2>6, <3>1, <3>2
  <2>8. WriterAt(p, n)'
    BY <2>1, <2>3, <2>4, <2>6, <2>7 DEF WriterAt, InCreate
  <2>9. Exchange(n)'
    BY <1>1, <2>4, <2>5, <2>8, StageStays
  <2>. QED BY <2>2, <2>9
<1>7. CASE Fetch(p, "fetch", "done")
  <2>1. UseStep(p, "fetch", "done") /\ ptr' = ptr /\ mem' = mem
    BY <1>7 DEF Fetch
  <2>2. TableStep(p) /\ p \in Running /\ pc[p] = "fetch" /\ pc'[p] = "done"
    BY <1>1, <2>1, UseStepMoves DEF Using
  <2>3. T' = T
    BY <2>1, <2>2 DEF T, TableStep
  <2>4. n = 7
    BY <1>1, <2>2 DEF WriterAt
  <2>5. got' = [got EXCEPT ![p] = "Returned!"]
    <3>1. FirstOf(p, "key") # 0 /\ Table(p).val[FirstOf(p, "key")] = "Returned!"
      BY <1>1, <2>2, <2>4, KeySeen DEF Using, KeyAt
    <3>. QED BY <1>7, <3>1 DEF Fetch
  <2>6. WriterAt(p, n)'
    BY <2>2 DEF WriterAt, InCreate
  <2>7. Exchange(n)'
    BY <1>1, <2>2, <2>3, <2>6, StageStays
  <2>. QED BY <2>5, <2>7
<1>. QED BY <1>2, <1>3, <1>4, <1>5, <1>6, <1>7 DEF Write

LEMMA ReadExchanges ==
  ASSUME KInv, Tally, Complete, OneEach, NEW n \in 1..7, Exchange(n), NEW p \in Readers, Read(p)
  PROVE  /\ \E m \in 1..7 : Exchange(m)'
         /\ got' = got \/ got' = [got EXCEPT ![p] = "message"]
<1>1. p \in Procs /\ p \notin Writers /\ ReaderAt(p, n) /\ Stage(n)
  BY Kinds DEF Procs, Exchange
<1>2. CASE Poll(p)
  <2>1. /\ UseStep(p, "poll", "look") /\ ptr' = [ptr EXCEPT ![p] = FirstOf(p, "flag")]
        /\ got' = got /\ mem' = mem
    BY <1>2 DEF Poll
  <2>2. ptr'[p] = FirstOf(p, "flag") /\ \A q \in Procs : q # p => ptr'[q] = ptr[q]
    BY <1>1, <2>1 DEF KInv, Typed
  <2>3. TableStep(p) /\ p \in Running /\ pc[p] = "poll" /\ pc'[p] = "look"
    BY <1>1, <2>1, <2>2, UseStepMoves DEF Using
  <2>4. T' = T
    BY <2>1, <2>3 DEF T, TableStep
  <2>5. n <= 3
    BY <1>1, <2>3 DEF ReaderAt
  <2>6. ReaderAt(p, n)'
    <3>1. ptr'[p] # 0 => n = 3 /\ T.queue["flag"] = <<ptr'[p]>>
      BY <1>1, <2>2, <2>3, <2>5, FlagSeen DEF Using
    <3>. QED BY <2>3, <2>4, <2>5, <3>1 DEF ReaderAt, InCreate
  <2>7. Exchange(n)'
    BY <1>1, <2>3, <2>4, <2>6, StageStays
  <2>. QED BY <2>1, <2>7
<1>3. CASE Look(p, "1", "fetch")
  <2>1. PICK x \in {"fetch", "poll"} :
          /\ UseStep(p, "look", x)
          /\ x = "fetch" => ptr[p] # 0
    BY <1>3 DEF Look
  <2>2. ptr' = [ptr EXCEPT ![p] = 0] /\ got' = got /\ mem' = mem
    BY <1>3 DEF Look
  <2>3. ptr'[p] = 0 /\ \A q \in Procs : q # p => ptr'[q] = ptr[q]
    BY <1>1, <2>2 DEF KInv, Typed
  <2>4. TableStep(p) /\ p \in Running /\ pc[p] = "look" /\ pc'[p] = x
    BY <1>1, <2>1, <2>3, UseStepMoves DEF Using
  <2>5. T' = T
    BY <2>2, <2>4 DEF T, TableStep
  <2>6. n <= 3 /\ (ptr[p] # 0 => n = 3)
    BY <1>1, <2>4 DEF ReaderAt
  <2>7. ReaderAt(p, n)'
    BY <2>1, <2>3, <2>4, <2>6 DEF ReaderAt, InCreate
  <2>8. Exchange(n)'
    BY <1>1, <2>4, <2>5, <2>7, StageStays
  <2>. QED BY <2>2, <2>8
<1>4. CASE Fetch(p, "fetch", "take")
  <2>1. UseStep(p, "fetch", "take") /\ ptr' = ptr /\ mem' = mem
    BY <1>4 DEF Fetch
  <2>2. TableStep(p) /\ p \in Running /\ pc[p] = "fetch" /\ pc'[p] = "take"
    BY <1>1, <2>1, UseStepMoves DEF Using
  <2>3. T' = T
    BY <2>1, <2>2 DEF T, TableStep
  <2>4. n = 3
    BY <1>1, <2>2 DEF ReaderAt
  <2>5. got' = [got EXCEPT ![p] = "message"]
    <3>1. FirstOf(p, "key") # 0 /\ Table(p).val[FirstOf(p, "key")] = "message"
      BY <1>1, <2>2, <2>4, KeySeen DEF Using, KeyAt
    <3>. QED BY <1>4, <3>1 DEF Fetch
  <2>6. ReaderAt(p, n)'
    BY <2>2, <2>4 DEF ReaderAt, InCreate
  <2>7. Exchange(n)'
    BY <1>1, <2>2, <2>3, <2>6, StageStays
  <2>. QED BY <2>5, <2>7
<1>5. CASE Remove(p, "key", "take", "answer")
  <2>1. UseStep(p, "take", "answer") /\ ptr' = ptr /\ got' = got
    BY <1>5 DEF Remove
  <2>2. TableStep(p) /\ p \in Running /\ pc[p] = "take" /\ pc'[p] = "answer"
    BY <1>1, <2>1, UseStepMoves DEF Using
  <2>3. n = 3
    BY <1>1, <2>2 DEF ReaderAt
  <2>4. /\ Stage(4)' /\ T'.val = T.val
        /\ \A j \in Keys : j # "key" => T'.queue[j] = T.queue[j]
    <3>1. KeyAt(4) = "" /\ FlagAt(3) = FlagAt(4) /\ Stage(3)
      BY <1>1, <2>3 DEF KeyAt, FlagAt
    <3>2. /\ "key" \in Keys /\ "key" # "flag" /\ "take" \in Using
          /\ "answer" \in Using \cup {"done"} /\ 3 \in 1..7 /\ 4 \in 1..7
      BY DEF Using, Keys, Words
    <3>. QED BY ZenonT(60), <1>1, <1>5, <3>1, <3>2, RemoveStages
  <2>5. ReaderAt(p, 4)'
    BY <2>2 DEF ReaderAt, InCreate
  <2>6. Exchange(4)'
    <3>1. 3 \in 3..6 /\ 3 + 1 = 4 /\ Exchange(3) /\ "flag" \in Keys
      BY <2>3 DEF Keys
    <3>. QED BY <2>2, <2>3, <2>4, <2>5, <3>1, ReaderAdvances
  <2>. QED BY <2>1, <2>6
<1>6. CASE Insert(p, "key", "Returned!", "answer", "clear")
  <2>1. UseStep(p, "answer", "clear") /\ ptr' = ptr /\ got' = got
    BY <1>6 DEF Insert
  <2>2. TableStep(p) /\ p \in Running /\ pc[p] = "answer" /\ pc'[p] = "clear"
    BY <1>1, <2>1, UseStepMoves DEF Using
  <2>3. n = 4
    BY <1>1, <2>2 DEF ReaderAt
  <2>4. /\ Stage(5)' /\ \A j \in Keys : j # "key" => T'.queue[j] = T.queue[j]
    <3>1. KeyAt(4) = "" /\ KeyAt(5) = "Returned!" /\ FlagAt(4) = FlagAt(5) /\ Stage(4)
      BY <1>1, <2>3 DEF KeyAt, FlagAt
    <3>2. /\ "key" \in Keys /\ "key" # "flag" /\ "answer" \in Using
          /\ "clear" \in Using \cup {"done"} /\ 4 \in 1..7 /\ 5 \in 1..7
          /\ "Returned!" \in Words /\ "Returned!" # ""
      BY DEF Using, Keys, Words
    <3>. QED BY ZenonT(60), <1>1, <1>6, <3>1, <3>2, InsertStages
  <2>5. ReaderAt(p, 5)'
    BY <2>2 DEF ReaderAt, InCreate
  <2>6. Exchange(5)'
    <3>1. 4 \in 3..6 /\ 4 + 1 = 5 /\ Exchange(4) /\ "flag" \in Keys
      BY <2>3 DEF Keys
    <3>. QED BY <2>2, <2>3, <2>4, <2>5, <3>1, ReaderAdvances
  <2>. QED BY <2>1, <2>6
<1>7. CASE Remove(p, "flag", "clear", "lower")
  <2>1. UseStep(p, "clear", "lower") /\ ptr' = ptr /\ got' = got
    BY <1>7 DEF Remove
  <2>2. TableStep(p) /\ p \in Running /\ pc[p] = "clear" /\ pc'[p] = "lower"
    BY <1>1, <2>1, UseStepMoves DEF Using
  <2>3. n = 5
    BY <1>1, <2>2 DEF ReaderAt
  <2>4. /\ Stage(6)' /\ T'.val = T.val
        /\ \A j \in Keys : j # "flag" => T'.queue[j] = T.queue[j]
    <3>1. FlagAt(6) = "" /\ KeyAt(5) = KeyAt(6) /\ Stage(5)
      BY <1>1, <2>3 DEF KeyAt, FlagAt
    <3>2. /\ "flag" \in Keys /\ "key" # "flag" /\ "clear" \in Using
          /\ "lower" \in Using \cup {"done"} /\ 5 \in 1..7 /\ 6 \in 1..7
      BY DEF Using, Keys, Words
    <3>. QED BY <1>1, <1>7, <3>1, <3>2, RemoveStages
  <2>5. ReaderAt(p, 6)'
    BY <2>2 DEF ReaderAt, InCreate
  <2>6. Exchange(6)'
    <3>1. 5 \in 3..6 /\ 5 + 1 = 6 /\ Exchange(5) /\ "flag" \in Keys
      BY <2>3 DEF Keys
    <3>. QED BY <2>2, <2>3, <2>4, <2>5, <3>1, ReaderAdvances
  <2>. QED BY <2>1, <2>6
<1>8. CASE Insert(p, "flag", "0", "lower", "done")
  <2>1. UseStep(p, "lower", "done") /\ ptr' = ptr /\ got' = got
    BY <1>8 DEF Insert
  <2>2. TableStep(p) /\ p \in Running /\ pc[p] = "lower" /\ pc'[p] = "done"
    BY <1>1, <2>1, UseStepMoves DEF Using
  <2>3. n = 6
    BY <1>1, <2>2 DEF ReaderAt
  <2>4. /\ Stage(7)' /\ \A j \in Keys : j # "flag" => T'.queue[j] = T.queue[j]
    <3>1. FlagAt(6) = "" /\ FlagAt(7) = "0" /\ KeyAt(6) = KeyAt(7) /\ Stage(6)
      BY <1>1, <2>3 DEF KeyAt, FlagAt
    <3>2. /\ "flag" \in Keys /\ "key" # "flag" /\ "lower" \in Using
          /\ "done" \in Using \cup {"done"} /\ 6 \in 1..7 /\ 7 \in 1..7
          /\ "0" \in Words /\ "0" # ""
      BY DEF Using, Keys, Words
    <3>. QED BY <1>1, <1>8, <3>1, <3>2, InsertStages
  <2>5. ReaderAt(p, 7)'
    BY <2>2 DEF ReaderAt, InCreate
  <2>6. Exchange(7)'
    <3>1. 6 \in 3..6 /\ 6 + 1 = 7 /\ Exchange(6) /\ "flag" \in Keys
      BY <2>3 DEF Keys
    <3>. QED BY <2>2, <2>3, <2>4, <2>5, <3>1, ReaderAdvances
  <2>. QED BY <2>1, <2>6
<1>. QED BY <1>2, <1>3, <1>4, <1>5, <1>6, <1>7, <1>8 DEF Read

-----------------------------------------------------------------------------
(* The other steps                                                         *)

\* a process is killed, ends, or goes on with create_shmht: no segment changes
LEMMA LocalProtocol ==
  ASSUME KInv, Protocol, NEW p \in Procs, NEW x \in Places, pc' = [pc EXCEPT ![p] = x],
         UNCHANGED <<shm, ptr, got, served>>, Complete' = Complete,
         T'.queue = T.queue, T'.val = T.val,
         x \notin Over => pc[p] \in InCreate /\ x \in InCreate \cup {First(p)}
  PROVE  Protocol'
<1>1. /\ pc'[p] = x /\ \A q \in Procs : q # p => pc'[q] = pc[q] /\ (q \in Running' <=> q \in Running)
      /\ p \in Running' <=> x \notin Over
      /\ Running' \subseteq Procs
  BY Moves DEF KInv, Running
<1>2. OneEach' /\ Heard' /\ Complete' = Complete /\ T'.queue = T.queue /\ T'.val = T.val
  BY DEF Protocol, OneEach, Heard
<1>3. /\ p \in Writers => First(p) = "send"
      /\ p \in Readers => First(p) = "poll"
      /\ First(p) \in {"send", "poll", "rmsem"}
  BY Kinds DEF First
<1>4. ASSUME NEW n \in 1..7, Exchange(n) PROVE Exchange(n)'
  <2>1. Stage(n)'
    BY <1>2, <1>4 DEF Exchange, Stage, Queued
  <2>2. \A w \in Writers : WriterAt(w, n)'
    <3>. SUFFICES ASSUME NEW w \in Writers PROVE WriterAt(w, n)'
      OBVIOUS
    <3>1. w \in Procs /\ WriterAt(w, n) /\ ptr'[w] = ptr[w]
      BY <1>4 DEF Procs, Exchange
    <3>2. CASE w # p
      BY <1>1, <1>2, <3>1, <3>2 DEF WriterAt
    <3>3. CASE w = p /\ x \in Over
      BY <1>1, <3>3 DEF WriterAt, Over, InCreate
    <3>4. CASE w = p /\ x \notin Over
      BY <1>1, <1>3, <3>1, <3>4 DEF WriterAt, InCreate
    <3>. QED BY <3>2, <3>3, <3>4
  <2>3. \A r \in Readers : ReaderAt(r, n)'
    <3>. SUFFICES ASSUME NEW r \in Readers PROVE ReaderAt(r, n)'
      OBVIOUS
    <3>1. r \in Procs /\ ReaderAt(r, n) /\ ptr'[r] = ptr[r]
      BY <1>4 DEF Procs, Exchange
    <3>2. CASE r # p
      BY <1>1, <1>2, <3>1, <3>2 DEF ReaderAt
    <3>3. CASE r = p /\ x \in Over
      BY <1>1, <3>3 DEF ReaderAt, Over, InCreate
    <3>4. CASE r = p /\ x \notin Over
      BY <1>1, <1>3, <3>1, <3>4 DEF ReaderAt, InCreate
    <3>. QED BY <3>2, <3>3, <3>4
  <2>. QED BY <1>4, <2>1, <2>2, <2>3 DEF Exchange
<1>5. ASSUME Useless PROVE Useless'
  <2>. SUFFICES ASSUME NEW q \in Running'
                PROVE  /\ ptr'[q] = 0 /\ pc'[q] \notin {"fetch", "take", "answer", "lower"}
                       /\ q \in Readers => pc'[q] # "clear"
    BY DEF Useless
  <2>1. CASE q # p
    BY <1>1, <1>5, <2>1 DEF Useless
  <2>2. CASE q = p
    <3>1. x \notin Over /\ p \in Running
      BY <1>1, <2>2 DEF Running, InCreate
    <3>2. x \in InCreate \cup {"send", "poll", "rmsem"}
      BY <1>3, <3>1
    <3>. QED BY <1>1, <1>5, <2>2, <3>1, <3>2 DEF Useless, InCreate
  <2>. QED BY <2>1, <2>2
<1>. QED BY <1>2, <1>4, <1>5 DEF Protocol

\* a process is alone, and what it leads to is no complete table
LEMMA AloneProtocol ==
  ASSUME Protocol, KInv', NEW p \in Procs, Running' \subseteq {p}, ~Complete',
         pc'[p] \in InCreate \cup {"rmshm", "done"},
         got' = got, served' \subseteq served
  PROVE  Protocol'
<1>1. OneEach' /\ Heard'
  BY DEF Protocol, OneEach, Heard
<1>2. pc'[p] \notin Using
  BY DEF InCreate, Using
<1>3. Useless'
  <2>1. ptr'[p] = 0 \/ pc'[p] \in {"look", "killed"}
    BY DEF KInv, Roles
  <2>. QED BY <2>1 DEF Useless, InCreate
<1>. QED BY <1>1, <1>3 DEF Protocol

LEMMA CreateProtocol ==
  ASSUME KInv, KInv', Protocol, NEW p \in Procs, Create(p)
  PROVE  Protocol'
<1>1. CASE Shmget(p) \/ Semget(p) \/ SetVal(p)
  <2>1. PICK x \in InCreate : pc[p] \in InCreate /\ pc' = [pc EXCEPT ![p] = x]
    <3>1. CASE Shmget(p) \/ Semget(p)
      BY <3>1 DEF Shmget, Semget, CreateStep, At, InCreate
    <3>2. CASE SetVal(p)
      <4>1. pc[p] = "setval" /\ set[p] = sem
        BY <3>2 DEF SetVal, CreateStep, At, KInv, Handles, HandlesOf, Running
      <4>. QED BY <3>2, <4>1 DEF SetVal, CreateStep, At, InCreate
    <3>. QED BY <1>1, <3>1, <3>2
  <2>2. UNCHANGED <<shm, sem, mem, ptr, got, served>>
    BY <1>1 DEF Shmget, Semget, SetVal, CreateStep, kernel
  <2>3. x \in Places
    BY DEF Places
  <2>. QED BY <2>1, <2>2, <2>3, LocalProtocol DEF Complete, T
<1>2. CASE ShmCreate(p) \/ Bzero(p) \/ SemCreate(p)
  <2>1. /\ pc[p] \in {"shmcreate", "bzero", "semcreate"}
        /\ UNCHANGED <<ptr, got, served>> /\ p \in Running
    BY <1>2 DEF ShmCreate, Bzero, SemCreate, CreateStep, At, Running
  <2>2. Running = {p}
    <3>1. pc[p] = "bzero" => created[p] /\ Creating(p)
      BY <2>1 DEF KInv, Handles, HandlesOf, Creating, InCreate
    <3>. QED BY <2>1, <3>1, CreatorAlone
  <2>3. PICK x \in {"bzero", "semget", "setval"} : pc' = [pc EXCEPT ![p] = x] /\
          (x = "semget" => pc[p] = "bzero")
    BY <1>2 DEF ShmCreate, Bzero, SemCreate, CreateStep, At
  <2>4. pc'[p] = x /\ p \in Running' /\ Running' = {p}
    <3>1. x \in Places /\ x \notin Over
      BY DEF Places, InCreate, Over
    <3>. QED BY ZenonT(60), <2>2, <2>3, <3>1, Moves DEF KInv
  <2>5. HandlesOf(p)'
    BY <2>4 DEF KInv, Handles
  <2>6. ~Complete'
    <3>1. CASE x = "setval"
      BY <2>4, <2>5, <3>1 DEF HandlesOf, Complete
    <3>2. CASE x \in {"bzero", "semget"}
      <4>1. created'[p]
        <5>1. CASE ShmCreate(p)
          BY <5>1 DEF ShmCreate, KInv, Typed
        <5>2. CASE Bzero(p)
          BY <5>2, <2>1 DEF Bzero, CreateStep, At, handles, KInv, Handles, HandlesOf
        <5>3. CASE SemCreate(p)
          BY <5>3, <2>3, <2>4, <3>2 DEF SemCreate, CreateStep, At, KInv, Typed
        <5>. QED BY <1>2, <5>1, <5>2, <5>3
      <4>2. mem'[shm'] = Blank
        BY <2>4, <2>5, <3>2, <4>1 DEF HandlesOf, Creating, InCreate
      <4>. QED BY <4>2, BlankTyped DEF Complete
    <3>. QED BY <3>1, <3>2
  <2>7. pc'[p] \in InCreate
    BY <2>4 DEF InCreate
  <2>. QED BY <2>1, <2>4, <2>6, <2>7, AloneProtocol
<1>3. CASE Store(p)
  <2> DEFINE x == IF created[p] THEN "storeid" ELSE First(p)
  <2>1. /\ pc[p] = "store" /\ pc' = [pc EXCEPT ![p] = x] /\ p \in Running
        /\ UNCHANGED <<shm, sem, ptr, got, served, created>>
        /\ mem' = IF created[p] THEN [mem EXCEPT ![seg[p]].semaphore = set[p]] ELSE mem
    BY <1>3 DEF Store, CreateStep, At, kernel, handles, Running
  <2>2. x \in Places /\ x \notin Over
    BY DEF First, Places, InCreate, Using, Over
  <2>3. CASE ~created[p]
    <3>1. pc[p] \in InCreate /\ x = First(p)
      BY <2>1, <2>3 DEF InCreate
    <3>. QED BY <2>1, <2>2, <2>3, <3>1, LocalProtocol DEF Complete, T
  <2>4. CASE created[p]
    <3>1. HandlesOf(p) /\ Creating(p)
      BY <2>1 DEF KInv, Handles, Creating, InCreate
    <3>2. mem[shm] = Blank /\ seg[p] = shm /\ shm # 0 /\ set[p] = sem /\ sem # 0 /\ Running = {p}
      BY <2>1, <2>4, <3>1, CreatorAlone DEF HandlesOf
    <3>3. shm \in Ids
      BY SegmentIds DEF KInv, Typed, Segments
    <3>4. pc'[p] = x /\ Running' = {p}
      <4> HIDE DEF x
      <4>1. Typed
        BY DEF KInv
      <4>2. /\ pc'[p] = x /\ p \in Running' /\ Running' \subseteq Running \cup {p}
        BY <2>1, <2>2, <4>1, Moves
      <4>. QED BY <3>2, <4>2
    <3>5. T' = [Blank EXCEPT !.semaphore = sem]
      BY <2>1, <2>4, <3>2, <3>3 DEF T, KInv, Typed
    <3>6. T'.queue = [k \in Keys |-> <<>>] /\ T'.semaphore = sem
      BY <3>5 DEF Blank
    <3>7. Complete'
      BY <2>1, <3>2, <3>6 DEF Complete, T
    <3>8. Stage(1)'
      BY <3>6 DEF Stage, Queued, KeyAt, FlagAt, Keys
    <3>9. \A q \in Procs : q # p => pc'[q] \in Over
      BY <3>4 DEF Running, Over
    <3>10. \A w \in Writers : WriterAt(w, 1)'
      <4>. SUFFICES ASSUME NEW w \in Writers PROVE WriterAt(w, 1)'
        OBVIOUS
      <4>1. pc'[w] \in Over \cup {"storeid"}
        BY <2>4, <3>4, <3>9 DEF Procs
      <4>. QED BY <4>1 DEF WriterAt, Over, InCreate
    <3>11. \A r \in Readers : ReaderAt(r, 1)'
      <4>. SUFFICES ASSUME NEW r \in Readers PROVE ReaderAt(r, 1)'
        OBVIOUS
      <4>1. pc'[r] \in Over \cup {"storeid"}
        BY <2>4, <3>4, <3>9 DEF Procs
      <4>. QED BY <4>1 DEF ReaderAt, Over, InCreate
    <3>12. Exchange(1)'
      BY <3>8, <3>10, <3>11 DEF Exchange
    <3>13. OneEach' /\ Heard'
      BY <2>1 DEF Protocol, OneEach, Heard
    <3>. QED BY <3>7, <3>12, <3>13 DEF Protocol
  <2>. QED BY <2>3, <2>4
<1>4. CASE StoreShmid(p) \/ Reset(p)
  <2>1. PICK x \in {"reset", First(p)} :
          pc[p] \in {"storeid", "reset"} /\ pc' = [pc EXCEPT ![p] = x]
    BY <1>4 DEF StoreShmid, Reset, CreateStep, At
  <2>2. UNCHANGED <<shm, sem, ptr, got, served>> /\ pc[p] \in InCreate
    BY <1>4, <2>1 DEF StoreShmid, Reset, CreateStep, kernel, InCreate
  <2>3. x \in Places /\ x \in InCreate \cup {First(p)}
    BY DEF Places, InCreate, Using, First
  <2>4. shm \in Ids
    BY SegmentIds DEF KInv, Typed, Segments
  <2>5. /\ mem'[shm].semaphore = mem[shm].semaphore
        /\ mem'[shm].queue = mem[shm].queue /\ mem'[shm].val = mem[shm].val
    <3>1. mem \in [Ids -> Segment]
      BY DEF KInv, Typed
    <3>2. CASE StoreShmid(p)
      <4>1. mem' = [mem EXCEPT ![seg[p]].shmid = seg[p]]
        BY <3>2 DEF StoreShmid
      <4>. QED BY <2>4, <3>1, <4>1 DEF Segment
    <3>3. CASE Reset(p)
      BY <3>3, ResetKeeps
    <3>. QED BY <1>4, <3>2, <3>3
  <2>6. Complete' = Complete /\ T'.queue = T.queue /\ T'.val = T.val
    BY <2>2, <2>5 DEF Complete, T
  <2>. QED BY <2>1, <2>2, <2>3, <2>6, LocalProtocol
<1>. QED BY <1>1, <1>2, <1>3, <1>4 DEF Create

LEMMA DestroyProtocol ==
  ASSUME KInv, KInv', Protocol, NEW p \in Procs, RmSem(p) \/ RmShm(p)
  PROVE  Protocol'
<1>1. /\ pc[p] \in {"rmsem", "rmshm"} /\ p \in Running /\ Running = {p}
      /\ seg[p] = shm /\ shm # 0
      /\ Locks(p) <=> Complete
  <2>1. pc[p] \in {"rmsem", "rmshm"}
    BY DEF RmSem, RmShm, At
  <2>. QED BY <2>1, DestroyerAlone
<1>2. PICK x \in {"rmshm", "done"} : pc' = [pc EXCEPT ![p] = x]
  BY DEF RmSem, RmShm, At
<1>3. pc'[p] = x /\ Running' \subseteq {p}
  <2>1. x \in Places
    BY DEF Places, Over
  <2>. QED BY <1>1, <1>2, <2>1, Moves DEF KInv
<1>4. CASE RmShm(p)
  <2>1. ~Complete'
    BY <1>4, RmShmKeeps DEF Complete
  <2>. QED BY <1>3, <1>4, <2>1, AloneProtocol DEF RmShm
<1>5. CASE RmSem(p) /\ Complete
  <2>1. sem' = 0
    BY <1>1, <1>5 DEF RmSem
  <2>2. ~Complete'
    BY <2>1 DEF Complete
  <2>. QED BY <1>3, <1>5, <2>2, AloneProtocol DEF RmSem
<1>6. CASE RmSem(p) /\ ~Complete
  <2>1. pc' = [pc EXCEPT ![p] = "done"] /\ UNCHANGED <<shm, sem, mem, ptr, got, served>>
    BY <1>1, <1>6 DEF RmSem, At
  <2>2. "done" \in Places /\ "done" \in Over
    BY DEF Places, Over
  <2>. QED BY <2>1, <2>2, LocalProtocol DEF Complete, T
<1>. QED BY <1>4, <1>5, <1>6

LEMMA StartProtocol ==
  ASSUME KInv, Protocol, ~AnyOrder, NEW p \in Procs, Start(p)
  PROVE  Protocol'
<1>1. /\ pc[p] = "off" /\ pc' = [pc EXCEPT ![p] = "shmget"] /\ Intended(p)
      /\ served' = served \cup {p}
      /\ UNCHANGED <<shm, sem, mem, ptr, got>>
  BY DEF Start, At, kernel
<1>2. "shmget" \in Places
  BY DEF Places, InCreate
<1>3. /\ pc'[p] = "shmget" /\ \A q \in Procs : q # p => pc'[q] = pc[q]
      /\ \A q \in Procs : q # p => (q \in Running' <=> q \in Running)
      /\ Running' \subseteq Procs
  BY <1>1, <1>2, Moves DEF KInv, Running
<1>4. OneEach' /\ Heard' /\ Complete' = Complete /\ T' = T
  BY <1>1 DEF Protocol, OneEach, Heard, Complete, T, Intended
<1>5. ASSUME NEW n \in 1..7, Exchange(n) PROVE Exchange(n)'
  <2>1. Stage(n)'
    BY <1>4, <1>5 DEF Exchange, Stage, Queued
  <2>2. \A w \in Writers : WriterAt(w, n)'
    <3>. SUFFICES ASSUME NEW w \in Writers PROVE WriterAt(w, n)'
      OBVIOUS
    <3>1. w \in Procs /\ WriterAt(w, n) /\ ptr'[w] = ptr[w]
      BY <1>1, <1>5 DEF Procs, Exchange
    <3>2. CASE w # p
      BY <1>3, <1>4, <3>1, <3>2 DEF WriterAt
    <3>3. CASE w = p
      <4>1. n = 1
        BY <1>1, <1>5, <3>3 DEF Intended, Exchange
      <4>. QED BY <1>3, <3>3, <4>1 DEF WriterAt, InCreate
    <3>. QED BY <3>2, <3>3
  <2>3. \A r \in Readers : ReaderAt(r, n)'
    <3>. SUFFICES ASSUME NEW r \in Readers PROVE ReaderAt(r, n)'
      OBVIOUS
    <3>1. r \in Procs /\ ReaderAt(r, n) /\ ptr'[r] = ptr[r]
      BY <1>1, <1>5 DEF Procs, Exchange
    <3>2. CASE r # p
      BY <1>3, <1>4, <3>1, <3>2 DEF ReaderAt
    <3>3. CASE r = p
      <4>1. n <= 3
        BY <1>1, <1>5, <3>3 DEF Intended, Exchange
      <4>. QED BY <1>3, <3>3, <4>1 DEF ReaderAt, InCreate
    <3>. QED BY <3>2, <3>3
  <2>4. served' \cap Writers = {} => served \cap Writers = {}
    BY <1>1
  <2>5. served' \cap Readers = {} => served \cap Readers = {}
    BY <1>1
  <2>. QED BY <1>5, <2>1, <2>2, <2>3, <2>4, <2>5 DEF Exchange
<1>6. ASSUME Useless PROVE Useless'
  <2>1. ptr'[p] = 0
    BY <1>1 DEF KInv, Roles
  <2>. QED BY <1>1, <1>3, <1>6, <2>1 DEF Useless
<1>. QED BY <1>4, <1>5, <1>6 DEF Protocol

LEMMA TableProtocol ==
  ASSUME KInv, Tally, Protocol, NEW p \in Procs,
         (p \in Writers /\ Write(p)) \/ (p \in Readers /\ Read(p))
  PROVE  Protocol'
<1>1. Complete' = Complete
  BY TableSteps
<1>2. OneEach'
  <2>1. served' = served
    BY DEF Write, Read, Insert, Remove, Poll, Look, Fetch, UseStep
  <2>. QED BY <2>1 DEF Protocol, OneEach
<1>3. got \in [Procs -> Words \cup {"NULL"}] /\ Writers \cap Readers = {}
  BY Kinds DEF KInv, Typed
<1>4. CASE ~Complete
  <2>1. Useless' /\ got' = got
    BY <1>1, <1>4, UselessStays DEF Protocol
  <2>. QED BY <1>1, <1>2, <1>4, <2>1 DEF Protocol, Heard
<1>5. CASE Complete
  <2>1. PICK n \in 1..7 : Exchange(n)
    BY <1>5 DEF Protocol
  <2>2. CASE p \in Writers /\ Write(p)
    <3>1. (\E m \in 1..7 : Exchange(m)') /\ (got' = got \/ got' = [got EXCEPT ![p] = "Returned!"])
      BY <1>5, <2>1, <2>2, WriteExchanges DEF Protocol
    <3>2. Heard'
      BY <1>3, <2>2, <3>1 DEF Protocol, Heard
    <3>. QED BY <1>1, <1>2, <1>5, <3>1, <3>2 DEF Protocol
  <2>3. CASE p \in Readers /\ Read(p)
    <3>1. (\E m \in 1..7 : Exchange(m)') /\ (got' = got \/ got' = [got EXCEPT ![p] = "message"])
      BY <1>5, <2>1, <2>3, ReadExchanges DEF Protocol
    <3>2. Heard'
      BY <1>3, <2>3, <3>1 DEF Protocol, Heard
    <3>. QED BY <1>1, <1>2, <1>5, <3>1, <3>2 DEF Protocol
  <2>. QED BY <2>2, <2>3
<1>. QED BY <1>4, <1>5

-----------------------------------------------------------------------------
(* Delivery                                                                *)

LEMMA InitProtocol == ASSUME Init PROVE Protocol
<1>1. Running = {} /\ ~Complete
  BY DEF Init, Running, Complete
<1>2. OneEach /\ Heard
  BY DEF Init, OneEach, Heard
<1>. QED BY <1>1, <1>2 DEF Protocol, Useless

LEMMA NextProtocol ==
  ASSUME KInv, Tally, Protocol, ~AnyOrder, [Next]_vars PROVE KInv' /\ Tally' /\ Protocol'
<1>1. KInv' /\ Tally'
  BY NextKeeps, NextTallies
<1>. SUFFICES Protocol'
  BY <1>1
<1>2. CASE UNCHANGED vars
  <2>1. /\ Complete' = Complete /\ T' = T /\ Running' = Running
        /\ UNCHANGED <<pc, ptr, got, served>>
    BY <1>2 DEF vars, kernel, handles, Complete, T, Running
  <2>2. OneEach' /\ Heard' /\ (Useless => Useless')
    BY <2>1 DEF Protocol, OneEach, Heard, Useless
  <2>3. ASSUME NEW n \in 1..7, Exchange(n) PROVE Exchange(n)'
    <3>1. Stage(n)'
      BY <2>1, <2>3 DEF Exchange, Stage, Queued
    <3>2. \A w \in Writers : WriterAt(w, n)'
      BY <2>1, <2>3 DEF Exchange, WriterAt
    <3>3. \A r \in Readers : ReaderAt(r, n)'
      BY <2>1, <2>3 DEF Exchange, ReaderAt
    <3>. QED BY <2>1, <2>3, <3>1, <3>2, <3>3 DEF Exchange
  <2>. QED BY <2>1, <2>2, <2>3 DEF Protocol
<1>3. ASSUME NEW p \in Procs, Start(p) \/ Run(p) \/ Kill(p)
      PROVE  Protocol'
  <2>1. CASE Start(p)
    BY <2>1, StartProtocol
  <2>2. CASE Kill(p)
    <3>1. pc' = [pc EXCEPT ![p] = "killed"] /\ UNCHANGED <<shm, sem, mem, ptr, got, served>>
      BY <2>2 DEF Kill, kernel
    <3>2. "killed" \in Places /\ "killed" \in Over
      BY DEF Places, Over
    <3>. QED BY <3>1, <3>2, LocalProtocol DEF Complete, T
  <2>3. CASE Create(p)
    BY <1>1, <2>3, CreateProtocol
  <2>4. CASE (p \in Writers /\ Write(p)) \/ (p \in Readers /\ Read(p))
    BY <2>4, TableProtocol
  <2>5. CASE RmSem(p) \/ RmShm(p)
    BY <1>1, <2>5, DestroyProtocol
  <2>. QED BY <1>3, <2>1, <2>2, <2>3, <2>4, <2>5 DEF Run
<1>. QED BY <1>2, <1>3 DEF Next

(* Programs run as intended never find anything but the message, or the    *)
(* answer to it, of the one at the other end of the table.                 *)
THEOREM MessagesAreDelivered == Spec => []Delivered
<1>1. CASE AnyOrder
  <2>1. Delivered
    BY <1>1 DEF Delivered
  <2>. QED BY <2>1, PTL
<1>2. CASE ~AnyOrder
  <2>1. Init => KInv /\ Tally /\ Protocol
    BY InitKeeps, InitTally, InitProtocol
  <2>2. KInv /\ Tally /\ Protocol /\ [Next]_vars => KInv' /\ Tally' /\ Protocol'
    BY <1>2, NextProtocol
  <2>3. KInv /\ Tally /\ Protocol => Delivered
    BY DEF Protocol, Heard, Delivered
  <2>. QED BY <2>1, <2>2, <2>3, PTL DEF Spec
<1>. QED BY <1>1, <1>2
=============================================================================
