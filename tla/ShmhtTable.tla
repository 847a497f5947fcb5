----------------------------- MODULE ShmhtTable -----------------------------
(***************************************************************************)
(* The hash table that shmht.c keeps in a shared memory segment: three     *)
(* arrays of N elements.  An entry is either primary (slot Index[k]) or in *)
(* the collision area, linked by next from the primary entry of its index; *)
(* each used entry owns a bucket that holds the value.  Nothing is erased  *)
(* when something is removed: only the used marks change, and what is left *)
(* in an unused entry stays readable.  Every operation here runs between   *)
(* write_lock and write_unlock (search and count between read_lock and     *)
(* read_unlock), so it is one step.  A value stands for bytes of a length: *)
(* it is identified by its length.                                         *)
(***************************************************************************)
EXTENDS Integers, Sequences, FiniteSets

CONSTANTS Keys, NoKey,
          TooLong,       \* the keys longer than MAX_KEY_SIZE
          Values,        \* the values, by their lengths
          MaxSize,       \* registry_max_size
          N,             \* tablelength
          Index,         \* indexFor(N, hash(h, k)) of each key
          MaxClock       \* bound on gettimeofday's seconds

ASSUME TableAssumption ==
  /\ N \in Nat \ {0}
  /\ NoKey \notin Keys
  /\ TooLong \subseteq Keys
  /\ Values \subseteq Nat
  /\ MaxSize \in Nat
  /\ Index \in [Keys \cup {NoKey} -> 0..N-1]
  /\ MaxClock \in Nat

VARIABLES entries, buckets, entrycount, clock, ret

vars == <<entries, buckets, entrycount, clock, ret>>

NIL == -1
EINVAL == -22
Primary == 0..N-1       \* h->entrypoint[i] is slot i,
Collision == N..2*N-1   \* h->collisionentries[j] is slot N + j
Slots == 0..2*N-1

EmptyEntry == [used |-> FALSE, key |-> NoKey, next |-> 0, bucket |-> 0,
               position |-> 0, size |-> 0, sec |-> 0]

\* create_shmht with created = 1: the segment is bzero'ed
Init ==
  /\ entries = [s \in Slots |-> EmptyEntry]
  /\ buckets = [b \in Primary |-> [used |-> FALSE, val |-> 0]]
  /\ entrycount = 0
  /\ clock = 0
  /\ ret = <<"create">>

Tick == clock < MaxClock /\ clock' = clock + 1
        /\ UNCHANGED <<entries, buckets, entrycount, ret>>

-------------------------------------------------------------------------------
(* Walking a chain *)

\* the slot reached from slot s after n links, NIL past the end
Follow(e, s) ==
  IF s = NIL THEN NIL ELSE IF e[s].next = NIL THEN NIL ELSE N + e[s].next

Walk(e, s) ==
  LET walk[n \in 0..N+1] == IF n = 0 THEN s ELSE Follow(e, walk[n-1])
  IN walk

\* the steps of the loop of search and remove: it stops at an unused entry
Visits(e, k) ==
  LET w == Walk(e, Index[k])
  IN {n \in 0..N+1 : \A m \in 0..n : w[m] # NIL /\ e[w[m]].used}

Matches(e, k) ==
  LET w == Walk(e, Index[k])
  IN {n \in Visits(e, k) : e[w[n]].key = k}

\* Mutated form: the loop goes on past the first match
LastMatch(e, k) == CHOOSE n \in Matches(e, k) : \A m \in Matches(e, k) : n >= m

\* the first entry of k on its chain, and the one the loop saw before it
FirstMatch(e, k) == CHOOSE n \in Matches(e, k) : \A m \in Matches(e, k) : n <= m
Found(e, k) == Walk(e, Index[k])[FirstMatch(e, k)]
Previous(e, k) == Walk(e, Index[k])[FirstMatch(e, k) - 1]

\* the last entry of the chain of index i: while (aux->next != -1)
LastOf(e, i) ==
  LET w == Walk(e, i)
  IN w[CHOOSE n \in 0..N+1 : w[n] # NIL /\ Follow(e, w[n]) = NIL]

Lowest(S) == CHOOSE i \in S : \A j \in S : i <= j
FreeBuckets == {b \in Primary : ~buckets[b].used}
FreeCollisions == {s \in Collision : ~entries[s].used}

-------------------------------------------------------------------------------
(* Operations *)

NewEntry(s, k, v, b) ==
  [used |-> TRUE, key |-> k, next |-> NIL, bucket |-> b,
   position |-> IF s \in Primary THEN s ELSE s - N, size |-> v, sec |-> clock]

\* Mutated form: a colliding entry is linked in front of the others
LinkFirst(k, v, b) ==
  LET i == Index[k]
      s == Lowest(FreeCollisions)
  IN IF ~entries[i].used
     THEN [entries EXCEPT ![i] = NewEntry(i, k, v, b)]
     ELSE [entries EXCEPT ![s] = [NewEntry(s, k, v, b) EXCEPT !.next = entries[i].next],
                          ![i].next = s - N]

\* the entries after a new one is put in its primary slot, or else in the
\* first free collision slot and at the end of its chain
Link(k, v, b) ==
  LET i == Index[k]
      s == Lowest(FreeCollisions)
  IN IF ~entries[i].used
     THEN [entries EXCEPT ![i] = NewEntry(i, k, v, b)]
     ELSE [entries EXCEPT ![s] = NewEntry(s, k, v, b),
                          ![LastOf(entries, i)].next = s - N]

\* shmht_insert, all tests passed
Insert(k, v) ==
  /\ v <= MaxSize /\ k \notin TooLong
  /\ entrycount < N /\ FreeBuckets # {}
  /\ LET b == Lowest(FreeBuckets)
     IN /\ buckets' = [buckets EXCEPT ![b] = [used |-> TRUE, val |-> v]]
        /\ entries' = Link(k, v, b)
  /\ entrycount' = entrycount + 1
  /\ ret' = <<"insert", 1>>
  /\ UNCHANGED clock

\* shmht_insert returning -EINVAL (too large) or -1 (full)
InsertRefused(k, v) ==
  /\ IF v > MaxSize \/ k \in TooLong
     THEN ret' = <<"insert", EINVAL>>
     ELSE /\ entrycount >= N \/ FreeBuckets = {}
          /\ ret' = <<"insert", -1>>
  /\ UNCHANGED <<entries, buckets, entrycount, clock>>

\* shmht_search: the address of the bucket and the size kept in the entry
Search(k) ==
  /\ ret' = IF Matches(entries, k) = {} THEN <<"search">>
            ELSE LET e == entries[Found(entries, k)]
                 IN <<"search", buckets[e.bucket].val, e.size>>
  /\ UNCHANGED <<entries, buckets, entrycount, clock>>

\* Mutated forms of Unlink: the copied collision entry stays used; it is
\* copied with its position; the previous entry keeps its link
UnlinkLeaking(e, k) ==
  LET s == Found(e, k)
  IN IF FirstMatch(e, k) > 0
     THEN [e EXCEPT ![Previous(e, k)].next = e[s].next, ![s].used = FALSE]
     ELSE IF e[s].next = NIL THEN [e EXCEPT ![s].used = FALSE]
     ELSE [e EXCEPT ![s] = [e[N + e[s].next] EXCEPT !.position = e[s].position]]

UnlinkWrongPosition(e, k) ==
  LET s == Found(e, k)
  IN IF FirstMatch(e, k) > 0
     THEN [e EXCEPT ![Previous(e, k)].next = e[s].next, ![s].used = FALSE]
     ELSE IF e[s].next = NIL THEN [e EXCEPT ![s].used = FALSE]
     ELSE [e EXCEPT ![s] = e[N + e[s].next], ![N + e[s].next].used = FALSE]

UnlinkKeepsLink(e, k) ==
  LET s == Found(e, k)
  IN IF FirstMatch(e, k) > 0
     THEN [e EXCEPT ![s].used = FALSE]
     ELSE IF e[s].next = NIL THEN [e EXCEPT ![s].used = FALSE]
     ELSE [e EXCEPT ![s] = [e[N + e[s].next] EXCEPT !.position = e[s].position],
                    ![N + e[s].next].used = FALSE]

\* the entries without the first entry of k: a collision entry is unlinked;
\* a primary one is overwritten with the first of its chain, if any
Unlink(e, k) ==
  LET s == Found(e, k)
  IN IF FirstMatch(e, k) > 0
     THEN [e EXCEPT ![Previous(e, k)].next = e[s].next, ![s].used = FALSE]
     ELSE IF e[s].next = NIL THEN [e EXCEPT ![s].used = FALSE]
     ELSE [e EXCEPT ![s] = [e[N + e[s].next] EXCEPT !.position = e[s].position],
                    ![N + e[s].next].used = FALSE]

\* what __shmht_remove__ changes, as one record
Segment == [entries |-> entries, buckets |-> buckets, entrycount |-> entrycount]

\* Mutated forms of RemoveFrom: the bucket is kept; the count always drops
RemoveKeepsBucket(h, k) ==
  IF Matches(h.entries, k) = {} THEN h
  ELSE [h EXCEPT !.entries = Unlink(h.entries, k), !.entrycount = @ - 1]

RemoveAlwaysCounts(h, k) ==
  IF Matches(h.entries, k) = {} THEN [h EXCEPT !.entrycount = @ - 1]
  ELSE [entries |-> Unlink(h.entries, k),
        buckets |-> [h.buckets EXCEPT ![h.entries[Found(h.entries, k)].bucket].used = FALSE],
        entrycount |-> h.entrycount - 1]

\* __shmht_remove__
RemoveFrom(h, k) ==
  IF Matches(h.entries, k) = {} THEN h
  ELSE [entries |-> Unlink(h.entries, k),
        buckets |-> [h.buckets EXCEPT ![h.entries[Found(h.entries, k)].bucket].used = FALSE],
        entrycount |-> h.entrycount - 1]

\* shmht_remove
Remove(k) ==
  /\ ret' = <<"remove", IF Matches(entries, k) = {} THEN 0 ELSE 1>>
  /\ LET h == RemoveFrom(Segment, k)
     IN entries' = h.entries /\ buckets' = h.buckets /\ entrycount' = h.entrycount
  /\ UNCHANGED clock

\* shmht_count
Count ==
  /\ ret' = <<"count", entrycount>>
  /\ UNCHANGED <<entries, buckets, entrycount, clock>>

\* Mutated form: flush clears the marks and forgets the counter
FlushKeepsCount ==
  /\ buckets' = [b \in Primary |-> [buckets[b] EXCEPT !.used = FALSE]]
  /\ entries' = [s \in Slots |-> [entries[s] EXCEPT !.used = FALSE]]
  /\ ret' = <<"flush", 0>>
  /\ UNCHANGED <<entrycount, clock>>

\* shmht_flush
Flush ==
  /\ buckets' = [b \in Primary |-> [buckets[b] EXCEPT !.used = FALSE]]
  /\ entries' = [s \in Slots |-> [entries[s] EXCEPT !.used = FALSE]]
  /\ entrycount' = 0
  /\ ret' = <<"flush", 0>>
  /\ UNCHANGED clock

Next ==
  \/ Tick
  \/ \E k \in Keys : Search(k) \/ Remove(k)
  \/ \E k \in Keys, v \in Values : Insert(k, v) \/ InsertRefused(k, v)
  \/ Count \/ Flush

Spec == Init /\ [][Next]_vars

-------------------------------------------------------------------------------
(* Properties *)

UsedSlots == {s \in Slots : entries[s].used}

Entry == [used : BOOLEAN, key : Keys \cup {NoKey}, next : NIL..N-1,
          bucket : 0..N-1, position : 0..N-1, size : Nat, sec : Nat]

(* Every index kept in the segment stays inside its array, and the counter *)
(* inside the table, through any sequence of calls.                        *)
TypeOK ==
  /\ entries \in [Slots -> Entry]
  /\ buckets \in [Primary -> [used : BOOLEAN, val : Nat]]
  /\ entrycount \in 0..N
  /\ clock \in Nat

(* No bucket is leaked and none is shared: used entries and used buckets   *)
(* correspond one to one, so no insert overwrites a value still stored and *)
(* what shmht_search asserts of the bucket it found holds.                 *)
BucketsOwned ==
  /\ \A s \in UsedSlots : buckets[entries[s].bucket].used
  /\ \A s, t \in UsedSlots : entries[s].bucket = entries[t].bucket => s = t
  /\ \A b \in Primary : buckets[b].used => \E s \in UsedSlots : entries[s].bucket = b

(* The counter that decides whether the table is full is the number of     *)
(* used entries.                                                           *)
CountExact == entrycount = Cardinality(UsedSlots)

(* The two asserts of shmht_insert that can never fail as written: while   *)
(* the counter lets an insert in, it finds a bucket, and a collision slot  *)
(* if it needs one.                                                        *)
RoomForInsert ==
  entrycount < N => FreeBuckets # {} /\ FreeCollisions # {}

(* No used entry is lost or reachable twice: the chains of the used        *)
(* primary entries end, visit used entries only, pass through every used   *)
(* collision slot exactly once, and lead to keys of their own index.       *)
ChainsPartitionEntries ==
  LET heads == {i \in Primary : entries[i].used}
      steps == {x \in heads \X (0..N+1) : Walk(entries, x[1])[x[2]] # NIL}
      slot(x) == Walk(entries, x[1])[x[2]]
  IN /\ \A i \in heads : Walk(entries, i)[N] = NIL
     /\ {slot(x) : x \in steps} = UsedSlots
     /\ \A x, y \in steps : slot(x) = slot(y) => x = y
     /\ \A x \in steps : Index[entries[slot(x)].key] = x[1]

(* An entry knows its own place, also after it was copied from the         *)
(* collision area into a primary slot: shmht_remove_older_entries goes     *)
(* back to entries by this field.                                          *)
PositionsRight ==
  \A s \in UsedSlots : entries[s].position = IF s \in Primary THEN s ELSE s - N

(* The queue of a key, as it lies in the table                             *)

\* the keys and values along the chain of index i
Chain(i) ==
  LET w == Walk(entries, i)
  IN [n \in 0..N |-> IF entries[i].used /\ w[n] # NIL
                     THEN <<entries[w[n]].key, buckets[entries[w[n]].bucket].val>>
                     ELSE <<NoKey, 0>>]

\* those of key k among the first n of a chain
Under(chain, k) ==
  LET first[n \in 0..N+1] ==
        IF n = 0 THEN <<>>
        ELSE IF chain[n-1][1] = k THEN Append(first[n-1], chain[n-1][2]) ELSE first[n-1]
  IN first

Queues == [k \in Keys |-> Under(Chain(Index[k]), k)[N+1]]

Fits(k, v) == v <= MaxSize /\ k \notin TooLong

Fifo == INSTANCE KeyFifo WITH
          Capacity <- N, Acceptable <- Fits, queue <- Queues

(* The layout implements a queue of values per key: whatever is inserted   *)
(* and removed around it, a search shows the oldest value still stored     *)
(* under the key, with its own length.                                     *)
ImplementsKeyFifo == Fifo!Spec
===============================================================================
