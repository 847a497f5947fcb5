------------------------------ MODULE ShmhtCrash ------------------------------
(***************************************************************************)
(* The table when a process is killed inside insert, remove or flush.      *)
(* The calls that change the segment are taken apart into their stores, in *)
(* the order the code makes them (it is built without optimisation).  A    *)
(* kill drops the stores that are left, and the kernel then releases the   *)
(* lock (SEM_UNDO, see ShmhtSem): the next call meets a table that is half *)
(* changed.  Nobody sees a table between two stores in any other way, so a *)
(* call is one step here too, or its first n stores when it is killed.     *)
(* Nothing in shmht.c detects or repairs such a table: this module says    *)
(* what later calls can still rely on, and that a flush puts it right.     *)
(***************************************************************************)
EXTENDS ShmhtTable

CONSTANT Word   \* entrycount is unsigned: 2^32 in the code

ASSUME WordAssumption == Word \in Nat /\ Word > 2 * N

VARIABLE killed   \* history: the last call killed since a whole flush

-------------------------------------------------------------------------------
(* Stores *)

InEntry(s, f, x)  == [in |-> "entries", at |-> s, field |-> f, val |-> x]
InBucket(b, f, x) == [in |-> "buckets", at |-> b, field |-> f, val |-> x]
SetCount(n)       == [in |-> "entrycount", val |-> n]

Apply(h, store) ==
  IF store.in = "entrycount" THEN [h EXCEPT !.entrycount = store.val]
  ELSE [h EXCEPT ![store.in][store.at][store.field] = store.val]

\* what the stores make of the segment, one after the other
After(h, stores) ==
  LET made[n \in 0..Len(stores)] ==
        IF n = 0 THEN h ELSE Apply(made[n-1], stores[n])
  IN made

ApplyAll(h, stores) == After(h, stores)[Len(stores)]

\* bytes, size and hash of a key: until the last of them is stored the entry
\* matches neither its old key nor the new one, unless they are the same
KeyStores(s, k) ==
  <<InEntry(s, "key", IF entries[s].key = k THEN k ELSE NoKey), InEntry(s, "key", k)>>

\* colision_index of a full area is -1, the place in front of it
FreeCollisionIndex == IF FreeCollisions = {} THEN -1 ELSE Lowest(FreeCollisions) - N

PrimaryStores(i, k, v, b) ==
  <<InEntry(i, "used", TRUE)>> \o KeyStores(i, k)
  \o <<InEntry(i, "next", NIL), InEntry(i, "bucket", b), InEntry(i, "position", i),
       InEntry(i, "size", v), InEntry(i, "sec", clock)>>

CollisionStores(c, k, v, b) ==
  <<InEntry(N + c, "used", TRUE)>> \o KeyStores(N + c, k)
  \o <<InEntry(N + c, "next", NIL), InEntry(N + c, "position", c),
       InEntry(N + c, "bucket", b), InEntry(N + c, "size", v), InEntry(N + c, "sec", clock)>>

\* Mutated form: the new entry is linked before it is filled
LinkStoresEarly(i, k, v, b) ==
  LET c == FreeCollisionIndex
  IN <<InEntry(LastOf(entries, i), "next", c)>> \o CollisionStores(c, k, v, b)

\* the colliding entry is filled, then linked to the end of the chain
LinkStores(i, k, v, b) ==
  LET c    == FreeCollisionIndex
      fill == CollisionStores(c, k, v, b)
      last == LastOf(ApplyAll(Segment, fill).entries, i)
  IN fill \o <<InEntry(last, "next", c), InEntry(N + c, "next", NIL)>>

\* Mutated forms: the count goes up first; a colliding entry is not linked
InsertStoresCountFirst(k, v) ==
  LET i == Index[k]
      b == Lowest(FreeBuckets)
  IN <<SetCount((entrycount + 1) % Word),
       InBucket(b, "used", TRUE), InBucket(b, "val", v)>>
     \o (IF entries[i].used THEN LinkStores(i, k, v, b) ELSE PrimaryStores(i, k, v, b))

InsertStoresUnlinked(k, v) ==
  LET i == Index[k]
      b == Lowest(FreeBuckets)
  IN <<InBucket(b, "used", TRUE), InBucket(b, "val", v)>>
     \o (IF entries[i].used THEN CollisionStores(FreeCollisionIndex, k, v, b)
         ELSE PrimaryStores(i, k, v, b))
     \o <<SetCount((entrycount + 1) % Word)>>

InsertStores(k, v) ==
  LET i == Index[k]
      b == Lowest(FreeBuckets)
  IN <<InBucket(b, "used", TRUE), InBucket(b, "val", v)>>
     \o (IF entries[i].used THEN LinkStores(i, k, v, b) ELSE PrimaryStores(i, k, v, b))
     \o <<SetCount((entrycount + 1) % Word)>>

\* (*index_Entry) = (*next_Entry), field after field, then the two repairs
CopyStores(s, t) ==
  LET e == entries[t]
  IN <<InEntry(s, "used", e.used)>> \o KeyStores(s, e.key)
     \o <<InEntry(s, "next", e.next), InEntry(s, "bucket", e.bucket),
          InEntry(s, "size", e.size), InEntry(s, "position", e.position),
          InEntry(s, "sec", e.sec),
          InEntry(t, "used", FALSE), InEntry(s, "position", entries[s].position)>>

\* __shmht_remove__ of a key that is there
RemoveStores(k) ==
  LET s == Found(entries, k)
      e == entries[s]
  IN <<InBucket(e.bucket, "used", FALSE), SetCount((entrycount + Word - 1) % Word)>>
     \o (IF FirstMatch(entries, k) > 0
         THEN <<InEntry(Previous(entries, k), "next", e.next), InEntry(s, "used", FALSE)>>
         ELSE IF e.next = NIL THEN <<InEntry(s, "used", FALSE)>>
         ELSE CopyStores(s, N + e.next))

\* Mutated form: the collision area is not cleared
FlushStoresPrimary ==
  [n \in 1..N |-> InBucket(n - 1, "used", FALSE)]
  \o [n \in 1..N |-> InEntry(n - 1, "used", FALSE)]
  \o <<SetCount(0)>>

FlushStores ==
  [n \in 1..N |-> InBucket(n - 1, "used", FALSE)]
  \o [n \in 1..2*N |-> InEntry(n - 1, "used", FALSE)]
  \o <<SetCount(0)>>

-------------------------------------------------------------------------------
(* Calls *)

Becomes(h) == entries' = h.entries /\ buckets' = h.buckets /\ entrycount' = h.entrycount

\* the call makes all its stores and returns
Runs(call, stores, result) ==
  /\ Becomes(ApplyAll(Segment, stores))
  /\ ret' = result
  /\ killed' = IF call = "flush" THEN "none" ELSE killed
  /\ UNCHANGED clock

\* the process is killed with stores made and stores left to make.  Bound:
\* one insert or remove between two whole flushes, and any number of flushes
Dies(call, stores) ==
  /\ killed = "none" \/ call = "flush"
  /\ \E n \in 1..Len(stores)-1 : Becomes(After(Segment, stores)[n])
  /\ ret' = <<"killed">>
  /\ killed' = call
  /\ UNCHANGED clock

Makes(call, stores, result) == Runs(call, stores, result) \/ Dies(call, stores)

CrashInsert(k, v) ==
  /\ Fits(k, v) /\ entrycount < N /\ FreeBuckets # {}
  /\ Makes("insert", InsertStores(k, v), <<"insert", 1>>)

CrashRemove(k) ==
  /\ Matches(entries, k) # {}
  /\ Makes("remove", RemoveStores(k), <<"remove", 1>>)

CrashFlush == Makes("flush", FlushStores, <<"flush", 0>>)

\* the calls that store nothing (time stands still: only bulk removal reads it)
Quiet ==
  /\ \/ \E k \in Keys : Search(k)
     \/ \E k \in Keys : Matches(entries, k) = {} /\ Remove(k)
     \/ \E k \in Keys, v \in Values : InsertRefused(k, v)
     \/ Count
  /\ UNCHANGED killed

CrashInit == Init /\ killed = "none"

CrashNext ==
  \/ \E k \in Keys, v \in Values : CrashInsert(k, v)
  \/ \E k \in Keys : CrashRemove(k)
  \/ CrashFlush \/ Quiet

CrashSpec == CrashInit /\ [][CrashNext]_<<vars, killed>>

-------------------------------------------------------------------------------
(* Properties *)

(* As long as no call was killed, the stores of each call add up to the    *)
(* one step ShmhtTable takes for it, with its layout and its result: what  *)
(* is checked and proved of that module is true of the store-by-store code.*)
StoresMakeTheCall == [][killed = "none" /\ killed' = "none" => Next]_vars

(* Whatever the calls killed since left behind, a flush that runs to its   *)
(* end makes the table sound again, and it stays sound until a call is     *)
(* killed: chains, buckets, counter and positions.                         *)
SoundUnlessKilled ==
  killed = "none" => BucketsOwned /\ CountExact /\ ChainsPartitionEntries /\ PositionsRight

(* One killed call cannot make a later one loop for ever with the lock     *)
(* held: search and remove come to an unused entry or to the end, and an   *)
(* insert that has filled its collision entry finds the end of the chain   *)
(* it goes to, along links of unused entries too.                          *)
SearchEnds(i) ==
  \E n \in 0..N+1 : LET s == Walk(entries, i)[n] IN s = NIL \/ ~entries[s].used

InsertEnds(i) ==
  Walk([entries EXCEPT ![N + FreeCollisionIndex].next = NIL], i)[N+1] = NIL

ChainsEnd ==
  \A i \in Primary : entries[i].used => SearchEnds(i) /\ InsertEnds(i)

(* One killed insert or remove leaves at most one entry that the counter   *)
(* does not know of, and no call later widens the gap, though the counter  *)
(* may wrap below zero.  Nor do flushes, whole or killed, ever leave more  *)
(* than that.  So the collision area cannot run out under an insert that   *)
(* collides and that the counter lets in: none gets the index -1.          *)
Uncounted == (Cardinality(UsedSlots) + Word - entrycount) % Word

KillCostsOneEntry ==
  /\ killed # "flush" => Uncounted \in (IF killed = "none" THEN {0} ELSE {0, 1})
  /\ entrycount < N /\ (\E i \in Primary : entries[i].used) => FreeCollisions # {}
===============================================================================
