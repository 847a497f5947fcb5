--------------------------- MODULE ShmhtOlderProofs ---------------------------
(***************************************************************************)
(* Proofs about bulk removal (ShmhtOlder), for every table length, key     *)
(* set, hash and set of percentages.  A bulk removal is a list of removals *)
(* by key, so whatever its candidates are the table stays as sound as one  *)
(* removal leaves it, and each queue loses some of its oldest values.      *)
(* That an oldest entry goes needs more: the candidates name one, and as   *)
(* long as none is erased its place keeps its key, under which the first   *)
(* entry of the chain is as old, since the seconds rise along every chain. *)
(***************************************************************************)
EXTENDS ShmhtOlder, ShmhtTableProofs

-------------------------------------------------------------------------------
(* The seconds: never later than the clock, and in order along every link. *)
OrderIn(ent) ==
  \A s \in UsedIn(ent) :
    /\ ent[s].key \in Keys
    /\ ent[s].next # NIL => ent[s].sec <= ent[N + ent[s].next].sec

PastIn(ent) == \A s \in UsedIn(ent) : ent[s].sec <= clock

InTime == clock <= MaxClock /\ PastIn(entries)

\* each queue of the abstract table
QueuesTyped == Queues \in [Keys -> Seq(Values)]

OInv == QInv /\ OrderIn(entries) /\ InTime /\ QueuesTyped

(* A removal keeps them: what takes the place of an entry on its chain     *)
(* comes from further along it.                                            *)
LEMMA OrderKept ==
  ASSUME NEW ent, NEW bkt, NEW cnt, NEW f, NEW s \in UsedIn(ent), NEW g \in Slots,
         TypedIn(ent, bkt, cnt), LinksIn(ent), OrderIn(ent), PastIn(ent),
         FreesIn(ent, f, s, g), FreesChainIn(ent, f, s, g)
  PROVE  OrderIn(f) /\ PastIn(f)
<1>1. \A t \in UsedIn(ent) : ent[t].sec \in Nat /\ ent[t].next \in Int
  BY DEF TypedIn, UsedIn, Entry, NIL
<1>2. /\ \A t \in UsedIn(ent) : ent[t].next # NIL => N + ent[t].next \in UsedIn(ent)
      /\ \A t, u \in UsedIn(ent) : ent[t].next # NIL /\ ent[u].next # NIL =>
           (N + ent[t].next = N + ent[u].next => t = u)
  BY LinkFactsIn
<1>3. /\ \A t \in UsedIn(ent) : ent[t].key \in Keys /\ ent[t].sec <= clock
      /\ \A t \in UsedIn(ent) : ent[t].next # NIL => ent[t].sec <= ent[N + ent[t].next].sec
  BY DEF OrderIn, PastIn
<1>4. UsedIn(f) = UsedIn(ent) \ {g} /\ g \in UsedIn(ent)
  BY DEF FreesIn, UsedIn
<1>5. \A t \in UsedIn(f) :
        /\ f[t].key = IF t = s THEN ent[g].key ELSE ent[t].key
        /\ f[t].sec = IF t = s THEN ent[g].sec ELSE ent[t].sec
        /\ f[t].next = IF ent[t].next # NIL /\ N + ent[t].next = g
                       THEN ent[g].next ELSE ent[t].next
  BY <1>4 DEF FreesIn, FreesChainIn
<1>6. g # s => ent[s].next # NIL /\ N + ent[s].next = g
  BY DEF FreesChainIn
<1>7. \A t \in UsedIn(f) : f[t].key \in Keys /\ f[t].sec <= clock
  BY <1>3, <1>4, <1>5
<1>8. ASSUME NEW t \in UsedIn(f), f[t].next # NIL
      PROVE  f[t].sec <= f[N + f[t].next].sec
  <2>1. CASE ent[t].next # NIL /\ N + ent[t].next = g
    <3>1. PICK u \in UsedIn(ent) : u = N + ent[g].next /\ ent[g].next # NIL
      BY <1>2, <1>4, <1>5, <1>8, <2>1
    <3>2. u # g /\ u \in UsedIn(f)
      BY <1>2, <1>4, <1>8, <2>1, <3>1
    <3>3. ent[g].sec <= ent[u].sec /\ ent[t].sec <= ent[g].sec
      BY <1>3, <1>4, <1>8, <2>1, <3>1
    <3>4. f[t].next = ent[g].next /\ N + f[t].next = u
      BY <1>5, <1>8, <2>1, <3>1
    <3>5. CASE t = s
      BY <1>1, <1>4, <1>5, <1>8, <3>2, <3>3, <3>4, <3>5
    <3>6. CASE t # s
      <4>1. g = s
        BY <1>2, <1>4, <1>6, <1>8, <2>1, <3>6
      <4> QED
        BY <1>1, <1>4, <1>5, <1>8, <3>2, <3>3, <3>4, <3>6, <4>1
    <3> QED
      BY <3>5, <3>6
  <2>2. CASE ~(ent[t].next # NIL /\ N + ent[t].next = g)
    <3>1. f[t].next = ent[t].next /\ ent[t].next # NIL
      BY <1>5, <1>8, <2>2
    <3>2. PICK u \in UsedIn(f) : u = N + ent[t].next
      BY <1>2, <1>4, <1>8, <2>2, <3>1
    <3>3. t # s
      BY <1>4, <1>6, <1>8, <2>2
    <3>4. f[t].sec = ent[t].sec /\ ent[t].sec <= ent[u].sec
      BY <1>3, <1>4, <1>5, <1>8, <3>1, <3>2, <3>3
    <3>5. ent[u].sec <= f[u].sec
      BY <1>1, <1>3, <1>4, <1>5, <1>6, <3>2
    <3> QED
      BY <1>1, <1>4, <1>5, <1>8, <3>1, <3>2, <3>4, <3>5
  <2> QED
    BY <2>1, <2>2
<1> QED
  BY <1>7, <1>8 DEF OrderIn, PastIn

\* the same of one step of Remove or of a bulk removal
LEMMA OneRemovedInOrder ==
  ASSUME NEW ent, NEW bkt, NEW cnt, NEW ent1, NEW bkt1, NEW cnt1,
         QIn(ent, bkt, cnt), OrderIn(ent), PastIn(ent),
         NEW k \in Keys, Matches(ent, k) # {},
         OneOff(ent, bkt, cnt, k, ent1, bkt1, cnt1)
  PROVE  OrderIn(ent1) /\ PastIn(ent1)
<1>1. TypedIn(ent, bkt, cnt) /\ LinksIn(ent)
  BY DEF QIn, TIn
<1>2. ent1 = Unlink(ent, k)
  BY DEF OneOff
<1>3. Found(ent, k) \in UsedIn(ent)
  BY <1>1, FoundFacts
<1>4. PICK g \in Slots : /\ FreesIn(ent, ent1, Found(ent, k), g)
                         /\ FreesChainIn(ent, ent1, Found(ent, k), g)
  BY <1>1, <1>2, UnlinkFrees
<1> QED
  BY <1>1, <1>3, <1>4, OrderKept

LEMMA OrderStays ==
  ASSUME OrderIn(entries), PastIn(entries), entries' = entries, clock' = clock
  PROVE  OrderIn(entries') /\ PastIn(entries)'
BY DEF OrderIn, PastIn, UsedIn

\* The seconds through the calls of ShmhtTable and the ticks of the clock.
LEMMA NextInOrder ==
  ASSUME QInv, OrderIn(entries), InTime, [Next]_vars
  PROVE  OrderIn(entries') /\ InTime'
<1>1. /\ TypeOK /\ BucketsOwned /\ CountExact /\ LinksOwned
      /\ QIn(entries, buckets, entrycount)
      /\ clock \in Nat /\ clock <= MaxClock /\ PastIn(entries) /\ MaxClock \in Nat
  BY InvIsTIn, InvIsCIn, InvIsQIn, TableAssumption DEF QInv, QIn, TInv, InTime, TypeOK
<1>2. ASSUME NEW k \in Keys, NEW v \in Values, Insert(k, v)
      PROVE  OrderIn(entries') /\ InTime'
  <2> DEFINE b == Lowest(FreeBuckets)
  <2>1. /\ entrycount < N /\ FreeBuckets # {} /\ entries' = Link(k, v, b) /\ clock' = clock
    BY <1>2 DEF Insert
  <2>2. FreeCollisions # {} /\ v \in Nat
    BY <1>1, <2>1, Room, TableAssumption DEF RoomForInsert
  <2>3. b \in Primary
    <3>1. FreeBuckets \in SUBSET Nat
      BY Sizes DEF FreeBuckets, Primary
    <3>2. \E j \in FreeBuckets : \A m \in FreeBuckets : j <= m
      BY <2>1, <3>1, LeastExists
    <3> QED
      BY <3>2 DEF Lowest, FreeBuckets
  <2> HIDE DEF b
  <2>4. PICK x \in Slots, l \in Slots \cup {NIL} :
          Grows(entries', x, l, b) /\ GrowsInChain(entries', x, l, k, v)
    BY <1>1, <2>1, <2>2, <2>3, LinkAdds
  <2>5. /\ UsedIn(entries') = UsedIn(entries) \cup {x} /\ x \notin UsedIn(entries)
        /\ entries'[x].key = k /\ entries'[x].sec = clock /\ entries'[x].next = NIL
        /\ \A t \in UsedIn(entries) : /\ entries'[t].key = entries[t].key
                                      /\ entries'[t].sec = entries[t].sec
                                      /\ t # l => entries'[t].next = entries[t].next
        /\ l \in UsedIn(entries) => N + entries'[l].next = x
    BY <2>4 DEF Grows, GrowsInChain, UsedIn, UsedSlots
  <2>6. \A t \in UsedIn(entries) :
          /\ entries[t].key \in Keys /\ entries[t].sec <= clock
          /\ entries[t].next # NIL => /\ N + entries[t].next \in UsedIn(entries)
                                      /\ entries[t].sec <= entries[N + entries[t].next].sec
    BY <1>1, InvIsTIn DEF OrderIn, PastIn, LinksIn
  <2>7. PastIn(entries)' /\ clock' <= MaxClock
    BY <1>1, <2>1, <2>5, <2>6 DEF PastIn
  <2>8. \A t \in UsedIn(entries') : entries'[t].key \in Keys
    BY <2>5, <2>6
  <2>9. \A t \in UsedIn(entries') : entries'[t].next # NIL =>
          entries'[t].sec <= entries'[N + entries'[t].next].sec
    <3>1. SUFFICES ASSUME NEW t \in UsedIn(entries), entries'[t].next # NIL
                   PROVE  entries'[t].sec <= entries'[N + entries'[t].next].sec
      BY <2>5
    <3>2. CASE t = l
      BY <2>5, <2>6, <3>1, <3>2
    <3>3. CASE t # l
      BY <2>5, <2>6, <3>1, <3>3
    <3> QED
      BY <3>2, <3>3
  <2> QED
    BY <2>7, <2>8, <2>9 DEF OrderIn, InTime
<1>3. ASSUME NEW k \in Keys, Remove(k)
      PROVE  OrderIn(entries') /\ InTime'
  <2>1. clock' = clock
    BY <1>3 DEF Remove
  <2>2. CASE Matches(entries, k) = {}
    <3>1. entries' = entries
      BY <1>3, <2>2 DEF Remove, RemoveFrom, Segment
    <3> QED
      BY <1>1, <2>1, <3>1, OrderStays DEF InTime
  <2>3. CASE Matches(entries, k) # {}
    <3>1. OneOff(entries, buckets, entrycount, k, entries', buckets', entrycount')
      BY <1>3, <2>3 DEF Remove, RemoveFrom, Segment, OneOff
    <3>2. OrderIn(entries') /\ PastIn(entries')
      BY <1>1, <2>3, <3>1, OneRemovedInOrder
    <3>3. PastIn(entries)'
      BY <2>1, <3>2 DEF PastIn, UsedIn
    <3> QED
      BY <1>1, <2>1, <3>2, <3>3 DEF InTime
  <2> QED
    BY <2>2, <2>3
<1>4. CASE Flush
  <2>1. \A s \in Slots : ~entries'[s].used
    <3>1. entries' = [s \in Slots |-> Off(entries[s])]
      BY <1>4 DEF Flush, Off
    <3>2. \A x \in Entry : ~Off(x).used
      BY OffEntry
    <3> QED
      BY <1>1, <3>1, <3>2 DEF TypeOK
  <2>2. UsedIn(entries') = {}
    BY <2>1 DEF UsedIn
  <2>3. OrderIn(entries') /\ PastIn(entries)'
    BY <2>2 DEF OrderIn, PastIn, UsedIn
  <2> QED
    BY <1>1, <1>4, <2>3 DEF InTime, Flush
<1>5. CASE Tick
  <2>1. entries' = entries /\ clock' = clock + 1 /\ clock' <= MaxClock
    BY <1>1, <1>5 DEF Tick
  <2>2. OrderIn(entries')
    BY <2>1 DEF OrderIn, UsedIn
  <2>3. \A s \in UsedIn(entries) : entries[s].sec \in Nat
    BY <1>1 DEF TypeOK, UsedIn, Entry
  <2>4. PastIn(entries)'
    BY <1>1, <2>1, <2>3 DEF PastIn, UsedIn
  <2> QED
    BY <2>1, <2>2, <2>4 DEF InTime
<1>6. CASE Count \/ UNCHANGED vars
  BY <1>1, <1>6, OrderStays DEF Count, vars, InTime
<1>7. ASSUME NEW k \in Keys, Search(k)
      PROVE  OrderIn(entries') /\ InTime'
  BY <1>1, <1>7, OrderStays DEF Search, InTime
<1>8. ASSUME NEW k \in Keys, NEW v \in Values, InsertRefused(k, v)
      PROVE  OrderIn(entries') /\ InTime'
  BY <1>1, <1>8, OrderStays DEF InsertRefused, InTime
<1> QED
  BY <1>2, <1>3, <1>4, <1>5, <1>6, <1>7, <1>8 DEF Next

-------------------------------------------------------------------------------
(* The scan, place by place                                                *)

Candidate == [sec : Nat, slot : Slots]

\* f solves the recursion of Scan up to m
ScanUpTo(f, p, m) ==
  /\ f = [n \in 0..m |-> f[n]]
  /\ f[0] = [i \in 1..Deletes(p) |-> Unset]
  /\ \A n \in 1..m : f[n] = KeepIfOlder(f[n-1], n - 1)

LEMMA ScanPrefixes ==
  ASSUME NEW p, NEW m \in 0..2*N
  PROVE  \E f : ScanUpTo(f, p, m)
<1> DEFINE S == {i \in Nat : \E f : ScanUpTo(f, p, i)}
           z == [i \in 1..Deletes(p) |-> Unset]
<1>0. N \in Nat
  BY Sizes
<1>1. 0 \in S
  <2> HIDE DEF z
  <2>1. ScanUpTo([n \in 0..0 |-> z], p, 0)
    BY DEF ScanUpTo, z
  <2> QED
    BY <2>1
<1>2. ASSUME NEW i \in 0..m, i < m, i \in S
      PROVE  i + 1 \in S
  <2>1. PICK f : ScanUpTo(f, p, i)
    BY <1>2
  <2> DEFINE x == KeepIfOlder(f[i], i)
             g == [n \in 0..i+1 |-> IF n = i + 1 THEN x ELSE f[n]]
  <2> HIDE DEF x
  <2>i. i \in Nat
    BY <1>0, <1>2
  <2>2. g = [n \in 0..i+1 |-> g[n]] /\ g[0] = f[0]
    BY <2>i
  <2>3. ASSUME NEW n \in 1..i+1
        PROVE  g[n] = KeepIfOlder(g[n-1], n - 1)
    <3>1. CASE n = i + 1
      <4>1. g[n] = x /\ g[n-1] = f[i] /\ n - 1 = i
        BY <2>i, <3>1
      <4> QED
        BY <3>1, <4>1 DEF x
    <3>2. CASE n \in 1..i
      <4>1. n \in 0..i+1 /\ n - 1 \in 0..i+1 /\ n # i + 1 /\ n - 1 # i + 1
        BY <2>i, <3>2
      <4>2. g[n] = f[n] /\ g[n-1] = f[n-1]
        BY <4>1
      <4>3. f[n] = KeepIfOlder(f[n-1], n - 1)
        BY <2>1, <3>2 DEF ScanUpTo
      <4> QED
        BY <4>2, <4>3
    <3> QED
      BY <2>i, <2>3, <3>1, <3>2
  <2> HIDE DEF g
  <2>4. ScanUpTo(g, p, i + 1)
    BY <2>1, <2>2, <2>3 DEF ScanUpTo
  <2> QED
    BY <2>4, <2>i
<1>3. S \in SUBSET Nat /\ m \in Nat /\ m \in 0..m /\ 0 \in Nat
  BY <1>0
<1>4. \A n \in 0..m : n \in S
  <2> HIDE DEF S
  <2> QED
    BY <1>1, <1>2, <1>3, Upwards
<1> QED
  BY <1>3, <1>4

LEMMA ScanSteps ==
  ASSUME NEW p
  PROVE  /\ Scan(p)[0] = [i \in 1..Deletes(p) |-> Unset]
         /\ \A n \in 1..2*N : Scan(p)[n] = KeepIfOlder(Scan(p)[n-1], n - 1)
<1> DEFINE z == [i \in 1..Deletes(p) |-> Unset]
           Rec(f) == f = [n \in 0..2*N |-> IF n = 0 THEN z ELSE KeepIfOlder(f[n-1], n - 1)]
           a == Scan(p)
<1>0. N \in Nat /\ 2*N \in 0..2*N
  BY Sizes
<1>1. PICK f : ScanUpTo(f, p, 2*N)
  BY <1>0, ScanPrefixes
<1>3. a = CHOOSE f2 : Rec(f2)
  BY DEF Scan
<1>2. Rec(f)
  <2> HIDE DEF z
  <2>1. \A n \in 0..2*N : n = 0 \/ n \in 1..2*N
    BY <1>0
  <2>2. f = [n \in 0..2*N |-> f[n]] /\ f[0] = z
    BY <1>1 DEF ScanUpTo, z
  <2>3. \A n \in 0..2*N : f[n] = IF n = 0 THEN z ELSE KeepIfOlder(f[n-1], n - 1)
    BY <1>1, <2>1, <2>2 DEF ScanUpTo
  <2> QED
    BY <2>2, <2>3
<1>4. Rec(a)
  BY <1>2, <1>3
<1> HIDE DEF a, z
<1>5. a[0] = z
  BY <1>0, <1>4
<1>6. \A n \in 1..2*N : a[n] = KeepIfOlder(a[n-1], n - 1)
  <2>1. \A n \in 1..2*N : n \in 0..2*N /\ n # 0
    BY <1>0
  <2> QED
    BY <1>4, <2>1
<1> QED
  BY <1>5, <1>6 DEF a, z

\* A candidate is unset or a used entry, by its place and its second.
Honest(c) ==
  \/ c.sec = LongMax
  \/ c.slot \in UsedIn(entries) /\ entries[c.slot].sec = c.sec

\* Of each used entry in a place before n, some candidate is at least as old.
Covers(store, n) ==
  \A s \in UsedIn(entries) : s < n => \E i \in DOMAIN store : store[i].sec <= entries[s].sec

GoodStore(store, d, n) ==
  /\ store \in [1..d -> Candidate]
  /\ \A i \in 1..d : Honest(store[i])
  /\ d > 0 => Covers(store, n)

LEMMA PlaceIsOwn ==
  ASSUME TypeOK, PositionsRight, NEW s \in UsedIn(entries)
  PROVE  PlaceOf(s) = s /\ s \in Nat /\ entries[s].sec \in Nat
<1>1. s \in Slots /\ s \in UsedSlots /\ s \in Nat /\ N \in Nat /\ s \in Int
  BY Sizes DEF UsedIn, UsedSlots, Slots
<1>2. entries[s].position = IF s \in Primary THEN s ELSE s - N
  BY <1>1 DEF PositionsRight
<1>3. entries[s].sec \in Nat
  BY <1>1 DEF TypeOK, Entry
<1> QED
  BY <1>1, <1>2, <1>3 DEF PlaceOf

\* one place more of the scan
LEMMA KeepStep ==
  ASSUME TypeOK, PositionsRight, NEW d \in Nat, NEW s \in Slots, NEW store,
         GoodStore(store, d, s)
  PROVE  GoodStore(KeepIfOlder(store, s), d, s + 1)
<1> DEFINE later == {i \in 1..d : entries[s].sec < store[i].sec}
           j == Lowest(later)
           c == [sec |-> entries[s].sec, slot |-> PlaceOf(s)]
<1>1. /\ store \in [1..d -> Candidate] /\ DOMAIN store = 1..d
      /\ \A i \in 1..d : Honest(store[i]) /\ store[i].sec \in Nat
      /\ s \in Nat /\ \A t \in UsedIn(entries) : t \in Nat
  BY Sizes DEF GoodStore, Candidate, UsedIn, Slots
<1>2. KeepIfOlder(store, s) = IF ~entries[s].used \/ later = {} THEN store
                              ELSE [store EXCEPT ![j] = c]
  BY <1>1 DEF KeepIfOlder
<1>3. \A t \in UsedIn(entries) : entries[t].sec \in Nat
  BY PlaceIsOwn
<1>4. s \in UsedIn(entries) <=> entries[s].used
  BY DEF UsedIn
<1>5. CASE ~entries[s].used \/ later = {}
  <2>1. ASSUME d > 0, NEW t \in UsedIn(entries), t < s + 1
        PROVE  \E i \in 1..d : store[i].sec <= entries[t].sec
    <3>1. CASE t < s
      BY <1>1, <2>1, <3>1 DEF GoodStore, Covers
    <3>2. CASE t = s
      <4>1. later = {} /\ 1 \in 1..d
        BY <1>4, <1>5, <2>1, <3>2
      <4>2. ~(entries[s].sec < store[1].sec)
        BY <4>1
      <4> QED
        BY <1>1, <1>3, <2>1, <3>2, <4>1, <4>2
    <3> QED
      BY <1>1, <2>1, <3>1, <3>2
  <2>2. d > 0 => Covers(store, s + 1)
    BY <1>1, <2>1 DEF Covers
  <2> QED
    BY <1>1, <1>2, <1>5, <2>2 DEF GoodStore
<1>6. CASE entries[s].used /\ later # {}
  <2>1. j \in 1..d /\ entries[s].sec < store[j].sec
    <3>1. later \in SUBSET Nat
      OBVIOUS
    <3>2. \E i \in later : \A m \in later : i <= m
      <4> HIDE DEF later
      <4> QED
        BY <1>6, <3>1, LeastExists
    <3>3. j \in later
      BY <3>2 DEF Lowest
    <3> QED
      BY <3>3
  <2>2. PlaceOf(s) = s /\ entries[s].sec \in Nat
    BY <1>4, <1>6, PlaceIsOwn
  <2>3. c \in Candidate /\ Honest(c) /\ c.sec = entries[s].sec
    BY <1>4, <1>6, <2>2 DEF Candidate, Honest
  <2> HIDE DEF c, j, later
  <2>4. PICK new : new = [store EXCEPT ![j] = c]
    OBVIOUS
  <2>5. /\ new \in [1..d -> Candidate] /\ new[j] = c
        /\ \A i \in 1..d : i # j => new[i] = store[i]
    BY <1>1, <2>1, <2>3, <2>4
  <2>6. \A i \in 1..d : Honest(new[i])
    BY <1>1, <2>3, <2>5
  <2>7. ASSUME NEW t \in UsedIn(entries), t < s + 1, d > 0
        PROVE  \E i \in 1..d : new[i].sec <= entries[t].sec
    <3>1. CASE t < s
      <4>1. PICK i \in 1..d : store[i].sec <= entries[t].sec
        BY <1>1, <2>7, <3>1 DEF GoodStore, Covers
      <4>2. CASE i = j
        BY <1>1, <1>3, <2>1, <2>2, <2>3, <2>5, <2>7, <4>1, <4>2
      <4>3. CASE i # j
        BY <2>5, <4>1, <4>3
      <4> QED
        BY <4>2, <4>3
    <3>2. CASE t = s
      BY <2>1, <2>2, <2>3, <2>5, <3>2
    <3> QED
      BY <1>1, <2>7, <3>1, <3>2
  <2>8. GoodStore(new, d, s + 1)
    BY <2>5, <2>6, <2>7 DEF GoodStore, Covers
  <2> QED
    BY <1>2, <1>6, <2>4, <2>8
<1> QED
  BY <1>5, <1>6

\* the number of candidates
LEMMA DeletesTyped ==
  ASSUME NEW p \in Percents
  PROVE  Deletes(p) \in 0..N
<1>1. p \in 0..100 /\ N \in Nat
  BY PercentsAssumption, Sizes
<1>2. N * p \in Nat /\ N * p <= N * 100
  BY <1>1
<1>3. PICK a \in Nat : a = N * p
  BY <1>2
<1>4. a \div 100 \in 0..N
  BY <1>1, <1>2, <1>3
<1> QED
  BY <1>3, <1>4 DEF Deletes

LEMMA CandidatesGood ==
  ASSUME TypeOK, PositionsRight, NEW p \in Percents
  PROVE  GoodStore(Candidates(p), Deletes(p), 2*N)
<1> DEFINE d == Deletes(p)
           sc == Scan(p)
           S == {n \in Nat : GoodStore(sc[n], d, n)}
<1>0. N \in Nat /\ N > 0 /\ MaxClock \in Nat /\ Slots = 0..2*N-1
  BY Sizes, TableAssumption DEF Slots
<1>1. d \in Nat
  BY <1>0, DeletesTyped
<1>2. /\ sc[0] = [i \in 1..d |-> Unset]
      /\ \A n \in 1..2*N : sc[n] = KeepIfOlder(sc[n-1], n - 1)
  BY ScanSteps
<1> HIDE DEF d, sc
<1>3. 0 \in S
  <2>1. Unset \in Candidate /\ Honest(Unset)
    BY <1>0 DEF Unset, Candidate, Honest, LongMax
  <2>2. sc[0] \in [1..d -> Candidate] /\ \A i \in 1..d : Honest(sc[0][i])
    BY <1>2, <2>1
  <2>3. \A s \in UsedIn(entries) : ~(s < 0)
    BY <1>0 DEF UsedIn
  <2>4. Covers(sc[0], 0)
    BY <2>3 DEF Covers
  <2> QED
    BY <2>2, <2>4 DEF GoodStore
<1>4. ASSUME NEW n \in 0..2*N, n < 2*N, n \in S
      PROVE  n + 1 \in S
  <2>1. n \in Slots /\ n + 1 \in 1..2*N /\ (n + 1) - 1 = n /\ n + 1 \in Nat
    BY <1>0, <1>4
  <2>2. sc[n+1] = KeepIfOlder(sc[n], n)
    BY <1>2, <2>1
  <2>3. GoodStore(sc[n], d, n)
    BY <1>4
  <2>4. GoodStore(sc[n+1], d, n + 1)
    BY <1>1, <2>1, <2>2, <2>3, KeepStep
  <2> QED
    BY <2>1, <2>4
<1>5. \A n \in 0..2*N : n \in S
  <2> HIDE DEF S
  <2>1. S \in SUBSET Nat /\ 2*N \in Nat
    BY <1>0 DEF S
  <2> QED
    BY <1>3, <1>4, <2>1, Upwards
<1>6. 2*N \in 0..2*N
  BY <1>0
<1> QED
  BY <1>5, <1>6 DEF Candidates, sc, d

-------------------------------------------------------------------------------
(* The removals, candidate by candidate                                    *)

\* f solves the recursion of Removals up to m
RemovalsUpTo(f, p, m) ==
  /\ f = [n \in 0..m |-> f[n]] /\ f[0] = Segment
  /\ \A n \in 1..m : f[n] = RemovePlace(f[n-1], Candidates(p)[n])

LEMMA RemovalPrefixes ==
  ASSUME NEW p \in Percents, NEW m \in 0..Deletes(p)
  PROVE  \E f : RemovalsUpTo(f, p, m)
<1> DEFINE S == {i \in Nat : \E f : RemovalsUpTo(f, p, i)}
<1>0. N \in Nat /\ Deletes(p) \in Nat /\ m \in Nat
  BY Sizes, DeletesTyped
<1>1. 0 \in S
  <2>1. RemovalsUpTo([n \in 0..0 |-> Segment], p, 0)
    BY DEF RemovalsUpTo
  <2> QED
    BY <2>1
<1>2. ASSUME NEW i \in 0..m, i < m, i \in S
      PROVE  i + 1 \in S
  <2>1. PICK f : RemovalsUpTo(f, p, i)
    BY <1>2
  <2> DEFINE x == RemovePlace(f[i], Candidates(p)[i+1])
             g == [n \in 0..i+1 |-> IF n = i + 1 THEN x ELSE f[n]]
  <2> HIDE DEF x
  <2>i. i \in Nat
    BY <1>0, <1>2
  <2>2. g = [n \in 0..i+1 |-> g[n]] /\ g[0] = f[0]
    BY <2>i
  <2>3. ASSUME NEW n \in 1..i+1
        PROVE  g[n] = RemovePlace(g[n-1], Candidates(p)[n])
    <3>1. CASE n = i + 1
      <4>1. g[n] = x /\ g[n-1] = f[i] /\ n - 1 = i
        BY <2>i, <3>1
      <4> QED
        BY <3>1, <4>1 DEF x
    <3>2. CASE n \in 1..i
      <4>1. n \in 0..i+1 /\ n - 1 \in 0..i+1 /\ n # i + 1 /\ n - 1 # i + 1
        BY <2>i, <3>2
      <4>2. g[n] = f[n] /\ g[n-1] = f[n-1]
        BY <4>1
      <4>3. f[n] = RemovePlace(f[n-1], Candidates(p)[n])
        BY <2>1, <3>2 DEF RemovalsUpTo
      <4> QED
        BY <4>2, <4>3
    <3> QED
      BY <2>i, <2>3, <3>1, <3>2
  <2> HIDE DEF g
  <2>4. RemovalsUpTo(g, p, i + 1)
    BY <2>1, <2>2, <2>3 DEF RemovalsUpTo
  <2> QED
    BY <2>4, <2>i
<1>3. S \in SUBSET Nat /\ m \in 0..m /\ 0 \in Nat
  BY <1>0
<1>4. \A n \in 0..m : n \in S
  <2> HIDE DEF S
  <2> QED
    BY <1>0, <1>1, <1>2, <1>3, Upwards
<1> QED
  BY <1>3, <1>4

LEMMA RemovalSteps ==
  ASSUME NEW p \in Percents
  PROVE  /\ Removals(p)[0] = Segment
         /\ \A n \in 1..Deletes(p) :
              Removals(p)[n] = RemovePlace(Removals(p)[n-1], Candidates(p)[n])
<1> DEFINE d == Deletes(p)
           c == Candidates(p)
           Rec(f) == f = [n \in 0..d |-> IF n = 0 THEN Segment
                                         ELSE RemovePlace(f[n-1], c[n])]
           a == Removals(p)
<1>0. d \in Nat
  BY Sizes, DeletesTyped
<1>1. PICK f : RemovalsUpTo(f, p, d)
  BY <1>0, RemovalPrefixes
<1>2. a = CHOOSE f2 : Rec(f2)
  BY DEF Removals
<1>3. Rec(f)
  <2> HIDE DEF d
  <2>1. \A n \in 0..d : n = 0 \/ n \in 1..d
    BY <1>0
  <2>2. f = [n \in 0..d |-> f[n]] /\ f[0] = Segment
    BY <1>1 DEF RemovalsUpTo
  <2>3. \A n \in 0..d : f[n] = IF n = 0 THEN Segment ELSE RemovePlace(f[n-1], c[n])
    BY <1>1, <2>1, <2>2 DEF RemovalsUpTo
  <2> QED
    BY <2>2, <2>3
<1>4. Rec(a)
  BY <1>2, <1>3
<1> HIDE DEF a, d
<1>5. a[0] = Segment
  BY <1>0, <1>4
<1>6. \A n \in 1..d : a[n] = RemovePlace(a[n-1], c[n])
  <2>1. \A n \in 1..d : n \in 0..d /\ n # 0
    BY <1>0
  <2> QED
    BY <1>4, <2>1
<1> QED
  BY <1>5, <1>6 DEF a, d

\* a table as sound as one that is between two calls
Sound(h) ==
  /\ QIn(h.entries, h.buckets, h.entrycount)
  /\ OrderIn(h.entries) /\ PastIn(h.entries)

QueuesOf(h) == QueueOf(h.entries, h.buckets)

\* no used entry has the key of an entry that was never used
LEMMA NoKeyMatchesNothing ==
  ASSUME NEW ent \in [Slots -> Entry], OrderIn(ent)
  PROVE  Matches(ent, NoKey) = {}
<1>1. Index[NoKey] \in Slots /\ NoKey \notin Keys
  BY TableAssumption, Sizes DEF Primary
<1>2. SUFFICES ASSUME NEW n \in Matches(ent, NoKey) PROVE FALSE
  OBVIOUS
<1>3. PICK w : w = Walk(ent, Index[NoKey])
  OBVIOUS
<1>4. n \in 0..N+1 /\ ent[w[n]].key = NoKey /\ \A m \in 0..n : w[m] # NIL /\ ent[w[m]].used
  BY <1>3 DEF Matches, Visits
<1>5. w[n] \in Slots /\ ent[w[n]].used
  <2>1. w[n] \in Slots \cup {NIL}
    BY <1>1, <1>3, <1>4, WalkFollows
  <2>2. n \in 0..n
    BY <1>4, Sizes
  <2> QED
    BY <1>4, <2>1, <2>2
<1> QED
  BY <1>1, <1>4, <1>5 DEF OrderIn, UsedIn

\* A removal by place finds nothing, or takes one entry of some key.
LEMMA PlaceRemoved ==
  ASSUME NEW h, Sound(h), NEW c, c.slot \in Slots
  PROVE  LET k == h.entries[c.slot].key
             r == RemovePlace(h, c)
         IN IF Matches(h.entries, k) = {} THEN r = h
            ELSE /\ k \in Keys
                 /\ OneOff(h.entries, h.buckets, h.entrycount, k,
                           r.entries, r.buckets, r.entrycount)
<1> DEFINE k == h.entries[c.slot].key
           r == RemovePlace(h, c)
<1>1. h.entries \in [Slots -> Entry]
  BY DEF Sound, QIn, TIn, TypedIn
<1>2. k \in Keys \cup {NoKey}
  BY <1>1 DEF Entry
<1>3. r = RemoveFrom(h, k)
  BY DEF RemovePlace
<1>4. CASE Matches(h.entries, k) = {}
  BY <1>3, <1>4 DEF RemoveFrom
<1>5. CASE Matches(h.entries, k) # {}
  <2>1. k \in Keys
    BY <1>1, <1>2, <1>5, NoKeyMatchesNothing DEF Sound
  <2>2. OneOff(h.entries, h.buckets, h.entrycount, k, r.entries, r.buckets, r.entrycount)
    <3>1. PICK s : s = Found(h.entries, k)
      OBVIOUS
    <3>2. r = [entries |-> Unlink(h.entries, k),
               buckets |-> [h.buckets EXCEPT ![h.entries[s].bucket].used = FALSE],
               entrycount |-> h.entrycount - 1]
      BY <1>3, <1>5, <3>1 DEF RemoveFrom
    <3>3. PICK e, b, n : /\ e = Unlink(h.entries, k) /\ n = h.entrycount - 1
                         /\ b = [h.buckets EXCEPT ![h.entries[s].bucket].used = FALSE]
      OBVIOUS
    <3>4. r = [entries |-> e, buckets |-> b, entrycount |-> n]
      BY <3>2, <3>3
    <3> HIDE DEF r, k
    <3>5. r.entries = e /\ r.buckets = b /\ r.entrycount = n
      BY <3>4
    <3>6. OneOff(h.entries, h.buckets, h.entrycount, k, e, b, n)
      BY <3>1, <3>3 DEF OneOff
    <3> QED
      BY <3>5, <3>6
  <2> QED
    BY <1>5, <2>1, <2>2
<1> QED
  BY <1>4, <1>5

\* each queue of r is what is left of the same queue of q
Remains(q, r) ==
  \A k \in Keys : \E n \in 0..Len(q[k]) : r[k] = SubSeq(q[k], n + 1, Len(q[k]))

LEMMA LosesOldest ==
  ASSUME NEW q \in [Keys -> Seq(Values)], NEW r \in [Keys -> Seq(Values)], Remains(q, r),
         NEW r1, NEW k \in Keys, HeadLost(r, r1, k)
  PROVE  r1 \in [Keys -> Seq(Values)] /\ Remains(q, r1)
<1>1. r1 = [r EXCEPT ![k] = Tail(r[k])] /\ r[k] # <<>>
  BY DEF HeadLost
<1>2. PICK s \in Seq(Values) : s = q[k]
  OBVIOUS
<1>3. PICK n \in 0..Len(s) : r[k] = SubSeq(s, n + 1, Len(s))
  BY <1>2 DEF Remains
<1>4. PICK l \in Nat : l = Len(s)
  OBVIOUS
<1>5. n < l
  <2>1. CASE n = l
    <3>1. n + 1 \in Int /\ l \in Int /\ l < n + 1
      BY <1>4, <2>1
    <3>2. SubSeq(s, n + 1, l) = <<>>
      BY <3>1, SubSeqEmpty
    <3> QED
      BY <1>1, <1>3, <1>4, <3>2
  <2> QED
    BY <1>3, <1>4, <2>1
<1>6. Tail(r[k]) = SubSeq(s, (n + 1) + 1, l)
  <2>1. n + 1 \in 1..Len(s) /\ l \in n + 1..Len(s)
    BY <1>3, <1>4, <1>5
  <2> QED
    BY <1>3, <1>4, <2>1, HeadTailOfSubSeq
<1>7. Tail(r[k]) \in Seq(Values)
  BY <1>1
<1>8. r1 \in [Keys -> Seq(Values)] /\ r1[k] = Tail(r[k])
      /\ \A j \in Keys : j # k => r1[j] = r[j]
  BY <1>1, <1>7
<1>9. n + 1 \in 0..Len(s)
  BY <1>3, <1>4, <1>5
<1> QED
  BY <1>2, <1>4, <1>6, <1>8, <1>9 DEF Remains

LEMMA AllRemains ==
  ASSUME NEW q \in [Keys -> Seq(Values)]
  PROVE  Remains(q, q)
<1>1. ASSUME NEW k \in Keys
      PROVE  q[k] = SubSeq(q[k], 0 + 1, Len(q[k])) /\ 0 \in 0..Len(q[k])
  <2>1. q[k] \in Seq(Values) /\ Len(q[k]) \in Nat
    OBVIOUS
  <2>2. SubSeq(q[k], 1, Len(q[k])) = q[k]
    BY <2>1, SubSeqFull
  <2> QED
    BY <2>1, <2>2
<1> QED
  BY <1>1 DEF Remains

\* After each removal the table is sound and its queues have lost oldest values.
LEMMA RemovalsSound ==
  ASSUME OInv, NEW p \in Percents
  PROVE  \A n \in 0..Deletes(p) :
           /\ Sound(Removals(p)[n])
           /\ QueuesOf(Removals(p)[n]) \in [Keys -> Seq(Values)]
           /\ Remains(Queues, QueuesOf(Removals(p)[n]))
<1> DEFINE d == Deletes(p)
           c == Candidates(p)
           h == Removals(p)
           S == {n \in Nat : /\ Sound(h[n]) /\ QueuesOf(h[n]) \in [Keys -> Seq(Values)]
                             /\ Remains(Queues, QueuesOf(h[n]))}
<1>1. d \in Nat
  BY Sizes, DeletesTyped
<1>2. h[0] = Segment /\ \A n \in 1..d : h[n] = RemovePlace(h[n-1], c[n])
  BY RemovalSteps
<1>3. \A n \in 1..d : c[n].slot \in Slots
  <2>1. TypeOK /\ PositionsRight
    BY DEF OInv, QInv, TInv
  <2>2. c \in [1..d -> Candidate]
    BY <2>1, CandidatesGood DEF GoodStore
  <2> HIDE DEF c, d
  <2> QED
    BY <2>2 DEF Candidate
<1>q. Queues \in [Keys -> Seq(Values)]
  BY DEF OInv, QueuesTyped
<1> HIDE DEF d, c, h
<1>4. 0 \in S
  <2>1. /\ h[0].entries = entries /\ h[0].buckets = buckets
        /\ h[0].entrycount = entrycount
    BY <1>2 DEF Segment
  <2>2. QIn(entries, buckets, entrycount) /\ OrderIn(entries) /\ PastIn(entries)
    BY InvIsTIn, InvIsCIn, InvIsQIn DEF OInv, QInv, QIn, InTime
  <2>3. Sound(h[0])
    BY <2>1, <2>2 DEF Sound
  <2>4. QueuesOf(h[0]) = Queues
    BY <2>1, StoredIsQueue DEF QueuesOf
  <2> QED
    BY <1>q, <2>3, <2>4, AllRemains
<1>5. ASSUME NEW n \in 0..d, n < d, n \in S
      PROVE  n + 1 \in S
  <2>0. n + 1 \in 1..d /\ (n + 1) - 1 = n /\ n + 1 \in Nat
    BY <1>1, <1>5
  <2>1. h[n+1] = RemovePlace(h[n], c[n+1]) /\ c[n+1].slot \in Slots
    BY <1>2, <1>3, <2>0
  <2>2. /\ Sound(h[n]) /\ QueuesOf(h[n]) \in [Keys -> Seq(Values)]
        /\ Remains(Queues, QueuesOf(h[n]))
    BY <1>5
  <2>3. PICK k : k = h[n].entries[c[n+1].slot].key
    OBVIOUS
  <2>4. CASE Matches(h[n].entries, k) = {}
    <3>1. h[n+1] = h[n]
      BY <2>1, <2>2, <2>3, <2>4, PlaceRemoved
    <3> QED
      BY <2>0, <2>2, <3>1
  <2>5. CASE Matches(h[n].entries, k) # {}
    <3>1. /\ k \in Keys
          /\ OneOff(h[n].entries, h[n].buckets, h[n].entrycount, k,
                    h[n+1].entries, h[n+1].buckets, h[n+1].entrycount)
      BY <2>1, <2>2, <2>3, <2>5, PlaceRemoved
    <3>2. /\ QIn(h[n+1].entries, h[n+1].buckets, h[n+1].entrycount)
          /\ HeadLost(QueuesOf(h[n]), QueuesOf(h[n+1]), k)
      BY <2>2, <2>5, <3>1, OneRemoved DEF Sound, QueuesOf
    <3>3. OrderIn(h[n+1].entries) /\ PastIn(h[n+1].entries)
      BY <2>2, <2>5, <3>1, OneRemovedInOrder DEF Sound
    <3>4. /\ QueuesOf(h[n+1]) \in [Keys -> Seq(Values)]
          /\ Remains(Queues, QueuesOf(h[n+1]))
      BY <1>q, <2>2, <3>1, <3>2, LosesOldest
    <3>5. Sound(h[n+1])
      BY <3>2, <3>3 DEF Sound
    <3> QED
      BY <2>0, <3>4, <3>5
  <2> QED
    BY <2>4, <2>5
<1>6. \A n \in 0..d : n \in S
  <2> HIDE DEF S
  <2>1. S \in SUBSET Nat /\ 0 \in Nat
    BY DEF S
  <2> QED
    BY <1>1, <1>4, <1>5, <2>1, Upwards
<1> QED
  BY <1>6 DEF d, h

-------------------------------------------------------------------------------
(* The bulk removal as a step of the table and of its queues               *)

LEMMA OlderStep ==
  ASSUME OInv, NEW p \in Percents, RemoveOlder(p)
  PROVE  QInv' /\ OrderIn(entries') /\ InTime' /\ Fifo!Next
<1> DEFINE d == Deletes(p)
           h == Removals(p)[d]
<1>1. d \in 0..N /\ d \in 0..d
  BY DeletesTyped
<1>2. /\ entries' = h.entries /\ buckets' = h.buckets /\ entrycount' = h.entrycount
      /\ clock' = clock /\ ret' = <<"older", d>>
  BY DEF RemoveOlder
<1>3. Sound(h) /\ QueuesOf(h) \in [Keys -> Seq(Values)] /\ Remains(Queues, QueuesOf(h))
  BY <1>1, RemovalsSound
<1> HIDE DEF h, d
<1>4. /\ QIn(entries', buckets', entrycount') /\ OrderIn(entries')
      /\ QueueOf(entries', buckets') = QueuesOf(h)
  BY <1>2, <1>3 DEF Sound, QueuesOf
<1>5. clock \in Nat /\ clock <= MaxClock
  BY DEF OInv, QInv, TInv, TypeOK, InTime
<1>6. QInv'
  <2>1. TInv' /\ CInv'
    BY <1>2, <1>4, <1>5, InvIsTInNext, InvIsCInNext DEF QIn
  <2>2. Sized' /\ Counted'
    BY <1>4, InvIsQIn DEF QIn
  <2> QED
    BY <2>1, <2>2 DEF QInv
<1>7. InTime'
  <2>1. PastIn(h.entries)
    BY <1>3 DEF Sound
  <2>2. PastIn(entries)'
    BY <1>2, <2>1 DEF PastIn, UsedIn
  <2> QED
    BY <1>2, <1>5, <2>2 DEF InTime
<1>8. Queues' = QueuesOf(h)
  BY <1>4, StoredIsQueue
<1>9. Fifo!Prune
  <2>1. \E n \in 0..N : ret' = <<"older", n>>
    BY <1>1, <1>2
  <2>2. Queues' \in [Keys -> Seq(Values)]
    BY <1>3, <1>8
  <2>3. \A k \in Keys : \E n \in 0..Len(Queues[k]) :
          Queues'[k] = SubSeq(Queues[k], n + 1, Len(Queues[k]))
    BY <1>3, <1>8 DEF Remains
  <2> QED
    BY <2>1, <2>2, <2>3 DEF Fifo!Prune
<1> QED
  BY <1>4, <1>6, <1>7, <1>9 DEF Fifo!Next

\* Only values are stored in the queues, whatever call it is.
LEMMA QueuesStayTyped ==
  ASSUME Queues \in [Keys -> Seq(Values)], [Fifo!Next]_Fifo!vars
  PROVE  Queues' \in [Keys -> Seq(Values)]
<1>1. PICK q, r : q = Queues /\ r = Queues'
  OBVIOUS
<1> SUFFICES r \in [Keys -> Seq(Values)]
  BY <1>1
<1>2. q \in [Keys -> Seq(Values)]
  BY <1>1
<1>3. ASSUME NEW k \in Keys, NEW v \in Values, Fifo!Insert(k, v)
      PROVE  r \in [Keys -> Seq(Values)]
  <2>1. r = [q EXCEPT ![k] = Append(q[k], v)]
    BY <1>1, <1>3 DEF Fifo!Insert
  <2>2. Append(q[k], v) \in Seq(Values)
    BY <1>2
  <2> QED
    BY <1>2, <2>1, <2>2
<1>4. ASSUME NEW k \in Keys, Fifo!Remove(k)
      PROVE  r \in [Keys -> Seq(Values)]
  <2>0. r = q \/ (q[k] # <<>> /\ r = [q EXCEPT ![k] = Tail(q[k])])
    BY <1>1, <1>4 DEF Fifo!Remove
  <2>1. CASE r = q
    BY <1>2, <2>1
  <2>2. CASE q[k] # <<>> /\ r = [q EXCEPT ![k] = Tail(q[k])]
    <3>1. Tail(q[k]) \in Seq(Values)
      BY <1>2, <2>2
    <3> QED
      BY <1>2, <2>2, <3>1
  <2> QED
    BY <2>0, <2>1, <2>2
<1>5. CASE Fifo!Flush
  <2>1. r = [k \in Keys |-> <<>>]
    BY <1>1, <1>5 DEF Fifo!Flush
  <2>2. <<>> \in Seq(Values)
    OBVIOUS
  <2> QED
    BY <2>1, <2>2
<1>6. CASE Fifo!Prune
  BY <1>1, <1>6 DEF Fifo!Prune
<1>7. ASSUME NEW k \in Keys, Fifo!Search(k)
      PROVE  r \in [Keys -> Seq(Values)]
  BY <1>1, <1>2, <1>7 DEF Fifo!Search
<1>8. ASSUME NEW k \in Keys, NEW v \in Values, Fifo!Refuse(k, v)
      PROVE  r \in [Keys -> Seq(Values)]
  BY <1>1, <1>2, <1>8 DEF Fifo!Refuse
<1>9. CASE Fifo!Count \/ UNCHANGED Fifo!vars
  BY <1>1, <1>2, <1>9 DEF Fifo!Count, Fifo!vars
<1>0. Fifo!Next \/ UNCHANGED Fifo!vars
  OBVIOUS
<1> QED
  BY <1>0, <1>3, <1>4, <1>5, <1>6, <1>7, <1>8, <1>9 DEF Fifo!Next

LEMMA StartsOlder ==
  Init => OInv /\ Fifo!Init
<1> SUFFICES ASSUME Init PROVE OInv /\ Fifo!Init
  OBVIOUS
<1>1. QInv /\ Fifo!Init
  BY InitInv, StartsWithChains, StartsEmpty DEF QInv
<1>2. UsedIn(entries) = {}
  BY DEF Init, UsedIn, EmptyEntry
<1>3. OrderIn(entries) /\ InTime
  BY <1>2, TableAssumption DEF OrderIn, InTime, PastIn, Init
<1>4. QueuesTyped
  <2>1. Queues = [k \in Keys |-> <<>>]
    BY <1>1 DEF Fifo!Init
  <2>2. <<>> \in Seq(Values)
    OBVIOUS
  <2> QED
    BY <2>1, <2>2 DEF QueuesTyped
<1> QED
  BY <1>1, <1>3, <1>4 DEF OInv

LEMMA StepOlder ==
  OInv /\ [OlderNext]_vars => OInv' /\ [Fifo!Next]_Fifo!vars
<1> SUFFICES ASSUME OInv, [OlderNext]_vars PROVE OInv' /\ [Fifo!Next]_Fifo!vars
  OBVIOUS
<1>1. QInv /\ OrderIn(entries) /\ InTime /\ Queues \in [Keys -> Seq(Values)]
  BY DEF OInv, QueuesTyped
<1>2. QInv' /\ OrderIn(entries') /\ InTime' /\ [Fifo!Next]_Fifo!vars
  <2>1. CASE [Next]_vars
    BY <1>1, <2>1, StepOfQueues, NextInOrder
  <2>2. ASSUME NEW p \in Percents, RemoveOlder(p)
        PROVE  QInv' /\ OrderIn(entries') /\ InTime' /\ [Fifo!Next]_Fifo!vars
    BY <2>2, OlderStep
  <2> QED
    BY <2>1, <2>2 DEF OlderNext
<1>3. Queues' \in [Keys -> Seq(Values)]
  BY <1>1, <1>2, QueuesStayTyped
<1>4. OrderIn(entries)'
  BY <1>2 DEF OrderIn, UsedIn
<1> QED
  BY <1>2, <1>3, <1>4 DEF OInv, QueuesTyped

LEMMA OlderAlways ==
  OlderSpec => []OInv
<1>1. Init => OInv
  BY StartsOlder
<1>2. OInv /\ [OlderNext]_vars => OInv'
  BY StepOlder
<1> QED
  BY <1>1, <1>2, PTL DEF OlderSpec

(* The bulk removals keep every index of the segment inside its array, and *)
(* the counter inside the table.                                           *)
THEOREM OlderTypeCorrect == OlderSpec => []TypeOK
<1>1. OInv => TypeOK
  BY DEF OInv, QInv, TInv
<1> QED
  BY <1>1, OlderAlways, PTL

(* They leak no bucket and leave none to two entries.                      *)
THEOREM OlderNoBucketLeaked == OlderSpec => []BucketsOwned
<1>1. OInv => BucketsOwned
  BY DEF OInv, QInv, TInv
<1> QED
  BY <1>1, OlderAlways, PTL

(* A candidate that is gone already, or that was never set, is not counted *)
(* as removed: the counter stays the number of used entries.               *)
THEOREM OlderCountIsExact == OlderSpec => []CountExact
<1>1. OInv => CountExact
  BY DEF OInv, QInv, TInv
<1> QED
  BY <1>1, OlderAlways, PTL

(* So an insert finds its bucket and its collision slot after them too.    *)
THEOREM OlderInsertFindsRoom == OlderSpec => []RoomForInsert
<1>1. OInv => RoomForInsert
  BY Room DEF OInv, QInv, TInv
<1> QED
  BY <1>1, OlderAlways, PTL

(* They lose no entry from the chains and put none on two.                 *)
THEOREM OlderChainsHoldAllEntries == OlderSpec => []ChainsPartitionEntries
<1>1. OInv => ChainsPartitionEntries
  BY ChainsPartition DEF OInv, QInv
<1> QED
  BY <1>1, OlderAlways, PTL

(* The field a bulk removal goes back to entries by stays right through    *)
(* the bulk removals themselves, which copy entries to other places.       *)
THEOREM OlderEntriesKnowTheirPlace == OlderSpec => []PositionsRight
<1>1. OInv => PositionsRight
  BY DEF OInv, QInv, TInv
<1> QED
  BY <1>1, OlderAlways, PTL

(* For every table length, hash, set of keys and set of percentages: a     *)
(* bulk removal takes from each queue some of its oldest values and leaves *)
(* the others in their order, though it removes by places that its own     *)
(* removals have changed; all other calls do what they do without it.      *)
THEOREM OlderImplementsQueues == OlderSpec => ImplementsKeyFifo
<1>1. Init => OInv /\ Fifo!Init
  BY StartsOlder
<1>2. OInv /\ [OlderNext]_vars => OInv' /\ [Fifo!Next]_Fifo!vars
  BY StepOlder
<1> QED
  BY <1>1, <1>2, PTL DEF OlderSpec, ImplementsKeyFifo, Fifo!Spec

-------------------------------------------------------------------------------
(* How many entries there are of a second                                  *)

AllFrom(ent, second) == \A t \in UsedIn(ent) : second <= ent[t].sec

OfSecond(ent, second) == {t \in Slots : ent[t].used /\ ent[t].sec = second}

LEMMA SinceIsCardinality ==
  ASSUME NEW ent, NEW second
  PROVE  /\ Since(ent, second) = Cardinality(OfSecond(ent, second))
         /\ IsFiniteSet(OfSecond(ent, second)) /\ Since(ent, second) \in Nat
<1>1. IsFiniteSet(OfSecond(ent, second))
  BY Sizes, FS_Subset DEF OfSecond
<1> QED
  BY <1>1, FS_CardinalityType DEF Since, OfSecond

\* A removal takes one entry out of the second of the entry found, however
\* it moves the others.
LEMMA SinceStep ==
  ASSUME NEW ent, NEW f, NEW s \in UsedIn(ent), NEW g \in Slots,
         FreesIn(ent, f, s, g), FreesChainIn(ent, f, s, g), NEW second
  PROVE  Since(f, second) = IF ent[s].sec = second THEN Since(ent, second) - 1
                            ELSE Since(ent, second)
<1> DEFINE A == OfSecond(ent, second)
           B == OfSecond(f, second)
<1>1. /\ Since(ent, second) = Cardinality(A) /\ Since(f, second) = Cardinality(B)
      /\ IsFiniteSet(A) /\ IsFiniteSet(B) /\ Cardinality(A) \in Nat
  BY SinceIsCardinality
<1>2. /\ \A t \in Slots : t \in A <=> ent[t].used /\ ent[t].sec = second
      /\ \A t \in Slots : t \in B <=> f[t].used /\ f[t].sec = second
      /\ A \subseteq Slots /\ B \subseteq Slots
      /\ s \in Slots /\ ent[s].used /\ g \in UsedIn(ent) /\ ent[g].used
  BY DEF OfSecond, UsedIn, FreesIn
<1>3. \A t \in Slots : t \in B <=>
        /\ ent[t].used /\ t # g
        /\ (IF t = s THEN ent[g].sec ELSE ent[t].sec) = second
  BY <1>2 DEF FreesIn, FreesChainIn, UsedIn
<1> HIDE DEF A, B
<1>4. CASE ent[s].sec = second
  <2>1. CASE g = s \/ ent[g].sec # second
    <3>1. B = A \ {s} /\ s \in A
      BY <1>2, <1>3, <1>4, <2>1
    <3> QED
      BY <1>1, <1>4, <3>1, FS_RemoveElement
  <2>2. CASE g # s /\ ent[g].sec = second
    <3>1. B = A \ {g} /\ g \in A
      BY <1>2, <1>3, <1>4, <2>2
    <3> QED
      BY <1>1, <1>4, <3>1, FS_RemoveElement
  <2> QED
    BY <2>1, <2>2
<1>5. CASE ent[s].sec # second
  <2>1. CASE g = s \/ ent[g].sec # second
    <3>1. B = A
      BY <1>2, <1>3, <1>5, <2>1
    <3> QED
      BY <1>1, <1>5, <3>1
  <2>2. CASE g # s /\ ent[g].sec = second
    <3>1. B = (A \ {g}) \cup {s} /\ g \in A /\ s \notin A
      BY <1>2, <1>3, <1>5, <2>2
    <3>2. Cardinality(A \ {g}) = Cardinality(A) - 1 /\ IsFiniteSet(A \ {g})
      BY <1>1, <3>1, FS_RemoveElement
    <3>3. Cardinality(B) = Cardinality(A \ {g}) + 1
      BY <3>1, <3>2, FS_AddElement
    <3> QED
      BY <1>1, <1>5, <3>2, <3>3
  <2> QED
    BY <2>1, <2>2
<1> QED
  BY <1>4, <1>5

\* The place u still has key k, under which some entry is of that second, and
\* so is the entry in u if it is used.
Named(ent, u, k, second) ==
  /\ ent[u].key = k
  /\ ent[u].used => ent[u].sec = second
  /\ \E v \in UsedIn(ent) : ent[v].key = k /\ ent[v].sec = second

LEMMA NamedStays ==
  ASSUME NEW ent, NEW f, NEW s \in UsedIn(ent), NEW g \in Slots,
         FreesIn(ent, f, s, g), FreesChainIn(ent, f, s, g), NEW second,
         ent[s].sec # second, NEW u \in Slots, NEW k, Named(ent, u, k, second)
  PROVE  Named(f, u, k, second)
<1>1. /\ g \in UsedIn(ent) /\ UsedIn(f) = UsedIn(ent) \ {g}
      /\ \A t \in UsedIn(ent) \ {g} :
           /\ f[t].key = IF t = s THEN ent[g].key ELSE ent[t].key
           /\ f[t].sec = IF t = s THEN ent[g].sec ELSE ent[t].sec
      /\ \A t \in Slots \ {s} : f[t].key = ent[t].key
  BY DEF FreesIn, FreesChainIn, UsedIn
<1>2. u # s
  BY DEF Named, UsedIn
<1>3. f[u].key = k
  BY <1>1, <1>2 DEF Named
<1>4. f[u].used => f[u].sec = second
  BY <1>1, <1>2 DEF Named, UsedIn
<1>5. PICK v \in UsedIn(ent) : ent[v].key = k /\ ent[v].sec = second
  BY DEF Named
<1>6. CASE v = g
  <2>1. s \in UsedIn(f) /\ f[s].key = k /\ f[s].sec = second
    BY <1>1, <1>5, <1>6
  <2> QED
    BY <1>3, <1>4, <2>1 DEF Named
<1>7. CASE v # g
  <2>1. v \in UsedIn(f) /\ f[v].key = k /\ f[v].sec = second
    BY <1>1, <1>5, <1>7
  <2> QED
    BY <1>3, <1>4, <2>1 DEF Named
<1> QED
  BY <1>6, <1>7

LEMMA AllFromStays ==
  ASSUME NEW ent, NEW f, NEW s \in UsedIn(ent), NEW g \in Slots,
         FreesIn(ent, f, s, g), FreesChainIn(ent, f, s, g), NEW second, AllFrom(ent, second)
  PROVE  AllFrom(f, second)
<1>1. /\ g \in UsedIn(ent) /\ UsedIn(f) = UsedIn(ent) \ {g}
      /\ \A t \in UsedIn(ent) \ {g} :
           f[t].sec = IF t = s THEN ent[g].sec ELSE ent[t].sec
  BY DEF FreesIn, FreesChainIn, UsedIn
<1> QED
  BY <1>1 DEF AllFrom

\* The seconds rise along a chain, so the first entry of a key is its oldest.
LEMMA FoundIsOldest ==
  ASSUME NEW ent, NEW bkt, NEW cnt, QIn(ent, bkt, cnt), OrderIn(ent),
         NEW second \in Nat, AllFrom(ent, second),
         NEW v \in UsedIn(ent), ent[v].sec = second, NEW k \in Keys, ent[v].key = k
  PROVE  Matches(ent, k) # {} /\ ent[Found(ent, k)].sec = second
<1>1. /\ TIn(ent, bkt, cnt) /\ CIn(ent) /\ TypedIn(ent, bkt, cnt) /\ LinksIn(ent)
      /\ HeadsIn(ent) /\ KeepIn(ent)
  BY DEF QIn, TIn, CIn
<1>2. PICK i \in Primary, n \in 0..N+1 : ent[i].used /\ Walk(ent, i)[n] = v
  BY <1>1, OnItsChainIn
<1>3. v # NIL /\ N \in Nat
  BY Sizes DEF UsedIn
<1>4. Index[k] = i
  <2>1. Index[ent[Walk(ent, i)[n]].key] = i
    BY <1>1, <1>2, <1>3, WalkKeepsIndexIn
  <2> QED
    BY <1>2, <2>1
<1>5. PICK w : w = Walk(ent, i)
  OBVIOUS
<1>6. /\ \A m \in 0..N+1 : w[m] \in UsedIn(ent) \cup {NIL}
      /\ \A m \in 1..N+1 : w[m] # NIL =>
           /\ m - 1 \in 0..N+1 /\ w[m-1] \in UsedIn(ent)
           /\ ent[w[m-1]].next # NIL /\ w[m] = N + ent[w[m-1]].next
  BY <1>1, <1>2, <1>5, WalkStepsIn
<1>7. n \in 0..N
  <2>1. w[N] = NIL
    BY <1>1, <1>2, <1>5, WalkEndsIn
  <2>2. n # N + 1
    <3>1. SUFFICES ASSUME n = N + 1 PROVE FALSE
      OBVIOUS
    <3>2. n \in 1..N+1 /\ n - 1 = N /\ w[n] # NIL
      BY <1>2, <1>3, <1>5, <3>1
    <3>3. w[N] \in UsedIn(ent)
      BY <1>6, <3>2
    <3> QED
      BY <2>1, <3>3, LinkFactsIn, <1>1
  <2> QED
    BY <1>2, <1>3, <2>2
<1>8. n \in Matches(ent, k)
  <2>1. ListOf(ent, bkt, i)[n] = <<ent[v].key, bkt[ent[v].bucket].val>>
    BY <1>2, <1>3, <1>7 DEF ListOf, Pair
  <2>2. ListOf(ent, bkt, i)[n][1] = k
    BY <2>1
  <2>3. Matches(ent, k) = {m \in 0..N : ListOf(ent, bkt, i)[m][1] = k}
    BY <1>1, <1>4, MatchPlaces
  <2> QED
    BY <1>7, <2>2, <2>3
<1>9. PICK p \in Nat : p = FirstMatch(ent, k)
  BY <1>1, <1>8, FoundFacts, <1>3
<1>10. p <= n /\ Found(ent, k) = w[p]
  <2>1. Matches(ent, k) \in SUBSET Nat
    BY <1>3 DEF Matches, Visits
  <2>2. \E m \in Matches(ent, k) : \A l \in Matches(ent, k) : m <= l
    BY <1>8, <2>1, LeastExists
  <2>3. p <= n
    BY <1>8, <1>9, <2>2 DEF FirstMatch
  <2> QED
    BY <1>4, <1>5, <1>9, <2>3 DEF Found
<1>11. \A m \in 0..n : w[m] \in UsedIn(ent)
  <2>1. Matches(ent, k) \subseteq Visits(ent, k)
    BY DEF Matches
  <2>2. \A m \in 0..n : w[m] # NIL
    BY <1>4, <1>5, <1>8, <2>1 DEF Visits
  <2>3. \A m \in 0..n : m \in 0..N+1
    BY <1>3, <1>7
  <2> QED
    BY <1>6, <2>2, <2>3
<1> DEFINE S == {m \in Nat : m <= n => ent[w[p]].sec <= ent[w[m]].sec}
<1>12. \A m \in p..n : m \in S
  <2>0. \A t \in UsedIn(ent) : ent[t].sec \in Nat
    BY <1>1 DEF TypedIn, UsedIn, Entry
  <2>1. p \in S /\ S \in SUBSET Nat /\ n \in Nat
    BY <1>3, <1>7, <1>9, <1>10, <1>11, <2>0
  <2>2. ASSUME NEW m \in p..n, m < n, m \in S
        PROVE  m + 1 \in S
    <3>1. m + 1 \in 1..N+1 /\ (m + 1) - 1 = m /\ m + 1 \in 0..n /\ m \in 0..n
      BY <1>3, <1>7, <1>9, <2>2
    <3>2. w[m+1] # NIL
      BY <1>1, <1>11, <3>1, LinkFactsIn
    <3>3. ent[w[m]].next # NIL /\ w[m+1] = N + ent[w[m]].next /\ w[m] \in UsedIn(ent)
      BY <1>6, <3>1, <3>2
    <3>4. ent[w[m]].sec <= ent[w[m+1]].sec
      BY <3>3 DEF OrderIn
    <3>5. ent[w[p]].sec \in Nat /\ ent[w[m]].sec \in Nat /\ ent[w[m+1]].sec \in Nat
      BY <1>9, <1>10, <1>11, <2>0, <2>1, <3>1
    <3>6. ent[w[p]].sec <= ent[w[m]].sec
      BY <2>1, <2>2, <3>1
    <3> QED
      BY <3>1, <3>4, <3>5, <3>6
  <2> HIDE DEF S
  <2> QED
    BY <1>9, <2>1, <2>2, Upwards
<1>13. ent[w[p]].sec <= second /\ w[p] \in UsedIn(ent)
  <2>1. n \in p..n /\ p \in 0..n
    BY <1>3, <1>7, <1>9, <1>10
  <2>2. n \in S /\ n <= n /\ w[n] = v
    BY <1>2, <1>3, <1>5, <1>7, <1>12, <2>1
  <2> QED
    BY <1>11, <2>1, <2>2
<1>14. second <= ent[w[p]].sec /\ ent[w[p]].sec \in Nat
  BY <1>1, <1>13 DEF AllFrom, TypedIn, UsedIn, Entry
<1> QED
  BY <1>8, <1>10, <1>13, <1>14

-------------------------------------------------------------------------------
(* One of the oldest goes                                                  *)

\* what one removal of the list does to the entries of the oldest second
OldestStep(e, f, u, second) ==
  /\ AllFrom(f, second)
  /\ \/ Since(f, second) = Since(e, second) - 1
     \/ /\ Since(f, second) = Since(e, second)
        /\ \A x \in Slots, k \in Keys : Named(e, x, k, second) => Named(f, x, k, second)
  /\ \A k \in Keys : Named(e, u, k, second) => Since(f, second) = Since(e, second) - 1

LEMMA PlaceStep ==
  ASSUME NEW h, Sound(h), NEW c, c.slot \in Slots, NEW second \in Nat,
         AllFrom(h.entries, second)
  PROVE  OldestStep(h.entries, RemovePlace(h, c).entries, c.slot, second)
<1> DEFINE e == h.entries
           f == RemovePlace(h, c).entries
           x == c.slot
           k == e[x].key
<1>1. /\ QIn(e, h.buckets, h.entrycount) /\ OrderIn(e)
      /\ TypedIn(e, h.buckets, h.entrycount) /\ LinksIn(e)
  BY DEF Sound, QIn, TIn
<1>2. ASSUME NEW j \in Keys, Named(e, x, j, second)
      PROVE  j = k /\ Matches(e, k) # {} /\ e[Found(e, k)].sec = second
  <2>1. j = k
    BY <1>2 DEF Named
  <2>2. PICK v \in UsedIn(e) : e[v].key = j /\ e[v].sec = second
    BY <1>2 DEF Named
  <2> QED
    BY <1>1, <2>1, <2>2, FoundIsOldest
<1>3. CASE Matches(e, k) = {}
  <2>1. f = e
    BY <1>3, PlaceRemoved
  <2> HIDE DEF f, e, x
  <2> QED
    BY <1>2, <1>3, <2>1 DEF OldestStep, e, x, f
<1>4. CASE Matches(e, k) # {}
  <2>1. k \in Keys /\ f = Unlink(e, k)
    BY <1>4, PlaceRemoved DEF OneOff
  <2>2. Found(e, k) \in UsedIn(e)
    BY <1>1, <1>4, <2>1, FoundFacts
  <2>3. PICK s \in UsedIn(e) : s = Found(e, k)
    BY <2>2
  <2> HIDE DEF f, e, x, k
  <2>4. PICK g \in Slots : FreesIn(e, f, s, g) /\ FreesChainIn(e, f, s, g)
    BY <1>1, <1>4, <2>1, <2>3, UnlinkFrees
  <2>5. AllFrom(f, second)
    BY <2>4, AllFromStays DEF e
  <2>6. Since(f, second) = IF e[s].sec = second THEN Since(e, second) - 1
                           ELSE Since(e, second)
    BY <2>4, SinceStep
  <2>7. ASSUME e[s].sec # second, NEW y \in Slots, NEW j \in Keys, Named(e, y, j, second)
        PROVE  Named(f, y, j, second)
    BY <2>4, <2>7, NamedStays
  <2>8. ASSUME NEW j \in Keys, Named(e, x, j, second)
        PROVE  e[s].sec = second
    BY <1>2, <2>3, <2>8
  <2>9. OldestStep(e, f, x, second)
    BY <2>5, <2>6, <2>7, <2>8 DEF OldestStep
  <2> QED
    BY <2>9 DEF e, f, x
<1> QED
  BY <1>3, <1>4

\* A call that is to delete something has one of the oldest entries of the
\* table among its candidates.
LEMMA OldestIsCandidate ==
  ASSUME OInv, NEW p \in Percents, Deletes(p) > 0, entrycount > 0
  PROVE  LET oldest == Lowest(SecsOf(entries))
         IN /\ oldest \in Nat /\ AllFrom(entries, oldest)
            /\ \E i \in 1..Deletes(p) :
                 /\ Candidates(p)[i].slot \in UsedIn(entries)
                 /\ entries[Candidates(p)[i].slot].sec = oldest
<1> DEFINE oldest == Lowest(SecsOf(entries))
           d == Deletes(p)
           c == Candidates(p)
<1>1. /\ TypeOK /\ PositionsRight /\ CountExact /\ clock \in Nat /\ clock <= MaxClock
      /\ MaxClock \in Nat /\ PastIn(entries) /\ N \in Nat /\ d \in Nat /\ d > 0
  BY TableAssumption, Sizes, DeletesTyped DEF OInv, QInv, TInv, InTime, TypeOK
<1>2. SecsOf(entries) = {entries[s].sec : s \in UsedIn(entries)}
  BY DEF SecsOf, UsedIn
<1>3. \A s \in UsedIn(entries) : entries[s].sec \in Nat /\ entries[s].sec <= clock
                                 /\ s \in 0..2*N-1
  BY <1>1 DEF TypeOK, UsedIn, Entry, PastIn, Slots
<1>4. UsedIn(entries) # {}
  <2>1. SUFFICES ASSUME UsedIn(entries) = {} PROVE FALSE
    OBVIOUS
  <2>2. entrycount = 0
    BY <1>1, <2>1, FS_EmptySet, InvIsTIn DEF CountExact
  <2> QED
    BY <2>2
<1>5. oldest \in SecsOf(entries) /\ \A m \in SecsOf(entries) : oldest <= m
  <2>1. SecsOf(entries) \in SUBSET Nat /\ SecsOf(entries) # {}
    BY <1>2, <1>3, <1>4
  <2>2. \E m \in SecsOf(entries) : \A n \in SecsOf(entries) : m <= n
    BY <2>1, LeastExists
  <2> QED
    BY <2>2 DEF Lowest
<1>6. PICK s \in UsedIn(entries) : entries[s].sec = oldest
  BY <1>2, <1>5
<1> HIDE DEF oldest
<1>7. oldest \in Nat /\ AllFrom(entries, oldest) /\ oldest <= clock
  BY <1>2, <1>3, <1>5, <1>6 DEF AllFrom
<1>8. GoodStore(c, d, 2*N)
  BY <1>1, CandidatesGood
<1> HIDE DEF c, d
<1>9. c \in [1..d -> Candidate] /\ (\A i \in 1..d : Honest(c[i])) /\ Covers(c, 2*N)
  BY <1>1, <1>8 DEF GoodStore
<1>10. PICK i \in 1..d : c[i].sec <= entries[s].sec
  <2>1. s < 2*N /\ DOMAIN c = 1..d
    BY <1>1, <1>3, <1>9
  <2> QED
    BY <1>9, <2>1 DEF Covers
<1>11. c[i].sec \in Nat /\ c[i].sec <= oldest
  BY <1>6, <1>9, <1>10 DEF Candidate
<1>12. c[i].slot \in UsedIn(entries) /\ entries[c[i].slot].sec = c[i].sec
  <2>1. c[i].sec # LongMax
    BY <1>1, <1>7, <1>11 DEF LongMax
  <2>2. Honest(c[i])
    BY <1>9
  <2> QED
    BY <2>1, <2>2 DEF Honest
<1>13. entries[c[i].slot].sec = oldest
  BY <1>7, <1>11, <1>12 DEF AllFrom
<1> QED
  BY <1>7, <1>12, <1>13 DEF oldest, c, d

\* Until the removal of that candidate its place keeps its key, or an entry of
\* the second is gone before.
LEMMA OldestGoes ==
  ASSUME OInv, NEW p \in Percents, Deletes(p) > 0, entrycount > 0
  PROVE  LET oldest == Lowest(SecsOf(entries))
         IN Since(Removals(p)[Deletes(p)].entries, oldest) < Since(entries, oldest)
<1> DEFINE d == Deletes(p)
           c == Candidates(p)
           h == Removals(p)
<1>1. d \in Nat /\ N \in Nat
  BY Sizes, DeletesTyped
<1>2. PICK oldest \in Nat : oldest = Lowest(SecsOf(entries)) /\ AllFrom(entries, oldest)
  BY OldestIsCandidate
<1>3. PICK i \in 1..d : c[i].slot \in UsedIn(entries) /\ entries[c[i].slot].sec = oldest
  BY <1>2, OldestIsCandidate
<1>4. PICK u \in UsedIn(entries) : u = c[i].slot /\ entries[u].sec = oldest
  BY <1>3
<1>5. u \in Slots /\ entries[u].key \in Keys
  BY DEF OInv, OrderIn, UsedIn
<1>6. PICK k \in Keys : k = entries[u].key
  BY <1>5
<1>7. h[0] = Segment /\ \A n \in 1..d : h[n] = RemovePlace(h[n-1], c[n])
  BY RemovalSteps
<1>8. \A n \in 1..d : c[n].slot \in Slots
  <2>1. TypeOK /\ PositionsRight
    BY DEF OInv, QInv, TInv
  <2>2. c \in [1..d -> Candidate]
    BY <2>1, CandidatesGood DEF GoodStore
  <2> HIDE DEF c, d
  <2> QED
    BY <2>2 DEF Candidate
<1>9. \A n \in 0..d : Sound(h[n])
  BY RemovalsSound
<1>10. \A e : Since(e, oldest) \in Nat
  BY SinceIsCardinality
<1> HIDE DEF d, c, h
<1> DEFINE S == {n \in Nat :
                   /\ AllFrom(h[n].entries, oldest)
                   /\ \/ Since(h[n].entries, oldest) < Since(entries, oldest)
                      \/ /\ Since(h[n].entries, oldest) = Since(entries, oldest)
                         /\ Named(h[n].entries, u, k, oldest) /\ n < i}
<1>11. 0 \in S
  <2>1. h[0].entries = entries
    BY <1>7 DEF Segment
  <2>2. Named(entries, u, k, oldest)
    BY <1>4, <1>6 DEF Named
  <2> QED
    BY <1>1, <1>2, <1>3, <2>1, <2>2
<1>12. ASSUME NEW n \in 0..d, n < d, n \in S
       PROVE  n + 1 \in S
  <2>1. n + 1 \in 1..d /\ (n + 1) - 1 = n /\ n + 1 \in Nat /\ n \in Nat
    BY <1>1, <1>12
  <2>2. h[n+1] = RemovePlace(h[n], c[n+1]) /\ c[n+1].slot \in Slots /\ Sound(h[n])
    BY <1>7, <1>8, <1>9, <2>1
  <2>3. AllFrom(h[n].entries, oldest)
    BY <1>12
  <2>4. OldestStep(h[n].entries, h[n+1].entries, c[n+1].slot, oldest)
    BY <2>2, <2>3, PlaceStep
  <2>5. PICK a \in Nat, b \in Nat, z \in Nat : /\ a = Since(h[n].entries, oldest)
                                               /\ b = Since(h[n+1].entries, oldest)
                                               /\ z = Since(entries, oldest)
    BY <1>10
  <2>6. AllFrom(h[n+1].entries, oldest)
        /\ (b = a - 1 \/ (b = a /\ (Named(h[n].entries, u, k, oldest)
                                      => Named(h[n+1].entries, u, k, oldest))))
        /\ (c[n+1].slot = u /\ Named(h[n].entries, u, k, oldest) => b = a - 1)
    BY <1>5, <2>4, <2>5 DEF OldestStep
  <2>7. a < z \/ (a = z /\ Named(h[n].entries, u, k, oldest) /\ n < i)
    BY <1>12, <2>5
  <2>8. n + 1 = i => c[n+1].slot = u
    BY <1>4
  <2>9. b < z \/ (b = z /\ Named(h[n+1].entries, u, k, oldest) /\ n + 1 < i)
    <3>1. CASE a < z
      BY <2>6, <3>1
    <3>2. CASE a = z /\ Named(h[n].entries, u, k, oldest) /\ n < i
      <4>1. CASE b = a - 1
        BY <3>2, <4>1
      <4>2. CASE b # a - 1
        <5>1. b = z /\ Named(h[n+1].entries, u, k, oldest) /\ n + 1 # i
          BY <2>6, <2>8, <3>2, <4>2
        <5> QED
          BY <1>1, <1>3, <2>1, <3>2, <5>1
      <4> QED
        BY <4>1, <4>2
    <3> QED
      BY <2>7, <3>1, <3>2
  <2> QED
    BY <2>1, <2>5, <2>6, <2>9
<1>13. \A n \in 0..d : n \in S
  <2> HIDE DEF S
  <2>1. S \in SUBSET Nat /\ 0 \in Nat
    BY DEF S
  <2> QED
    BY <1>1, <1>11, <1>12, <2>1, Upwards
<1>14. d \in 0..d /\ ~(d < i)
  BY <1>1, <1>3
<1>15. Since(h[d].entries, oldest) < Since(entries, oldest)
  BY <1>13, <1>14
<1> QED
  BY <1>2, <1>15 DEF d, h

(* A call of shmht_remove_older_entries that is to delete something from a *)
(* table that has something erases one of its oldest entries, for every    *)
(* table length, hash and percentage, as long as the clock does not go     *)
(* back: also when removals before it have moved that entry elsewhere.     *)
THEOREM OlderErasesAnOldest == OlderSpec => AnOldestErased
<1> DEFINE Erased == Pruned /\ ret'[2] > 0 /\ entrycount > 0 =>
             LET oldest == Lowest(SecsOf(entries))
             IN Since(entries', oldest) < Since(entries, oldest)
<1>1. ASSUME OInv, OlderNext
      PROVE  Erased
  <2>1. ASSUME NEW p \in Percents, RemoveOlder(p)
        PROVE  Erased
    <3>1. entries' = Removals(p)[Deletes(p)].entries /\ ret' = <<"older", Deletes(p)>>
      BY <2>1 DEF RemoveOlder
    <3>2. ret'[2] = Deletes(p)
      BY <3>1
    <3> QED
      BY <1>1, <3>1, <3>2, OldestGoes
  <2>2. CASE Next
    <3>1. clock \in Nat
      BY <1>1 DEF OInv, QInv, TInv, TypeOK
    <3>2. ~Pruned
      <4>1. CASE Tick
        BY <3>1, <4>1 DEF Tick, Pruned
      <4>2. ASSUME NEW k \in Keys, Search(k)
            PROVE  ~Pruned
        <5>1. ret'[1] = "search"
          BY <4>2 DEF Search
        <5> QED
          BY <5>1 DEF Pruned
      <4>3. ASSUME NEW k \in Keys, Remove(k)
            PROVE  ~Pruned
        <5>1. ret'[1] = "remove"
          BY <4>3 DEF Remove
        <5> QED
          BY <5>1 DEF Pruned
      <4>4. ASSUME NEW k \in Keys, NEW v \in Values, Insert(k, v) \/ InsertRefused(k, v)
            PROVE  ~Pruned
        <5>1. ret'[1] = "insert"
          BY <4>4 DEF Insert, InsertRefused
        <5> QED
          BY <5>1 DEF Pruned
      <4>5. CASE Count
        <5>1. ret'[1] = "count"
          BY <4>5 DEF Count
        <5> QED
          BY <5>1 DEF Pruned
      <4>6. CASE Flush
        <5>1. ret'[1] = "flush"
          BY <4>6 DEF Flush
        <5> QED
          BY <5>1 DEF Pruned
      <4> QED
        BY <2>2, <4>1, <4>2, <4>3, <4>4, <4>5, <4>6 DEF Next
    <3> QED
      BY <3>2
  <2> QED
    BY <1>1, <2>1, <2>2 DEF OlderNext
<1>2. OInv /\ [OlderNext]_vars => [Erased]_vars
  BY <1>1
<1> QED
  BY <1>2, OlderAlways, PTL DEF OlderSpec, AnOldestErased
===============================================================================
