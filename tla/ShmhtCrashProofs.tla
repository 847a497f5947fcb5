--------------------------- MODULE ShmhtCrashProofs ---------------------------
(***************************************************************************)
(* Proofs about calls killed half-way (ShmhtCrash), for every table length,*)
(* key set and hash.  A call that makes all its stores is the step of      *)
(* ShmhtTable, so a table of which no call was killed is as sound as that. *)
(* Of any other table there are two things left: its links, those in       *)
(* unused entries included, go round in no circle, since a call links only *)
(* to an entry that leads nowhere and takes links out by shortcuts; and at *)
(* most one used entry is not counted.                                     *)
(***************************************************************************)
EXTENDS ShmhtCrash, ShmhtTableProofs

-------------------------------------------------------------------------------
(* What a list of stores makes of a table, store by store                  *)

\* f solves the recursion of After up to m
AfterUpTo(f, h, stores, m) ==
  /\ f = [n \in 0..m |-> f[n]] /\ f[0] = h
  /\ \A n \in 1..m : f[n] = Apply(f[n-1], stores[n])

\* The recursion of After has a solution up to every length.
LEMMA AfterPrefixes ==
  ASSUME NEW h, NEW stores, Len(stores) \in Nat, NEW m \in 0..Len(stores)
  PROVE  \E f : AfterUpTo(f, h, stores, m)
<1> DEFINE S == {i \in Nat : \E f : AfterUpTo(f, h, stores, i)}
<1>1. 0 \in S
  <2>1. AfterUpTo([n \in 0..0 |-> h], h, stores, 0)
    BY DEF AfterUpTo
  <2> QED
    BY <2>1
<1>2. ASSUME NEW i \in 0..m, i < m, i \in S
      PROVE  i + 1 \in S
  <2>1. PICK f : AfterUpTo(f, h, stores, i)
    BY <1>2
  <2> DEFINE x == Apply(f[i], stores[i+1])
             g == [n \in 0..i+1 |-> IF n = i + 1 THEN x ELSE f[n]]
  <2> HIDE DEF x
  <2>2. g = [n \in 0..i+1 |-> g[n]] /\ g[0] = h
    BY <1>2, <2>1 DEF AfterUpTo
  <2>3. ASSUME NEW n \in 1..i+1
        PROVE  g[n] = Apply(g[n-1], stores[n])
    <3>1. CASE n = i + 1
      <4>1. g[n] = x /\ g[n-1] = f[i] /\ n - 1 = i
        BY <1>2, <3>1
      <4> QED
        BY <3>1, <4>1 DEF x
    <3>2. CASE n \in 1..i
      <4>1. n \in 0..i+1 /\ n - 1 \in 0..i+1 /\ n # i + 1 /\ n - 1 # i + 1
        BY <1>2, <3>2
      <4>2. g[n] = f[n] /\ g[n-1] = f[n-1]
        BY <4>1
      <4>3. f[n] = Apply(f[n-1], stores[n])
        BY <2>1, <3>2 DEF AfterUpTo
      <4> QED
        BY <4>2, <4>3
    <3> QED
      BY <1>2, <2>3, <3>1, <3>2
  <2> HIDE DEF g
  <2>4. AfterUpTo(g, h, stores, i + 1)
    BY <2>2, <2>3 DEF AfterUpTo
  <2> QED
    BY <1>2, <2>4
<1>3. S \in SUBSET Nat /\ m \in Nat /\ m \in 0..m /\ 0 \in Nat
  OBVIOUS
<1>4. \A n \in 0..m : n \in S
  <2> HIDE DEF S
  <2> QED
    BY <1>1, <1>2, <1>3, Upwards
<1> QED
  BY <1>3, <1>4

\* After makes the stores one after the other.
LEMMA AfterSteps ==
  ASSUME NEW h, NEW stores, Len(stores) \in Nat
  PROVE  /\ After(h, stores)[0] = h
         /\ \A n \in 1..Len(stores) :
              After(h, stores)[n] = Apply(After(h, stores)[n-1], stores[n])
<1> DEFINE l == Len(stores)
           Rec(f) == f = [n \in 0..l |-> IF n = 0 THEN h ELSE Apply(f[n-1], stores[n])]
           a == After(h, stores)
<1>1. PICK f : AfterUpTo(f, h, stores, l)
  <2>1. l \in 0..l
    OBVIOUS
  <2> QED
    BY <2>1, AfterPrefixes
<1>2. Rec(f)
  <2>1. \A n \in 0..l : n = 0 \/ n \in 1..l
    OBVIOUS
  <2>2. f = [n \in 0..l |-> f[n]]
    BY <1>1 DEF AfterUpTo
  <2>3. \A n \in 0..l : f[n] = IF n = 0 THEN h ELSE Apply(f[n-1], stores[n])
    BY <1>1, <2>1 DEF AfterUpTo
  <2> QED
    BY <2>2, <2>3
<1>3. a = CHOOSE f2 : Rec(f2)
  BY DEF After
<1>4. Rec(a)
  BY <1>2, <1>3
<1> HIDE DEF a
<1>5. a[0] = h
  BY <1>4
<1>6. \A n \in 1..l : a[n] = Apply(a[n-1], stores[n])
  <2>1. \A n \in 1..l : n \in 0..l /\ n # 0
    OBVIOUS
  <2> QED
    BY <1>4, <2>1
<1> QED
  BY <1>5, <1>6 DEF a

\* the table is in S[n] after n stores, up to r of them
Stages(S, h, stores, r) ==
  /\ h \in S[0]
  /\ \A n \in 1..r : \A g \in S[n-1] : Apply(g, stores[n]) \in S[n]

\* If each store leads from one stage to the next, so do all.
LEMMA AfterStages ==
  ASSUME NEW S, NEW h, NEW stores, Len(stores) \in Nat,
         NEW r \in 0..Len(stores), Stages(S, h, stores, r)
  PROVE  \A n \in 0..r : After(h, stores)[n] \in S[n]
<1> DEFINE a == After(h, stores)
           l == Len(stores)
           T == {n \in Nat : a[n] \in S[n]}
<1>1. a[0] = h /\ \A n \in 1..l : a[n] = Apply(a[n-1], stores[n])
  BY AfterSteps
<1> HIDE DEF a
<1>2. 0 \in T /\ T \in SUBSET Nat /\ r \in Nat
  BY <1>1 DEF Stages
<1>3. ASSUME NEW n \in 0..r, n < r, n \in T
      PROVE  n + 1 \in T
  <2>1. n + 1 \in 1..l /\ n + 1 \in 1..r /\ (n + 1) - 1 = n /\ n + 1 \in Nat
    BY <1>3
  <2>2. a[n+1] = Apply(a[n], stores[n+1]) /\ a[n] \in S[n]
    BY <1>1, <1>3, <2>1
  <2>3. a[n+1] \in S[n+1]
    BY <2>1, <2>2 DEF Stages
  <2> QED
    BY <2>1, <2>3
<1>4. \A n \in 0..r : n \in T
  <2> HIDE DEF T
  <2> QED
    BY <1>2, <1>3, Upwards
<1> QED
  BY <1>4 DEF a

\* a list of stores after another
Joined(h, s, t) ==
  /\ Len(s \o t) = Len(s) + Len(t)
  /\ \A n \in 0..Len(s) : After(h, s \o t)[n] = After(h, s)[n]
  /\ \A n \in 0..Len(t) : After(h, s \o t)[Len(s) + n] = After(ApplyAll(h, s), t)[n]

\* A list in two parts: the second starts where the first ended.
LEMMA AfterBoth ==
  ASSUME NEW h, NEW X, NEW s \in Seq(X), NEW t \in Seq(X)
  PROVE  Joined(h, s, t)
<1> DEFINE u == s \o t
           a == After(h, u)
           b == After(h, s)
           c == After(ApplyAll(h, s), t)
<1>1. /\ Len(u) = Len(s) + Len(t) /\ Len(s) \in Nat /\ Len(t) \in Nat
      /\ \A n \in 1..Len(s) : u[n] = s[n]
      /\ \A n \in 1..Len(t) : u[Len(s) + n] = t[n]
  OBVIOUS
<1> HIDE DEF u
<1>u. Len(u) \in Nat
  BY <1>1
<1>a. a[0] = h /\ \A n \in 1..Len(u) : a[n] = Apply(a[n-1], u[n])
  BY <1>u, AfterSteps
<1>b. b[0] = h /\ \A n \in 1..Len(s) : b[n] = Apply(b[n-1], s[n])
  BY <1>1, AfterSteps
<1>c. c[0] = b[Len(s)] /\ \A n \in 1..Len(t) : c[n] = Apply(c[n-1], t[n])
  BY <1>1, AfterSteps DEF ApplyAll
<1> HIDE DEF a, b, c
<1>3. \A n \in 0..Len(s) : a[n] = b[n]
  <2> DEFINE T == {n \in Nat : a[n] = b[n]}
  <2>1. 0 \in T /\ T \in SUBSET Nat
    BY <1>a, <1>b
  <2>2. ASSUME NEW n \in 0..Len(s), n < Len(s), n \in T
        PROVE  n + 1 \in T
    <3>1. n + 1 \in 1..Len(s) /\ n + 1 \in 1..Len(u) /\ (n + 1) - 1 = n /\ n + 1 \in Nat
      BY <1>1, <2>2
    <3>2. a[n+1] = Apply(a[n], u[n+1]) /\ b[n+1] = Apply(b[n], s[n+1]) /\ a[n] = b[n]
      BY <1>a, <1>b, <1>c, <2>2, <3>1
    <3> QED
      BY <1>1, <3>1, <3>2
  <2> HIDE DEF T
  <2>3. \A n \in 0..Len(s) : n \in T
    BY <1>1, <2>1, <2>2, Upwards
  <2> QED
    BY <2>3 DEF T
<1>4. \A n \in 0..Len(t) : a[Len(s) + n] = c[n]
  <2> DEFINE T == {n \in Nat : a[Len(s) + n] = c[n]}
  <2>1. 0 \in T /\ T \in SUBSET Nat
    BY <1>1, <1>a, <1>b, <1>c, <1>3
  <2>2. ASSUME NEW n \in 0..Len(t), n < Len(t), n \in T
        PROVE  n + 1 \in T
    <3>1. /\ n + 1 \in 1..Len(t) /\ Len(s) + (n + 1) \in 1..Len(u)
          /\ (n + 1) - 1 = n /\ n + 1 \in Nat /\ (Len(s) + (n + 1)) - 1 = Len(s) + n
      BY <1>1, <2>2
    <3>2. /\ a[Len(s) + (n + 1)] = Apply(a[Len(s) + n], u[Len(s) + (n + 1)])
          /\ c[n+1] = Apply(c[n], t[n+1]) /\ a[Len(s) + n] = c[n]
      BY <1>a, <1>b, <1>c, <2>2, <3>1
    <3> QED
      BY <1>1, <3>1, <3>2
  <2> HIDE DEF T
  <2>3. \A n \in 0..Len(t) : n \in T
    BY <1>1, <2>1, <2>2, Upwards
  <2> QED
    BY <2>3 DEF T
<1> QED
  BY <1>1, <1>3, <1>4 DEF u, a, b, c, Joined

-------------------------------------------------------------------------------
(* What one store does to a table                                          *)

Tables == [entries : [Slots -> Entry], buckets : [Primary -> Bucket], entrycount : 0..Word-1]

\* a is the table g with e in place of entry x
Puts(a, g, x, e) ==
  /\ a \in Tables /\ a.entries[x] = e
  /\ \A t \in Slots : t # x => a.entries[t] = g.entries[t]
  /\ a.buckets = g.buckets /\ a.entrycount = g.entrycount

\* a table as a record
LEMMA TableFields ==
  ASSUME NEW g \in Tables
  PROVE  /\ g.entries \in [Slots -> Entry] /\ g.buckets \in [Primary -> Bucket]
         /\ g.entrycount \in 0..Word-1
         /\ g = [entries |-> g.entries, buckets |-> g.buckets, entrycount |-> g.entrycount]
BY DEF Tables

\* what one store to an entry, a bucket, the counter makes of a table
LEMMA EntryStore ==
  ASSUME NEW g \in Tables, NEW x \in Slots, NEW f, NEW v
  PROVE  Apply(g, InEntry(x, f, v)) =
           [entries |-> [g.entries EXCEPT ![x] = [g.entries[x] EXCEPT ![f] = v]],
            buckets |-> g.buckets, entrycount |-> g.entrycount]
BY DEF Apply, InEntry, Tables

\* a store of the right type changes that entry only
LEMMA PutsEntry ==
  ASSUME NEW g \in Tables, NEW x \in Slots, NEW e \in Entry
  PROVE  Puts([entries |-> [g.entries EXCEPT ![x] = e],
               buckets |-> g.buckets, entrycount |-> g.entrycount], g, x, e)
<1> DEFINE f == [g.entries EXCEPT ![x] = e]
<1>1. /\ f \in [Slots -> Entry] /\ f[x] = e
      /\ \A t \in Slots : t # x => f[t] = g.entries[t]
  BY TableFields
<1> HIDE DEF f
<1>2. [entries |-> f, buckets |-> g.buckets, entrycount |-> g.entrycount] \in Tables
  BY <1>1, TableFields DEF Tables
<1> QED
  BY <1>1, <1>2 DEF Puts, f

LEMMA FieldStore ==
  ASSUME NEW g \in Tables, NEW x \in Slots
  PROVE  LET e == g.entries[x]
         IN /\ e \in Entry
            /\ \A v \in BOOLEAN :
                 Puts(Apply(g, InEntry(x, "used", v)), g, x, [e EXCEPT !.used = v])
            /\ \A v \in Keys \cup {NoKey} :
                 Puts(Apply(g, InEntry(x, "key", v)), g, x, [e EXCEPT !.key = v])
            /\ \A v \in NIL..N-1 :
                 Puts(Apply(g, InEntry(x, "next", v)), g, x, [e EXCEPT !.next = v])
            /\ \A v \in Primary :
                 /\ Puts(Apply(g, InEntry(x, "bucket", v)), g, x, [e EXCEPT !.bucket = v])
                 /\ Puts(Apply(g, InEntry(x, "position", v)), g, x, [e EXCEPT !.position = v])
            /\ \A v \in Nat :
                 /\ Puts(Apply(g, InEntry(x, "size", v)), g, x, [e EXCEPT !.size = v])
                 /\ Puts(Apply(g, InEntry(x, "sec", v)), g, x, [e EXCEPT !.sec = v])
<1> DEFINE e == g.entries[x]
<1>1. e \in Entry
  BY TableFields
<1> HIDE DEF e
<1>2. \A d \in Entry :
        Puts([entries |-> [g.entries EXCEPT ![x] = d],
              buckets |-> g.buckets, entrycount |-> g.entrycount], g, x, d)
  BY PutsEntry
<1>3. \A v \in BOOLEAN : [e EXCEPT !.used = v] \in Entry
  BY <1>1 DEF Entry
<1>4. \A v \in Keys \cup {NoKey} : [e EXCEPT !.key = v] \in Entry
  BY <1>1 DEF Entry
<1>5. \A v \in NIL..N-1 : [e EXCEPT !.next = v] \in Entry
  BY <1>1 DEF Entry
<1>6. \A v \in Primary : [e EXCEPT !.bucket = v] \in Entry /\ [e EXCEPT !.position = v] \in Entry
  BY <1>1 DEF Entry, Primary
<1>7. \A v \in Nat : [e EXCEPT !.size = v] \in Entry /\ [e EXCEPT !.sec = v] \in Entry
  BY <1>1 DEF Entry
<1>8. \A f, v : Apply(g, InEntry(x, f, v)) =
                  [entries |-> [g.entries EXCEPT ![x] = [e EXCEPT ![f] = v]],
                   buckets |-> g.buckets, entrycount |-> g.entrycount]
  BY EntryStore DEF e
<1>9. /\ \A v : [e EXCEPT !["used"] = v] = [e EXCEPT !.used = v]
      /\ \A v : [e EXCEPT !["key"] = v] = [e EXCEPT !.key = v]
      /\ \A v : [e EXCEPT !["next"] = v] = [e EXCEPT !.next = v]
      /\ \A v : [e EXCEPT !["bucket"] = v] = [e EXCEPT !.bucket = v]
      /\ \A v : [e EXCEPT !["position"] = v] = [e EXCEPT !.position = v]
      /\ \A v : [e EXCEPT !["size"] = v] = [e EXCEPT !.size = v]
      /\ \A v : [e EXCEPT !["sec"] = v] = [e EXCEPT !.sec = v]
  OBVIOUS
<1>u. \A v \in BOOLEAN : Puts(Apply(g, InEntry(x, "used", v)), g, x, [e EXCEPT !.used = v])
  BY <1>2, <1>3, <1>8, <1>9
<1>k. \A v \in Keys \cup {NoKey} :
        Puts(Apply(g, InEntry(x, "key", v)), g, x, [e EXCEPT !.key = v])
  BY <1>2, <1>4, <1>8, <1>9
<1>n. \A v \in NIL..N-1 : Puts(Apply(g, InEntry(x, "next", v)), g, x, [e EXCEPT !.next = v])
  BY <1>2, <1>5, <1>8, <1>9
<1>b. \A v \in Primary :
        /\ Puts(Apply(g, InEntry(x, "bucket", v)), g, x, [e EXCEPT !.bucket = v])
        /\ Puts(Apply(g, InEntry(x, "position", v)), g, x, [e EXCEPT !.position = v])
  BY <1>2, <1>6, <1>8, <1>9
<1>s. \A v \in Nat :
        /\ Puts(Apply(g, InEntry(x, "size", v)), g, x, [e EXCEPT !.size = v])
        /\ Puts(Apply(g, InEntry(x, "sec", v)), g, x, [e EXCEPT !.sec = v])
  BY <1>2, <1>7, <1>8, <1>9
<1> QED
  BY <1>1, <1>u, <1>k, <1>n, <1>b, <1>s DEF e

WithBucket(g, b, u) ==
  [entries |-> g.entries, buckets |-> [g.buckets EXCEPT ![b] = u], entrycount |-> g.entrycount]

LEMMA BucketStore ==
  ASSUME NEW g \in Tables, NEW b \in Primary
  PROVE  /\ \A u \in Bucket : WithBucket(g, b, u) \in Tables
         /\ \A v \in BOOLEAN : Apply(g, InBucket(b, "used", v)) =
                    WithBucket(g, b, [g.buckets[b] EXCEPT !.used = v])
         /\ \A v : Apply(g, InBucket(b, "val", v)) =
                    WithBucket(g, b, [g.buckets[b] EXCEPT !.val = v])
<1>1. ASSUME NEW u \in Bucket PROVE WithBucket(g, b, u) \in Tables
  <2>1. [g.buckets EXCEPT ![b] = u] \in [Primary -> Bucket]
    BY TableFields
  <2> QED
    BY <2>1, TableFields DEF Tables, WithBucket
<1>2. \A v \in BOOLEAN : Apply(g, InBucket(b, "used", v)) =
            WithBucket(g, b, [g.buckets[b] EXCEPT !.used = v])
  BY DEF Apply, InBucket, Tables, WithBucket
<1>3. \A v : Apply(g, InBucket(b, "val", v)) =
            WithBucket(g, b, [g.buckets[b] EXCEPT !.val = v])
  BY DEF Apply, InBucket, Tables, WithBucket
<1> QED
  BY <1>1, <1>2, <1>3

LEMMA CountStore ==
  ASSUME NEW g \in Tables, NEW n \in 0..Word-1
  PROVE  /\ Apply(g, SetCount(n)) =
              [entries |-> g.entries, buckets |-> g.buckets, entrycount |-> n]
         /\ Apply(g, SetCount(n)) \in Tables
BY DEF Apply, SetCount, Tables

\* two changes of one entry
LEMMA PutsAgain ==
  ASSUME NEW a, NEW g, NEW h, NEW x, NEW d, NEW e, Puts(a, g, x, d), Puts(h, a, x, e)
  PROVE  Puts(h, g, x, e)
BY DEF Puts

Written(e, f, v) == [e EXCEPT ![f] = v]

\* entry x goes through E while the stores are made
Through(E, x, d, stores, r) ==
  /\ E[0] = d
  /\ \A n \in 0..r : E[n] \in Entry
  /\ \A n \in 1..r : \E f, v : /\ stores[n] = InEntry(x, f, v)
                                         /\ E[n] = Written(E[n-1], f, v)

\* a list of stores that all go to one entry
LEMMA OneEntryStores ==
  ASSUME NEW g \in Tables, NEW x \in Slots, NEW E, NEW l, Len(l) \in Nat,
         NEW r \in 0..Len(l), Through(E, x, g.entries[x], l, r)
  PROVE  \A n \in 0..r : Puts(After(g, l)[n], g, x, E[n])
<1> DEFINE S == [n \in 0..r |-> {a \in Tables : Puts(a, g, x, E[n])}]
<1>0. \A n \in 0..r : S[n] = {a \in Tables : Puts(a, g, x, E[n])}
  OBVIOUS
<1> HIDE DEF S
<1>1. g \in S[0]
  <2>1. 0 \in 0..r
    OBVIOUS
  <2>2. Puts(g, g, x, E[0])
    BY DEF Puts, Through
  <2> QED
    BY <1>0, <2>1, <2>2
<1>2. ASSUME NEW n \in 1..r, NEW a \in S[n-1] PROVE Apply(a, l[n]) \in S[n]
  <2>1. n - 1 \in 0..r /\ n \in 0..r
    OBVIOUS
  <2>2. a \in Tables /\ Puts(a, g, x, E[n-1])
    BY <1>0, <1>2, <2>1
  <2>3. PICK f, v : l[n] = InEntry(x, f, v) /\ E[n] = Written(E[n-1], f, v)
    BY DEF Through
  <2>4. E[n] \in Entry /\ a.entries[x] = E[n-1]
    BY <2>1, <2>2 DEF Through, Puts
  <2>5. Apply(a, l[n]) = [entries |-> [a.entries EXCEPT ![x] = E[n]],
                          buckets |-> a.buckets, entrycount |-> a.entrycount]
    BY <2>2, <2>3, <2>4, EntryStore DEF Written
  <2>6. Puts(Apply(a, l[n]), a, x, E[n])
    BY <2>2, <2>4, <2>5, PutsEntry
  <2>7. Puts(Apply(a, l[n]), g, x, E[n])
    BY <2>2, <2>6, PutsAgain
  <2>8. Apply(a, l[n]) \in Tables
    BY <2>7 DEF Puts
  <2> QED
    BY <1>0, <2>1, <2>7, <2>8
<1>3. Stages(S, g, l, r)
  BY <1>1, <1>2 DEF Stages
<1>4. \A n \in 0..r : After(g, l)[n] \in S[n]
  BY <1>3, AfterStages
<1> QED
  BY <1>0, <1>4

-------------------------------------------------------------------------------
(* The stores of the calls are typed                                       *)

Stores ==
  [in : {"entries"}, at : Slots, field : {"used"}, val : BOOLEAN]
  \cup [in : {"entries"}, at : Slots, field : {"key"}, val : Keys \cup {NoKey}]
  \cup [in : {"entries"}, at : Slots, field : {"next"}, val : NIL..N-1]
  \cup [in : {"entries"}, at : Slots, field : {"bucket", "position"}, val : Primary]
  \cup [in : {"entries"}, at : Slots, field : {"size", "sec"}, val : Nat]
  \cup [in : {"buckets"}, at : Primary, field : {"used"}, val : BOOLEAN]
  \cup [in : {"buckets"}, at : Primary, field : {"val"}, val : Nat]
  \cup [in : {"entrycount"}, val : 0..Word-1]

\* the stores a call makes have the right types
LEMMA StoresTyped ==
  /\ \A x \in Slots : /\ \A v \in BOOLEAN : InEntry(x, "used", v) \in Stores
                      /\ \A v \in Keys \cup {NoKey} : InEntry(x, "key", v) \in Stores
                      /\ \A v \in NIL..N-1 : InEntry(x, "next", v) \in Stores
                      /\ \A v \in Primary : /\ InEntry(x, "bucket", v) \in Stores
                                            /\ InEntry(x, "position", v) \in Stores
                      /\ \A v \in Nat : /\ InEntry(x, "size", v) \in Stores
                                        /\ InEntry(x, "sec", v) \in Stores
  /\ \A b \in Primary : /\ \A v \in BOOLEAN : InBucket(b, "used", v) \in Stores
                        /\ \A v \in Nat : InBucket(b, "val", v) \in Stores
  /\ \A n \in 0..Word-1 : SetCount(n) \in Stores
<1>1. ASSUME NEW x \in Slots, NEW v \in BOOLEAN PROVE InEntry(x, "used", v) \in Stores
  BY DEF InEntry, Stores
<1>2. ASSUME NEW x \in Slots, NEW v \in Keys \cup {NoKey} PROVE InEntry(x, "key", v) \in Stores
  BY DEF InEntry, Stores
<1>3. ASSUME NEW x \in Slots, NEW v \in NIL..N-1 PROVE InEntry(x, "next", v) \in Stores
  BY DEF InEntry, Stores
<1>4. ASSUME NEW x \in Slots, NEW v \in Primary
      PROVE  InEntry(x, "bucket", v) \in Stores /\ InEntry(x, "position", v) \in Stores
  BY DEF InEntry, Stores
<1>5. ASSUME NEW x \in Slots, NEW v \in Nat
      PROVE  InEntry(x, "size", v) \in Stores /\ InEntry(x, "sec", v) \in Stores
  BY DEF InEntry, Stores
<1>6. ASSUME NEW b \in Primary, NEW v \in BOOLEAN PROVE InBucket(b, "used", v) \in Stores
  BY DEF InBucket, Stores
<1>7. ASSUME NEW b \in Primary, NEW v \in Nat PROVE InBucket(b, "val", v) \in Stores
  BY DEF InBucket, Stores
<1>8. ASSUME NEW n \in 0..Word-1 PROVE SetCount(n) \in Stores
  BY DEF SetCount, Stores
<1> QED
  BY <1>1, <1>2, <1>3, <1>4, <1>5, <1>6, <1>7, <1>8

LEMMA EightStores ==
  ASSUME NEW X, NEW a \in X, NEW b \in X, NEW c \in X, NEW d \in X,
         NEW e \in X, NEW f \in X, NEW g \in X, NEW h \in X
  PROVE  LET l == <<a>> \o <<b, c>> \o <<d, e, f, g, h>>
         IN /\ l \in Seq(X) /\ Len(l) = 8 /\ l[1] = a /\ l[2] = b /\ l[3] = c /\ l[4] = d
            /\ l[5] = e /\ l[6] = f /\ l[7] = g /\ l[8] = h
<1>1. <<a>> \in Seq(X) /\ <<b, c>> \in Seq(X) /\ <<d, e, f, g, h>> \in Seq(X)
  OBVIOUS
<1> QED
  BY <1>1

LEMMA TenStores ==
  ASSUME NEW X, NEW a \in X, NEW b \in X, NEW c \in X, NEW d \in X, NEW e \in X,
         NEW f \in X, NEW g \in X, NEW h \in X, NEW i \in X, NEW j \in X
  PROVE  LET l == <<a>> \o <<b, c>> \o <<d, e, f, g, h, i, j>>
         IN /\ l \in Seq(X) /\ Len(l) = 10 /\ l[1] = a /\ l[2] = b /\ l[3] = c /\ l[4] = d
            /\ l[5] = e /\ l[6] = f /\ l[7] = g /\ l[8] = h /\ l[9] = i /\ l[10] = j
<1>1. <<a>> \in Seq(X) /\ <<b, c>> \in Seq(X) /\ <<d, e, f, g, h, i, j>> \in Seq(X)
  OBVIOUS
<1> QED
  BY <1>1

\* short lists of stores
LEMMA FewStores ==
  ASSUME NEW X, NEW a \in X, NEW b \in X
  PROVE  /\ <<a>> \in Seq(X) /\ Len(<<a>>) = 1 /\ <<a>>[1] = a
         /\ <<a, b>> \in Seq(X) /\ Len(<<a, b>>) = 2 /\ <<a, b>>[1] = a /\ <<a, b>>[2] = b
OBVIOUS

\* an entry, field by field
Made(u, k, n, b, p, z, s) ==
  [used |-> u, key |-> k, next |-> n, bucket |-> b, position |-> p, size |-> z, sec |-> s]

-------------------------------------------------------------------------------
(* Filling an entry                                                        *)

Place(x) == IF x \in Primary THEN x ELSE x - N

FillStores(x, k, v, b) ==
  IF x \in Primary THEN PrimaryStores(x, k, v, b) ELSE CollisionStores(x - N, k, v, b)

\* entry x, d before the call, after n of the stores
Filled(d, x, k, v, b, n) ==
  [used     |-> IF n >= 1 THEN TRUE ELSE d.used,
   key      |-> IF n >= 3 \/ (n = 2 /\ d.key = k) THEN k ELSE IF n = 2 THEN NoKey ELSE d.key,
   next     |-> IF n >= 4 THEN NIL ELSE d.next,
   bucket   |-> IF n >= 6 \/ (n = 5 /\ x \in Primary) THEN b ELSE d.bucket,
   position |-> IF n >= 6 \/ (n = 5 /\ x \notin Primary) THEN Place(x) ELSE d.position,
   size     |-> IF n >= 7 THEN v ELSE d.size,
   sec      |-> IF n >= 8 THEN clock ELSE d.sec]

\* position is the slot, counted from the start of its area
LEMMA PlaceTyped == \A x \in Slots : Place(x) \in Primary /\ (x \notin Primary => N + (x - N) = x)
BY Sizes DEF Place, Primary, Slots

\* the key of entry x before the last store of key k
HalfKey(x, k) == IF entries[x].key = k THEN k ELSE NoKey

FillsBy(l, x, k, v, b) ==
  /\ l \in Seq(Stores) /\ Len(l) = 8
  /\ l[1] = InEntry(x, "used", TRUE)
  /\ l[2] = InEntry(x, "key", HalfKey(x, k)) /\ l[3] = InEntry(x, "key", k)
  /\ l[4] = InEntry(x, "next", NIL)
  /\ l[5] = IF x \in Primary THEN InEntry(x, "bucket", b)
            ELSE InEntry(x, "position", Place(x))
  /\ l[6] = IF x \in Primary THEN InEntry(x, "position", Place(x))
            ELSE InEntry(x, "bucket", b)
  /\ l[7] = InEntry(x, "size", v) /\ l[8] = InEntry(x, "sec", clock)

\* the stores that fill a new entry
LEMMA FillList ==
  ASSUME NEW x \in Slots, NEW k \in Keys, NEW v \in Nat, NEW b \in Primary, clock \in Nat
  PROVE  FillsBy(FillStores(x, k, v, b), x, k, v, b)
<1> DEFINE l == FillStores(x, k, v, b)
           K == HalfKey(x, k)
<1>1. Place(x) \in Primary /\ (x \notin Primary => N + (x - N) = x)
  BY PlaceTyped
<1>2. K \in Keys \cup {NoKey} /\ k \in Keys \cup {NoKey} /\ NIL \in NIL..N-1 /\ TRUE \in BOOLEAN
  BY Sizes DEF NIL, HalfKey
<1>3. KeyStores(x, k) = <<InEntry(x, "key", K), InEntry(x, "key", k)>>
  BY DEF KeyStores, HalfKey
<1> HIDE DEF K
<1>4. PICK s1 \in Stores, s2 \in Stores, s3 \in Stores, s4 \in Stores, sb \in Stores,
           sp \in Stores, s7 \in Stores, s8 \in Stores :
        /\ s1 = InEntry(x, "used", TRUE) /\ s2 = InEntry(x, "key", K)
        /\ s3 = InEntry(x, "key", k) /\ s4 = InEntry(x, "next", NIL)
        /\ sb = InEntry(x, "bucket", b) /\ sp = InEntry(x, "position", Place(x))
        /\ s7 = InEntry(x, "size", v) /\ s8 = InEntry(x, "sec", clock)
  BY <1>1, <1>2, StoresTyped
<1>5. CASE x \in Primary
  <2>1. l = <<s1>> \o <<s2, s3>> \o <<s4, sb, sp, s7, s8>>
    BY <1>3, <1>4, <1>5 DEF FillStores, PrimaryStores, Place
  <2> HIDE DEF l
  <2>2. /\ l \in Seq(Stores) /\ Len(l) = 8 /\ l[1] = s1 /\ l[2] = s2 /\ l[3] = s3 /\ l[4] = s4
        /\ l[5] = sb /\ l[6] = sp /\ l[7] = s7 /\ l[8] = s8
    BY <2>1, EightStores
  <2> QED
    BY <1>4, <1>5, <2>2 DEF l, K, FillsBy
<1>6. CASE x \notin Primary
  <2>0. Place(x) = x - N
    BY <1>6 DEF Place
  <2>1. l = <<s1>> \o <<s2, s3>> \o <<s4, sp, sb, s7, s8>>
    BY <1>1, <1>3, <1>4, <1>6, <2>0 DEF FillStores, CollisionStores
  <2> HIDE DEF l
  <2>2. /\ l \in Seq(Stores) /\ Len(l) = 8 /\ l[1] = s1 /\ l[2] = s2 /\ l[3] = s3 /\ l[4] = s4
        /\ l[5] = sp /\ l[6] = sb /\ l[7] = s7 /\ l[8] = s8
    BY <2>1, EightStores
  <2> QED
    BY <1>4, <1>6, <2>2 DEF l, K, FillsBy
<1> QED
  BY <1>5, <1>6

LEMMA FilledTyped ==
  ASSUME NEW d \in Entry, NEW x \in Slots, NEW k \in Keys, NEW v \in Nat, NEW b \in Primary,
         clock \in Nat
  PROVE  \A n \in 0..8 : Filled(d, x, k, v, b, n) \in Entry
<1>1. /\ d.used \in BOOLEAN /\ d.key \in Keys \cup {NoKey} /\ d.next \in NIL..N-1
      /\ d.bucket \in 0..N-1 /\ d.position \in 0..N-1 /\ d.size \in Nat /\ d.sec \in Nat
  BY DEF Entry
<1>2. Place(x) \in 0..N-1 /\ NIL \in NIL..N-1 /\ b \in 0..N-1
  BY PlaceTyped, Sizes DEF Primary, NIL
<1> QED
  BY <1>1, <1>2 DEF Filled, Entry

\* the new entry after each of them
LEMMA FillStages ==
  ASSUME NEW g \in Tables, NEW x \in Slots, NEW k \in Keys, NEW v \in Nat, NEW b \in Primary,
         clock \in Nat, g.entries[x] = entries[x]
  PROVE  \A n \in 0..8 : Puts(After(g, FillStores(x, k, v, b))[n], g, x,
                              Filled(entries[x], x, k, v, b, n))
<1> DEFINE l == FillStores(x, k, v, b)
           K == HalfKey(x, k)
           E == [n \in 0..8 |-> Filled(entries[x], x, k, v, b, n)]
<1>0. entries[x] \in Entry
  BY TableFields
<1>f. FillsBy(l, x, k, v, b)
  BY FillList
<1> HIDE DEF l
<1>1. /\ Len(l) = 8
      /\ l[1] = InEntry(x, "used", TRUE)
      /\ l[2] = InEntry(x, "key", K) /\ l[3] = InEntry(x, "key", k)
      /\ l[4] = InEntry(x, "next", NIL)
      /\ l[5] = IF x \in Primary THEN InEntry(x, "bucket", b)
                ELSE InEntry(x, "position", Place(x))
      /\ l[6] = IF x \in Primary THEN InEntry(x, "position", Place(x))
                ELSE InEntry(x, "bucket", b)
      /\ l[7] = InEntry(x, "size", v) /\ l[8] = InEntry(x, "sec", clock)
  BY <1>f DEF FillsBy
<1>2. \A n \in 0..8 : E[n] = Filled(entries[x], x, k, v, b, n) /\ E[n] \in Entry
  BY <1>0, FilledTyped
<1>3. PICK u \in BOOLEAN, q \in Keys \cup {NoKey}, m \in NIL..N-1, y \in Primary,
           o \in Primary, z \in Nat, s \in Nat : entries[x] = Made(u, q, m, y, o, z, s)
  BY <1>0 DEF Entry, Made, Primary
<1>p. PICK p, T : p = Place(x) /\ T = TRUE
  OBVIOUS
<1> DEFINE F(n) == Filled(entries[x], x, k, v, b, n)
<1>4. \A n \in 0..8 : E[n] = F(n)
  BY <1>2
<1>5. /\ F(0) = Made(u, q, m, y, o, z, s)
      /\ F(1) = Made(T, q, m, y, o, z, s)
      /\ F(2) = Made(T, K, m, y, o, z, s)
      /\ F(3) = Made(T, k, m, y, o, z, s)
      /\ F(4) = Made(T, k, NIL, y, o, z, s)
  BY <1>3, <1>p DEF Filled, Made, HalfKey
<1>6. /\ F(6) = Made(T, k, NIL, b, p, z, s)
      /\ F(7) = Made(T, k, NIL, b, p, v, s)
      /\ F(8) = Made(T, k, NIL, b, p, v, clock)
  BY <1>3, <1>p DEF Filled, Made
<1>7. ASSUME x \in Primary
      PROVE  F(5) = Made(T, k, NIL, b, o, z, s)
  BY <1>3, <1>p, <1>7 DEF Filled, Made
<1>a. ASSUME x \notin Primary
      PROVE  F(5) = Made(T, k, NIL, y, p, z, s)
  BY <1>3, <1>p, <1>a DEF Filled, Made
<1> HIDE DEF F, E, K, l
<1>8. E[0] = entries[x]
  BY <1>3, <1>4, <1>5
<1>b1. \E f, w : l[1] = InEntry(x, f, w) /\ F(1) = Written(F(0), f, w)
  <2>1. l[1] = InEntry(x, "used", TRUE)
    BY <1>1
  <2>2. Made(T, q, m, y, o, z, s) = Written(Made(u, q, m, y, o, z, s), "used", T)
    BY DEF Made, Written
  <2>3. F(1) = Written(F(0), "used", TRUE)
    BY <1>p, <1>5, <2>2
  <2> QED
    BY <2>1, <2>3
<1>b2. \E f, w : l[2] = InEntry(x, f, w) /\ F(2) = Written(F(1), f, w)
  <2>1. l[2] = InEntry(x, "key", K)
    BY <1>1
  <2>2. Made(T, K, m, y, o, z, s) = Written(Made(T, q, m, y, o, z, s), "key", K)
    BY DEF Made, Written
  <2>3. F(2) = Written(F(1), "key", K)
    BY <1>5, <2>2
  <2> QED
    BY <2>1, <2>3
<1>b3. \E f, w : l[3] = InEntry(x, f, w) /\ F(3) = Written(F(2), f, w)
  <2>1. l[3] = InEntry(x, "key", k)
    BY <1>1
  <2>2. Made(T, k, m, y, o, z, s) = Written(Made(T, K, m, y, o, z, s), "key", k)
    BY DEF Made, Written
  <2>3. F(3) = Written(F(2), "key", k)
    BY <1>5, <2>2
  <2> QED
    BY <2>1, <2>3
<1>b4. \E f, w : l[4] = InEntry(x, f, w) /\ F(4) = Written(F(3), f, w)
  <2>1. l[4] = InEntry(x, "next", NIL)
    BY <1>1
  <2>2. Made(T, k, NIL, y, o, z, s) = Written(Made(T, k, m, y, o, z, s), "next", NIL)
    BY DEF Made, Written
  <2>3. F(4) = Written(F(3), "next", NIL)
    BY <1>5, <2>2
  <2> QED
    BY <2>1, <2>3
<1>b5. ASSUME x \in Primary
       PROVE  \E f, w : l[5] = InEntry(x, f, w) /\ F(5) = Written(F(4), f, w)
  <2>1. l[5] = InEntry(x, "bucket", b)
    BY <1>1, <1>b5
  <2>2. Made(T, k, NIL, b, o, z, s) = Written(Made(T, k, NIL, y, o, z, s), "bucket", b)
    BY DEF Made, Written
  <2>3. F(5) = Written(F(4), "bucket", b)
    BY <1>b5, <1>5, <1>7, <2>2
  <2> QED
    BY <2>1, <2>3
<1>c5. ASSUME x \notin Primary
       PROVE  \E f, w : l[5] = InEntry(x, f, w) /\ F(5) = Written(F(4), f, w)
  <2>1. l[5] = InEntry(x, "position", p)
    BY <1>1, <1>p, <1>c5
  <2>2. Made(T, k, NIL, y, p, z, s) = Written(Made(T, k, NIL, y, o, z, s), "position", p)
    BY DEF Made, Written
  <2>3. F(5) = Written(F(4), "position", p)
    BY <1>c5, <1>5, <1>a, <2>2
  <2> QED
    BY <2>1, <2>3
<1>b6. ASSUME x \in Primary
       PROVE  \E f, w : l[6] = InEntry(x, f, w) /\ F(6) = Written(F(5), f, w)
  <2>1. l[6] = InEntry(x, "position", p)
    BY <1>1, <1>p, <1>b6
  <2>2. Made(T, k, NIL, b, p, z, s) = Written(Made(T, k, NIL, b, o, z, s), "position", p)
    BY DEF Made, Written
  <2>3. F(6) = Written(F(5), "position", p)
    BY <1>b6, <1>6, <1>7, <2>2
  <2> QED
    BY <2>1, <2>3
<1>c6. ASSUME x \notin Primary
       PROVE  \E f, w : l[6] = InEntry(x, f, w) /\ F(6) = Written(F(5), f, w)
  <2>1. l[6] = InEntry(x, "bucket", b)
    BY <1>1, <1>c6
  <2>2. Made(T, k, NIL, b, p, z, s) = Written(Made(T, k, NIL, y, p, z, s), "bucket", b)
    BY DEF Made, Written
  <2>3. F(6) = Written(F(5), "bucket", b)
    BY <1>c6, <1>6, <1>a, <2>2
  <2> QED
    BY <2>1, <2>3
<1>b7. \E f, w : l[7] = InEntry(x, f, w) /\ F(7) = Written(F(6), f, w)
  <2>1. l[7] = InEntry(x, "size", v)
    BY <1>1
  <2>2. Made(T, k, NIL, b, p, v, s) = Written(Made(T, k, NIL, b, p, z, s), "size", v)
    BY DEF Made, Written
  <2>3. F(7) = Written(F(6), "size", v)
    BY <1>6, <2>2
  <2> QED
    BY <2>1, <2>3
<1>b8. \E f, w : l[8] = InEntry(x, f, w) /\ F(8) = Written(F(7), f, w)
  <2>1. l[8] = InEntry(x, "sec", clock)
    BY <1>1
  <2>2. Made(T, k, NIL, b, p, v, clock) = Written(Made(T, k, NIL, b, p, v, s), "sec", clock)
    BY DEF Made, Written
  <2>3. F(8) = Written(F(7), "sec", clock)
    BY <1>6, <2>2
  <2> QED
    BY <2>1, <2>3
<1>13. ASSUME NEW n \in 1..8
       PROVE  \E f, w : l[n] = InEntry(x, f, w) /\ F(n) = Written(F(n-1), f, w)
  <2>1. n \in {1, 2, 3, 4, 5, 6, 7, 8}
    OBVIOUS
  <2> QED
    BY <1>b1, <1>b2, <1>b3, <1>b4, <1>b5, <1>c5, <1>b6, <1>c6, <1>b7, <1>b8, <2>1
<1>14. ASSUME NEW n \in 1..8
       PROVE  \E f, w : l[n] = InEntry(x, f, w) /\ E[n] = Written(E[n-1], f, w)
  <2>1. n \in 0..8 /\ n - 1 \in 0..8
    OBVIOUS
  <2> QED
    BY <1>4, <1>13, <2>1
<1>15. Through(E, x, g.entries[x], l, 8)
  BY <1>1, <1>2, <1>8, <1>14 DEF Through
<1>16. \A n \in 0..8 : Puts(After(g, l)[n], g, x, E[n])
  <2>1. Len(l) \in Nat /\ 8 \in 0..Len(l)
    BY <1>1
  <2> QED
    BY <1>15, <2>1, OneEntryStores
<1> QED
  BY <1>2, <1>16 DEF l

-------------------------------------------------------------------------------
(* Copying an entry                                                        *)

\* entry s after n of the stores that copy entry t into it
Copied(s, t, n) ==
  LET d == entries[s]
      e == entries[t]
  IN [used     |-> IF n >= 1 THEN e.used ELSE d.used,
      key      |-> IF n >= 3 THEN e.key ELSE IF n = 2 THEN HalfKey(s, e.key) ELSE d.key,
      next     |-> IF n >= 4 THEN e.next ELSE d.next,
      bucket   |-> IF n >= 5 THEN e.bucket ELSE d.bucket,
      position |-> IF n >= 7 THEN e.position ELSE d.position,
      size     |-> IF n >= 6 THEN e.size ELSE d.size,
      sec      |-> IF n >= 8 THEN e.sec ELSE d.sec]

CopiesBy(l, s, t) ==
  LET e == entries[t]
  IN /\ l \in Seq(Stores) /\ Len(l) = 10
     /\ l[1] = InEntry(s, "used", e.used)
     /\ l[2] = InEntry(s, "key", HalfKey(s, e.key)) /\ l[3] = InEntry(s, "key", e.key)
     /\ l[4] = InEntry(s, "next", e.next) /\ l[5] = InEntry(s, "bucket", e.bucket)
     /\ l[6] = InEntry(s, "size", e.size) /\ l[7] = InEntry(s, "position", e.position)
     /\ l[8] = InEntry(s, "sec", e.sec)
     /\ l[9] = InEntry(t, "used", FALSE)
     /\ l[10] = InEntry(s, "position", entries[s].position)

LEMMA FieldsTyped ==
  ASSUME NEW e \in Entry
  PROVE  /\ e.used \in BOOLEAN /\ e.key \in Keys \cup {NoKey} /\ e.next \in NIL..N-1
         /\ e.bucket \in Primary /\ e.position \in Primary /\ e.size \in Nat /\ e.sec \in Nat
BY DEF Entry, Primary

\* the stores of the structure copied in a remove
LEMMA CopyList ==
  ASSUME NEW s \in Slots, NEW t \in Slots, entries \in [Slots -> Entry]
  PROVE  CopiesBy(CopyStores(s, t), s, t)
<1> DEFINE l == CopyStores(s, t)
           K == HalfKey(s, entries[t].key)
<1>1. PICK e \in Entry, d \in Entry : e = entries[t] /\ d = entries[s]
  OBVIOUS
<1>2. /\ e.used \in BOOLEAN /\ e.key \in Keys \cup {NoKey} /\ e.next \in NIL..N-1
      /\ e.bucket \in Primary /\ e.position \in Primary /\ e.size \in Nat /\ e.sec \in Nat
      /\ d.position \in Primary /\ FALSE \in BOOLEAN
  BY FieldsTyped
<1>3. K \in Keys \cup {NoKey}
  BY <1>1, <1>2 DEF HalfKey
<1>4. KeyStores(s, e.key) = <<InEntry(s, "key", K), InEntry(s, "key", e.key)>>
  BY <1>1 DEF KeyStores, HalfKey
<1> HIDE DEF K
<1>5. PICK s1 \in Stores, s2 \in Stores, s3 \in Stores, s4 \in Stores, s5 \in Stores,
           s6 \in Stores, s7 \in Stores, s8 \in Stores, s9 \in Stores, s10 \in Stores :
        /\ s1 = InEntry(s, "used", e.used) /\ s2 = InEntry(s, "key", K)
        /\ s3 = InEntry(s, "key", e.key) /\ s4 = InEntry(s, "next", e.next)
        /\ s5 = InEntry(s, "bucket", e.bucket) /\ s6 = InEntry(s, "size", e.size)
        /\ s7 = InEntry(s, "position", e.position) /\ s8 = InEntry(s, "sec", e.sec)
        /\ s9 = InEntry(t, "used", FALSE) /\ s10 = InEntry(s, "position", d.position)
  BY <1>2, <1>3, StoresTyped
<1>6. l = <<s1>> \o <<s2, s3>> \o <<s4, s5, s6, s7, s8, s9, s10>>
  BY <1>1, <1>4, <1>5 DEF CopyStores
<1> HIDE DEF l
<1>7. /\ l \in Seq(Stores) /\ Len(l) = 10 /\ l[1] = s1 /\ l[2] = s2 /\ l[3] = s3 /\ l[4] = s4
      /\ l[5] = s5 /\ l[6] = s6 /\ l[7] = s7 /\ l[8] = s8 /\ l[9] = s9 /\ l[10] = s10
  BY <1>6, TenStores
<1> QED
  BY <1>1, <1>5, <1>7 DEF l, K, CopiesBy

LEMMA CopiedTyped ==
  ASSUME NEW s \in Slots, NEW t \in Slots, entries \in [Slots -> Entry]
  PROVE  \A n \in 0..8 : Copied(s, t, n) \in Entry
<1>1. PICK e \in Entry, d \in Entry : e = entries[t] /\ d = entries[s]
  OBVIOUS
<1>2. /\ e.used \in BOOLEAN /\ e.key \in Keys \cup {NoKey} /\ e.next \in NIL..N-1
      /\ e.bucket \in 0..N-1 /\ e.position \in 0..N-1 /\ e.size \in Nat /\ e.sec \in Nat
      /\ d.used \in BOOLEAN /\ d.key \in Keys \cup {NoKey} /\ d.next \in NIL..N-1
      /\ d.bucket \in 0..N-1 /\ d.position \in 0..N-1 /\ d.size \in Nat /\ d.sec \in Nat
  BY DEF Entry
<1>3. HalfKey(s, e.key) \in Keys \cup {NoKey}
  BY <1>2 DEF HalfKey
<1> QED
  BY <1>1, <1>2, <1>3 DEF Copied, Entry

\* the entry copied to after each of them
LEMMA CopyStages ==
  ASSUME NEW g \in Tables, NEW s \in Slots, NEW t \in Slots, s # t, g.entries = entries
  PROVE  LET a == After(g, CopyStores(s, t))
         IN /\ \A n \in 0..8 : Puts(a[n], g, s, Copied(s, t, n))
            /\ Puts(a[9], a[8], t, Off(entries[t]))
            /\ Puts(a[10], a[9], s, Placed(entries[t], entries[s].position))
<1> DEFINE l == CopyStores(s, t)
           E == [n \in 0..8 |-> Copied(s, t, n)]
           a == After(g, l)
<1>0. entries \in [Slots -> Entry] /\ entries[s] \in Entry /\ entries[t] \in Entry
  BY TableFields
<1>c. CopiesBy(l, s, t)
  BY <1>0, CopyList
<1> HIDE DEF l
<1>1. PICK e, d, K, f, T :
        e = entries[t] /\ d = entries[s] /\ K = HalfKey(s, e.key) /\ f = FALSE /\ T = TRUE
  OBVIOUS
<1>d. /\ Len(l) = 10
      /\ l[1] = InEntry(s, "used", e.used)
      /\ l[2] = InEntry(s, "key", K) /\ l[3] = InEntry(s, "key", e.key)
      /\ l[4] = InEntry(s, "next", e.next) /\ l[5] = InEntry(s, "bucket", e.bucket)
      /\ l[6] = InEntry(s, "size", e.size) /\ l[7] = InEntry(s, "position", e.position)
      /\ l[8] = InEntry(s, "sec", e.sec)
      /\ l[9] = InEntry(t, "used", f) /\ l[10] = InEntry(s, "position", d.position)
  BY <1>c, <1>1 DEF CopiesBy
<1>2. \A n \in 0..8 : E[n] = Copied(s, t, n) /\ E[n] \in Entry
  BY <1>0, CopiedTyped
<1>3. PICK u \in BOOLEAN, q \in Keys \cup {NoKey}, m \in NIL..N-1, y \in Primary,
           o \in Primary, z \in Nat, c \in Nat : d = Made(u, q, m, y, o, z, c)
  BY <1>0, <1>1 DEF Entry, Made, Primary
<1>4. PICK u2 \in BOOLEAN, q2 \in Keys \cup {NoKey}, m2 \in NIL..N-1, y2 \in Primary,
           o2 \in Primary, z2 \in Nat, c2 \in Nat : e = Made(u2, q2, m2, y2, o2, z2, c2)
  BY <1>0, <1>1 DEF Entry, Made, Primary
<1>5. /\ e.used = u2 /\ e.key = q2 /\ e.next = m2 /\ e.bucket = y2
      /\ e.position = o2 /\ e.size = z2 /\ e.sec = c2 /\ d.position = o
  BY <1>3, <1>4 DEF Made
<1> DEFINE F(n) == Copied(s, t, n)
<1>6. /\ F(0) = Made(u, q, m, y, o, z, c) /\ F(1) = Made(u2, q, m, y, o, z, c)
      /\ F(2) = Made(u2, K, m, y, o, z, c) /\ F(3) = Made(u2, q2, m, y, o, z, c)
      /\ F(4) = Made(u2, q2, m2, y, o, z, c)
  BY <1>1, <1>3, <1>4 DEF Copied, Made
<1>7. /\ F(5) = Made(u2, q2, m2, y2, o, z, c) /\ F(6) = Made(u2, q2, m2, y2, o, z2, c)
      /\ F(7) = Made(u2, q2, m2, y2, o2, z2, c) /\ F(8) = Made(u2, q2, m2, y2, o2, z2, c2)
  BY <1>1, <1>3, <1>4 DEF Copied, Made
<1>8. \A n \in 0..8 : E[n] = F(n)
  BY <1>2
<1> HIDE DEF E, F
<1>9. E[0] = entries[s]
  BY <1>1, <1>3, <1>6, <1>8
<1>b1. \E f2, w : l[1] = InEntry(s, f2, w) /\ F(1) = Written(F(0), f2, w)
  <2>1. l[1] = InEntry(s, "used", u2)
    BY <1>d, <1>5
  <2>2. Made(u2, q, m, y, o, z, c) = Written(Made(u, q, m, y, o, z, c), "used", u2)
    BY DEF Made, Written
  <2>3. F(1) = Written(F(0), "used", u2)
    BY <1>6, <1>7, <2>2
  <2> QED
    BY <2>1, <2>3
<1>b2. \E f2, w : l[2] = InEntry(s, f2, w) /\ F(2) = Written(F(1), f2, w)
  <2>1. l[2] = InEntry(s, "key", K)
    BY <1>d, <1>5
  <2>2. Made(u2, K, m, y, o, z, c) = Written(Made(u2, q, m, y, o, z, c), "key", K)
    BY DEF Made, Written
  <2>3. F(2) = Written(F(1), "key", K)
    BY <1>6, <1>7, <2>2
  <2> QED
    BY <2>1, <2>3
<1>b3. \E f2, w : l[3] = InEntry(s, f2, w) /\ F(3) = Written(F(2), f2, w)
  <2>1. l[3] = InEntry(s, "key", q2)
    BY <1>d, <1>5
  <2>2. Made(u2, q2, m, y, o, z, c) = Written(Made(u2, K, m, y, o, z, c), "key", q2)
    BY DEF Made, Written
  <2>3. F(3) = Written(F(2), "key", q2)
    BY <1>6, <1>7, <2>2
  <2> QED
    BY <2>1, <2>3
<1>b4. \E f2, w : l[4] = InEntry(s, f2, w) /\ F(4) = Written(F(3), f2, w)
  <2>1. l[4] = InEntry(s, "next", m2)
    BY <1>d, <1>5
  <2>2. Made(u2, q2, m2, y, o, z, c) = Written(Made(u2, q2, m, y, o, z, c), "next", m2)
    BY DEF Made, Written
  <2>3. F(4) = Written(F(3), "next", m2)
    BY <1>6, <1>7, <2>2
  <2> QED
    BY <2>1, <2>3
<1>b5. \E f2, w : l[5] = InEntry(s, f2, w) /\ F(5) = Written(F(4), f2, w)
  <2>1. l[5] = InEntry(s, "bucket", y2)
    BY <1>d, <1>5
  <2>2. Made(u2, q2, m2, y2, o, z, c) = Written(Made(u2, q2, m2, y, o, z, c), "bucket", y2)
    BY DEF Made, Written
  <2>3. F(5) = Written(F(4), "bucket", y2)
    BY <1>6, <1>7, <2>2
  <2> QED
    BY <2>1, <2>3
<1>b6. \E f2, w : l[6] = InEntry(s, f2, w) /\ F(6) = Written(F(5), f2, w)
  <2>1. l[6] = InEntry(s, "size", z2)
    BY <1>d, <1>5
  <2>2. Made(u2, q2, m2, y2, o, z2, c) = Written(Made(u2, q2, m2, y2, o, z, c), "size", z2)
    BY DEF Made, Written
  <2>3. F(6) = Written(F(5), "size", z2)
    BY <1>6, <1>7, <2>2
  <2> QED
    BY <2>1, <2>3
<1>b7. \E f2, w : l[7] = InEntry(s, f2, w) /\ F(7) = Written(F(6), f2, w)
  <2>1. l[7] = InEntry(s, "position", o2)
    BY <1>d, <1>5
  <2>2. Made(u2, q2, m2, y2, o2, z2, c) = Written(Made(u2, q2, m2, y2, o, z2, c), "position", o2)
    BY DEF Made, Written
  <2>3. F(7) = Written(F(6), "position", o2)
    BY <1>6, <1>7, <2>2
  <2> QED
    BY <2>1, <2>3
<1>b8. \E f2, w : l[8] = InEntry(s, f2, w) /\ F(8) = Written(F(7), f2, w)
  <2>1. l[8] = InEntry(s, "sec", c2)
    BY <1>d, <1>5
  <2>2. Made(u2, q2, m2, y2, o2, z2, c2) = Written(Made(u2, q2, m2, y2, o2, z2, c), "sec", c2)
    BY DEF Made, Written
  <2>3. F(8) = Written(F(7), "sec", c2)
    BY <1>6, <1>7, <2>2
  <2> QED
    BY <2>1, <2>3
<1>10. ASSUME NEW n \in 1..8
       PROVE  \E f2, w : l[n] = InEntry(s, f2, w) /\ E[n] = Written(E[n-1], f2, w)
  <2>1. n \in {1, 2, 3, 4, 5, 6, 7, 8} /\ n \in 0..8 /\ n - 1 \in 0..8
    OBVIOUS
  <2>2. \E f2, w : l[n] = InEntry(s, f2, w) /\ F(n) = Written(F(n-1), f2, w)
    BY <1>b1, <1>b2, <1>b3, <1>b4, <1>b5, <1>b6, <1>b7, <1>b8, <2>1
  <2> QED
    BY <1>8, <2>1, <2>2
<1>11. Through(E, s, g.entries[s], l, 8)
  BY <1>2, <1>9, <1>10 DEF Through
<1>l. Len(l) \in Nat /\ 8 \in 0..Len(l) /\ 9 \in 1..Len(l) /\ 10 \in 1..Len(l)
  BY <1>d
<1>12. \A n \in 0..8 : Puts(a[n], g, s, E[n])
  BY <1>11, <1>l, OneEntryStores
<1>13. a[9] = Apply(a[8], l[9]) /\ a[10] = Apply(a[9], l[10])
  <2>1. \A n \in 1..Len(l) : a[n] = Apply(a[n-1], l[n])
    BY <1>l, AfterSteps
  <2> HIDE DEF a
  <2> QED
    BY <1>l, <2>1
<1> HIDE DEF a
<1>14. /\ a[8] \in Tables /\ a[8].entries[s] = e /\ a[8].entries[t] = e
  <2>1. Puts(a[8], g, s, E[8])
    BY <1>12
  <2>2. E[8] = e
    BY <1>4, <1>7, <1>8
  <2> QED
    BY <1>1, <2>1, <2>2 DEF Puts
<1>15. Puts(a[9], a[8], t, [e EXCEPT !.used = FALSE])
  <2>1. Puts(Apply(a[8], InEntry(t, "used", FALSE)), a[8], t, [a[8].entries[t] EXCEPT !.used = FALSE])
    BY <1>14, FieldStore
  <2>2. l[9] = InEntry(t, "used", FALSE)
    BY <1>1, <1>d
  <2> QED
    BY <1>13, <1>14, <2>1, <2>2
<1>16. a[9] \in Tables /\ a[9].entries[s] = e
  BY <1>14, <1>15 DEF Puts
<1>17. Puts(a[10], a[9], s, [e EXCEPT !.position = o])
  <2>1. Puts(Apply(a[9], InEntry(s, "position", o)), a[9], s,
             [a[9].entries[s] EXCEPT !.position = o])
    BY <1>16, FieldStore
  <2>2. l[10] = InEntry(s, "position", o)
    BY <1>5, <1>d
  <2> QED
    BY <1>13, <1>16, <2>1, <2>2
<1>18. /\ Off(entries[t]) = [e EXCEPT !.used = FALSE]
       /\ Placed(entries[t], entries[s].position) = [e EXCEPT !.position = o]
  BY <1>1, <1>5 DEF Off, Placed
<1> QED
  BY <1>2, <1>12, <1>15, <1>17, <1>18 DEF l, a

-------------------------------------------------------------------------------
(* The stores of insert                                                    *)

\* a store of next, a store of used
LEMMA NextStore ==
  ASSUME NEW g \in Tables, NEW x \in Slots, NEW m \in NIL..N-1
  PROVE  Puts(Apply(g, InEntry(x, "next", m)), g, x, Linked(g.entries[x], m))
BY FieldStore DEF Linked

LEMMA OffStore ==
  ASSUME NEW g \in Tables, NEW x \in Slots
  PROVE  Puts(Apply(g, InEntry(x, "used", FALSE)), g, x, Off(g.entries[x]))
<1>1. Puts(Apply(g, InEntry(x, "used", FALSE)), g, x, [g.entries[x] EXCEPT !.used = FALSE])
  BY FieldStore
<1> QED
  BY <1>1 DEF Off

\* lists of one, two and three stores
LEMMA AfterOne ==
  ASSUME NEW h, NEW s \in Stores
  PROVE  Len(<<s>>) = 1 /\ After(h, <<s>>)[0] = h /\ After(h, <<s>>)[1] = Apply(h, s)
<1> DEFINE l == <<s>>
           a == After(h, l)
<1>1. Len(l) = 1 /\ l[1] = s
  BY FewStores
<1> HIDE DEF l
<1>2. Len(l) \in Nat
  BY <1>1
<1>3. a[0] = h /\ \A n \in 1..Len(l) : a[n] = Apply(a[n-1], l[n])
  BY <1>2, AfterSteps
<1> HIDE DEF a
<1>4. 1 \in 1..Len(l)
  BY <1>1
<1>5. a[1] = Apply(a[0], l[1])
  BY <1>3, <1>4
<1> QED
  BY <1>1, <1>3, <1>5 DEF a, l

TwoSteps(h, s, t) ==
  /\ Len(<<s, t>>) = 2
  /\ After(h, <<s, t>>)[0] = h /\ After(h, <<s, t>>)[1] = Apply(h, s)
  /\ After(h, <<s, t>>)[2] = Apply(After(h, <<s, t>>)[1], t)

LEMMA AfterTwo ==
  ASSUME NEW h, NEW s \in Stores, NEW t \in Stores
  PROVE  TwoSteps(h, s, t)
<1> DEFINE l == <<s, t>>
           a == After(h, l)
<1>1. Len(l) = 2 /\ l[1] = s /\ l[2] = t
  BY FewStores
<1> HIDE DEF l
<1>2. Len(l) \in Nat
  BY <1>1
<1>3. a[0] = h /\ \A n \in 1..Len(l) : a[n] = Apply(a[n-1], l[n])
  BY <1>2, AfterSteps
<1> HIDE DEF a
<1>4. 1 \in 1..Len(l) /\ 2 \in 1..Len(l)
  BY <1>1
<1>5. a[1] = Apply(a[0], l[1]) /\ a[2] = Apply(a[1], l[2])
  BY <1>3, <1>4
<1> QED
  BY <1>1, <1>3, <1>5 DEF a, l, TwoSteps

\* three lists of stores, one after the other
ThreeJoined(l, h, s, g, t, f, u) ==
  /\ Len(l) = Len(s) + Len(t) + Len(u)
  /\ \A n \in 0..Len(s) : After(h, l)[n] = After(h, s)[n]
  /\ \A n \in 0..Len(t) : After(h, l)[Len(s) + n] = After(g, t)[n]
  /\ \A n \in 0..Len(u) : After(h, l)[Len(s) + Len(t) + n] = After(f, u)[n]
  /\ ApplyAll(h, l) = ApplyAll(f, u)

LEMMA AfterThree ==
  ASSUME NEW h, NEW s \in Seq(Stores), NEW t \in Seq(Stores), NEW u \in Seq(Stores),
         NEW g, g = ApplyAll(h, s), NEW f, f = ApplyAll(g, t)
  PROVE  ThreeJoined((s \o t) \o u, h, s, g, t, f, u)
<1> DEFINE w == s \o t
           l == w \o u
           a == After(h, l)
           c == After(h, w)
<1>0. w \in Seq(Stores) /\ Len(s) \in Nat /\ Len(t) \in Nat /\ Len(u) \in Nat
  OBVIOUS
<1>1. /\ Len(w) = Len(s) + Len(t)
      /\ \A n \in 0..Len(s) : c[n] = After(h, s)[n]
      /\ \A n \in 0..Len(t) : c[Len(s) + n] = After(g, t)[n]
  <2>1. Joined(h, s, t)
    BY AfterBoth
  <2> QED
    BY <2>1 DEF Joined
<1> HIDE DEF w
<1>2. /\ Len(l) = Len(w) + Len(u)
      /\ \A n \in 0..Len(w) : a[n] = c[n]
      /\ \A n \in 0..Len(u) : a[Len(w) + n] = After(ApplyAll(h, w), u)[n]
  <2>1. Joined(h, w, u)
    BY <1>0, AfterBoth
  <2> QED
    BY <2>1 DEF Joined
<1>3. ApplyAll(h, w) = c[Len(w)] /\ ApplyAll(g, t) = After(g, t)[Len(t)]
      /\ ApplyAll(h, l) = a[Len(l)] /\ ApplyAll(f, u) = After(f, u)[Len(u)]
  BY DEF ApplyAll
<1> HIDE DEF a, c, l
<1>4. ApplyAll(h, w) = f
  <2>1. Len(t) \in 0..Len(t)
    BY <1>0
  <2> QED
    BY <1>1, <1>3, <2>1
<1>5. \A n \in 0..Len(s) : a[n] = After(h, s)[n]
  BY <1>0, <1>1, <1>2
<1>6. \A n \in 0..Len(t) : a[Len(s) + n] = After(g, t)[n]
  <2>1. \A n \in 0..Len(t) : Len(s) + n \in 0..Len(w)
    BY <1>0, <1>1
  <2> QED
    BY <1>1, <1>2, <2>1
<1>7. \A n \in 0..Len(u) : a[Len(s) + Len(t) + n] = After(f, u)[n]
  BY <1>1, <1>2, <1>4
<1>8. ApplyAll(h, l) = ApplyAll(f, u)
  <2>1. Len(u) \in 0..Len(u)
    BY <1>0
  <2> QED
    BY <1>2, <1>3, <1>4, <2>1
<1>9. Len(l) = Len(s) + Len(t) + Len(u)
  BY <1>0, <1>1, <1>2
<1> QED
  BY <1>5, <1>6, <1>7, <1>8, <1>9 DEF w, l, a, ThreeJoined

\* the bucket of a value
BucketTaken(l, g, b, v) ==
  /\ l \in Seq(Stores) /\ Len(l) = 2
  /\ \A n \in 0..2 : /\ After(g, l)[n] \in Tables
                     /\ After(g, l)[n].entries = g.entries
                     /\ After(g, l)[n].entrycount = g.entrycount
  /\ After(g, l)[2].buckets = [g.buckets EXCEPT ![b] = [used |-> TRUE, val |-> v]]
  /\ ApplyAll(g, l) = After(g, l)[2]

\* a new value takes its bucket
LEMMA BucketStages ==
  ASSUME NEW g \in Tables, NEW b \in Primary, NEW v \in Nat
  PROVE  BucketTaken(<<InBucket(b, "used", TRUE), InBucket(b, "val", v)>>, g, b, v)
<1> DEFINE s == InBucket(b, "used", TRUE)
           t == InBucket(b, "val", v)
           l == <<s, t>>
           a == After(g, l)
<1>1. s \in Stores /\ t \in Stores
  BY StoresTyped
<1>2. Len(l) = 2 /\ a[0] = g /\ a[1] = Apply(g, s) /\ a[2] = Apply(a[1], t)
  <2>1. TwoSteps(g, s, t)
    BY <1>1, AfterTwo
  <2> QED
    BY <2>1 DEF TwoSteps
<1>3. l \in Seq(Stores)
  BY <1>1, FewStores
<1>4. ApplyAll(g, l) = a[2]
  BY <1>2 DEF ApplyAll
<1> HIDE DEF a, l
<1>5. PICK c, d : c = [g.buckets[b] EXCEPT !.used = TRUE] /\ d = [c EXCEPT !.val = v]
  OBVIOUS
<1>6. c \in Bucket /\ d \in Bucket /\ d = [used |-> TRUE, val |-> v]
  <2>1. PICK e \in Bucket : e = g.buckets[b]
    BY TableFields
  <2>2. c = [used |-> TRUE, val |-> e.val]
    BY <1>5, <2>1 DEF Bucket
  <2>3. d = [used |-> TRUE, val |-> v]
    BY <1>5, <2>2
  <2> QED
    BY <2>1, <2>2, <2>3 DEF Bucket
<1>7. a[1] = WithBucket(g, b, c) /\ a[1] \in Tables
  <2>1. a[1] = WithBucket(g, b, [g.buckets[b] EXCEPT !.used = TRUE])
    BY <1>2, BucketStore
  <2>2. a[1] = WithBucket(g, b, c)
    BY <1>5, <2>1
  <2> QED
    BY <1>6, <2>2, BucketStore
<1>8. a[1].buckets[b] = c
  BY <1>7, TableFields DEF WithBucket
<1>9. a[2] = WithBucket(a[1], b, d) /\ a[2] \in Tables
  <2>1. a[2] = WithBucket(a[1], b, [a[1].buckets[b] EXCEPT !.val = v])
    BY <1>2, <1>7, BucketStore
  <2>2. a[2] = WithBucket(a[1], b, d)
    BY <1>5, <1>8, <2>1
  <2> QED
    BY <1>6, <1>7, <2>2, BucketStore
<1>10. a[1].entries = g.entries /\ a[1].entrycount = g.entrycount
       /\ a[1].buckets = [g.buckets EXCEPT ![b] = c]
  BY <1>7 DEF WithBucket
<1>11. a[2].entries = g.entries /\ a[2].entrycount = g.entrycount
       /\ a[2].buckets = [a[1].buckets EXCEPT ![b] = d]
  BY <1>9, <1>10 DEF WithBucket
<1>12. a[2].buckets = [g.buckets EXCEPT ![b] = d]
  <2>1. g.buckets \in [Primary -> Bucket]
    BY TableFields
  <2> QED
    BY <1>10, <1>11, <2>1
<1>13. \A n \in 0..2 : n = 0 \/ n = 1 \/ n = 2
  OBVIOUS
<1> QED
  BY <1>2, <1>3, <1>4, <1>6, <1>7, <1>9, <1>10, <1>11, <1>12, <1>13 DEF a, l, BucketTaken

\* after the last store the entry is the new one, before the first the old
LEMMA FilledIsNew ==
  ASSUME NEW x \in Slots, NEW k, NEW v, NEW b
  PROVE  Filled(entries[x], x, k, v, b, 8) = NewEntry(x, k, v, b)
BY DEF Filled, NewEntry, Place

\* an entry is being filled
Filling(a, x, k, v, b) ==
  /\ a \in Tables /\ a.entrycount = entrycount
  /\ \E m \in 0..8 : a.entries[x] = Filled(entries[x], x, k, v, b, m)
  /\ \A t \in Slots : t # x => a.entries[t] = entries[t]

LEMMA FilledNone ==
  ASSUME NEW x \in Slots, NEW k, NEW v, NEW b, entries \in [Slots -> Entry]
  PROVE  Filled(entries[x], x, k, v, b, 0) = entries[x]
<1>1. entries[x] \in Entry
  OBVIOUS
<1>2. PICK e \in Entry : e = entries[x]
  BY <1>1
<1>3. e = [used |-> e.used, key |-> e.key, next |-> e.next, bucket |-> e.bucket,
           position |-> e.position, size |-> e.size, sec |-> e.sec]
  BY DEF Entry
<1> QED
  BY <1>2, <1>3 DEF Filled

LinkedBy(l, g, x, last, k, v, b) ==
  /\ l \in Seq(Stores) /\ Len(l) = 10
  /\ \A n \in 0..8 : Puts(After(g, l)[n], g, x, Filled(entries[x], x, k, v, b, n))
  /\ Puts(After(g, l)[9], After(g, l)[8], last, Linked(After(g, l)[8].entries[last], x - N))
  /\ Puts(After(g, l)[10], After(g, l)[9], x, Linked(After(g, l)[9].entries[x], NIL))
  /\ ApplyAll(g, l) = After(g, l)[10]

\* the end of the chain, once entry x is filled
LastThen(i, x, k, v, b) == LastOf([entries EXCEPT ![x] = NewEntry(x, k, v, b)], i)

\* the entry is filled, and linked to the last of the chain
LEMMA LinkStages ==
  ASSUME NEW g \in Tables, g.entries = entries, Segment \in Tables, clock \in Nat,
         NEW k \in Keys, NEW v \in Nat, NEW b \in Primary, NEW i,
         NEW x \in Collision, x = N + FreeCollisionIndex, FreeCollisionIndex \in 0..N-1,
         LastThen(i, x, k, v, b) \in Slots
  PROVE  LinkedBy(LinkStores(i, k, v, b), g, x, LastThen(i, x, k, v, b), k, v, b)
<1> DEFINE c == FreeCollisionIndex
           fill == FillStores(x, k, v, b)
           last == LastThen(i, x, k, v, b)
           s == InEntry(last, "next", c)
           t == InEntry(x, "next", NIL)
           l == fill \o <<s, t>>
           a == After(g, l)
<1>1. x \in Slots /\ x \notin Primary /\ x - N = c /\ entries \in [Slots -> Entry]
      /\ Segment.entries = entries
  <2>1. Segment.entries = entries
    BY DEF Segment
  <2>2. x \in Slots /\ x \notin Primary /\ x - N = c
    BY Sizes
  <2> QED
    BY <2>1, <2>2, TableFields
<1>2. CollisionStores(c, k, v, b) = fill
  BY <1>1 DEF FillStores
<1>f. FillsBy(fill, x, k, v, b)
  BY <1>1, FillList
<1>3. ApplyAll(Segment, fill).entries = [entries EXCEPT ![x] = NewEntry(x, k, v, b)]
  <2>1. Len(fill) = 8
    BY <1>f DEF FillsBy
  <2>2. Puts(ApplyAll(Segment, fill), Segment, x, NewEntry(x, k, v, b))
    <3>1. Puts(After(Segment, fill)[8], Segment, x, Filled(entries[x], x, k, v, b, 8))
      BY <1>1, FillStages
    <3>2. ApplyAll(Segment, fill) = After(Segment, fill)[8]
      BY <2>1 DEF ApplyAll
    <3>3. Filled(entries[x], x, k, v, b, 8) = NewEntry(x, k, v, b)
      BY <1>1, FilledIsNew
    <3> QED
      BY <3>1, <3>2, <3>3
  <2> HIDE DEF fill
  <2>3. PICK f : f = ApplyAll(Segment, fill).entries
    OBVIOUS
  <2>4. f \in [Slots -> Entry] /\ f[x] = NewEntry(x, k, v, b)
        /\ \A y \in Slots : y # x => f[y] = entries[y]
    BY <1>1, <2>2, <2>3, TableFields DEF Puts
  <2>5. f = [entries EXCEPT ![x] = NewEntry(x, k, v, b)]
    BY <1>1, <2>4
  <2> QED
    BY <2>3, <2>5
<1>4. LinkStores(i, k, v, b) = l
  <2>1. LastOf(ApplyAll(Segment, fill).entries, i) = last
    BY <1>3 DEF LastThen
  <2> HIDE DEF fill, last
  <2> QED
    BY <1>1, <1>2, <2>1 DEF LinkStores
<1>5. s \in Stores /\ t \in Stores /\ c \in NIL..N-1 /\ NIL \in NIL..N-1
  <2>1. c \in NIL..N-1 /\ NIL \in NIL..N-1
    BY Sizes DEF NIL
  <2> QED
    BY <1>1, <2>1, StoresTyped
<1>6. fill \in Seq(Stores) /\ Len(fill) = 8
  BY <1>f DEF FillsBy
<1>7. <<s, t>> \in Seq(Stores) /\ TwoSteps(ApplyAll(g, fill), s, t)
  <2> HIDE DEF s, t
  <2> QED
    BY <1>5, FewStores, AfterTwo
<1>8. Joined(g, fill, <<s, t>>)
  <2> HIDE DEF fill, s, t
  <2> QED
    BY <1>6, <1>7, AfterBoth
<1>9. \A n \in 0..8 : Puts(After(g, fill)[n], g, x, Filled(entries[x], x, k, v, b, n))
  BY <1>1, FillStages
<1> HIDE DEF fill, s, t, last
<1>10. l \in Seq(Stores) /\ Len(l) = 10
  BY <1>6, <1>7, <1>8 DEF Joined, TwoSteps
<1>11. \A n \in 0..8 : a[n] = After(g, fill)[n]
  BY <1>6, <1>8 DEF Joined
<1>12. a[9] = Apply(a[8], s) /\ a[10] = Apply(a[9], t)
  <2>1. a[8] = ApplyAll(g, fill)
    BY <1>6, <1>11 DEF ApplyAll
  <2>2. \A n \in 0..2 : a[8 + n] = After(ApplyAll(g, fill), <<s, t>>)[n]
    BY <1>6, <1>7, <1>8 DEF Joined, TwoSteps
  <2> HIDE DEF a
  <2>3. a[9] = After(ApplyAll(g, fill), <<s, t>>)[1] /\ a[10] = After(ApplyAll(g, fill), <<s, t>>)[2]
    BY <2>2
  <2> QED
    BY <1>7, <2>1, <2>3 DEF TwoSteps
<1>13. ApplyAll(g, l) = a[10]
  BY <1>10 DEF ApplyAll
<1> HIDE DEF a, l
<1>14. \A n \in 0..8 : Puts(a[n], g, x, Filled(entries[x], x, k, v, b, n))
  BY <1>9, <1>11
<1>15. a[8] \in Tables
  BY <1>14 DEF Puts
<1>l. last \in Slots
  BY DEF last
<1>16. Puts(a[9], a[8], last, Linked(a[8].entries[last], c))
  BY <1>5, <1>12, <1>15, <1>l, NextStore DEF s
<1>17. a[9] \in Tables
  BY <1>16 DEF Puts
<1>18. Puts(a[10], a[9], x, Linked(a[9].entries[x], NIL))
  BY <1>1, <1>5, <1>12, <1>17, NextStore DEF t
<1> QED
  BY <1>1, <1>4, <1>10, <1>13, <1>14, <1>16, <1>18 DEF LinkedBy, a, l, last

\* the last store of an insert
Taken(z, b, v) ==
  /\ z \in Tables
  /\ z.buckets = [buckets EXCEPT ![b] = [used |-> TRUE, val |-> v]]
  /\ z.entrycount = (entrycount + 1) % Word

\* arithmetic of the counter
LEMMA WordRange ==
  /\ \A n \in Int : n % Word \in 0..Word-1
  /\ \A n \in 0..Word-1 : n % Word = n
  /\ Word \in Nat /\ Word > 2 * N /\ Word > 0
BY WordAssumption, Sizes

PrimaryInserted(l, i, k, v, b) ==
  LET a == After(Segment, l)
  IN /\ Len(l) = 11
     /\ \A n \in 0..10 : Filling(a[n], i, k, v, b)
     /\ Taken(ApplyAll(Segment, l), b, v)
     /\ ApplyAll(Segment, l).entries = [entries EXCEPT ![i] = NewEntry(i, k, v, b)]

\* an insert into a primary entry, store by store
LEMMA PrimaryInsert ==
  ASSUME Segment \in Tables, clock \in Nat, NEW k \in Keys, NEW v \in Nat,
         Lowest(FreeBuckets) \in Primary, Index[k] \in Primary, ~entries[Index[k]].used
  PROVE  PrimaryInserted(InsertStores(k, v), Index[k], k, v, Lowest(FreeBuckets))
<1> DEFINE i == Index[k]
           b == Lowest(FreeBuckets)
           n1 == (entrycount + 1) % Word
           s == <<InBucket(b, "used", TRUE), InBucket(b, "val", v)>>
           t == FillStores(i, k, v, b)
           u == <<SetCount(n1)>>
           l == (s \o t) \o u
           a == After(Segment, l)
<1>1. i \in Slots /\ entries \in [Slots -> Entry] /\ Segment.entries = entries
      /\ Segment.entrycount = entrycount /\ Segment.buckets = buckets /\ entrycount \in Int
  <2>1. /\ Segment.entries = entries /\ Segment.entrycount = entrycount
        /\ Segment.buckets = buckets
    BY DEF Segment
  <2>2. Segment.entries \in [Slots -> Entry] /\ Segment.entrycount \in 0..Word-1
    BY TableFields
  <2> QED
    BY <2>1, <2>2, Sizes, WordRange
<1>2. InsertStores(k, v) = l
  BY DEF InsertStores, FillStores
<1>3. BucketTaken(s, Segment, b, v)
  BY BucketStages
<1>4. FillsBy(t, i, k, v, b)
  BY <1>1, FillList
<1>5. n1 \in 0..Word-1 /\ SetCount(n1) \in Stores
  BY <1>1, WordRange, StoresTyped
<1>6. u \in Seq(Stores) /\ Len(u) = 1
  <2> HIDE DEF n1
  <2> QED
    BY <1>5, FewStores
<1>7. PICK g \in Tables : /\ g = ApplyAll(Segment, s) /\ g = After(Segment, s)[2]
                          /\ g.entries = entries /\ g.entrycount = entrycount
                          /\ g.buckets = [buckets EXCEPT ![b] = [used |-> TRUE, val |-> v]]
  BY <1>1, <1>3 DEF BucketTaken
<1>8. \A n \in 0..8 : Puts(After(g, t)[n], g, i, Filled(entries[i], i, k, v, b, n))
  BY <1>1, <1>7, FillStages
<1> HIDE DEF s, t
<1>9. PICK f : f = ApplyAll(g, t) /\ f = After(g, t)[8]
  BY <1>4 DEF FillsBy, ApplyAll
<1>10. ThreeJoined(l, Segment, s, g, t, f, u)
  <2>1. s \in Seq(Stores) /\ t \in Seq(Stores)
    BY <1>3, <1>4 DEF BucketTaken, FillsBy
  <2> HIDE DEF u
  <2> QED
    BY <1>6, <1>7, <1>9, <2>1, AfterThree
<1>11. /\ Len(s) = 2 /\ Len(t) = 8 /\ Len(u) = 1
  BY <1>3, <1>4, <1>6 DEF BucketTaken, FillsBy
<1>12. f \in Tables /\ Puts(f, g, i, NewEntry(i, k, v, b))
  BY <1>1, <1>8, <1>9, FilledIsNew DEF Puts
<1>13. Len(l) = 11
  BY <1>10, <1>11 DEF ThreeJoined
<1>14. ASSUME NEW n \in 0..10 PROVE Filling(a[n], i, k, v, b)
  <2>1. CASE n \in 0..2
    <3>1. a[n] = After(Segment, s)[n]
      BY <1>10, <1>11, <2>1 DEF ThreeJoined
    <3>2. a[n] \in Tables /\ a[n].entries = entries /\ a[n].entrycount = entrycount
      BY <1>1, <1>3, <2>1, <3>1 DEF BucketTaken
    <3>3. 0 \in 0..8 /\ a[n].entries[i] = Filled(entries[i], i, k, v, b, 0)
      BY <1>1, <3>2, FilledNone
    <3> QED
      BY <3>2, <3>3 DEF Filling
  <2>2. CASE n \in 2..10
    <3>1. n - 2 \in 0..8 /\ n = 2 + (n - 2)
      BY <2>2
    <3>2. a[n] = After(g, t)[n - 2]
      <4> HIDE DEF l
      <4>1. \A m \in 0..8 : a[2 + m] = After(g, t)[m]
        BY <1>10, <1>11 DEF ThreeJoined
      <4> HIDE DEF a
      <4> QED
        BY <3>1, <4>1
    <3>3. Puts(a[n], g, i, Filled(entries[i], i, k, v, b, n - 2))
      BY <1>8, <3>1, <3>2
    <3> QED
      BY <1>7, <3>1, <3>3 DEF Puts, Filling
  <2> QED
    BY <2>1, <2>2
<1>15. PICK z : z = ApplyAll(Segment, l) /\ z = Apply(f, SetCount(n1))
  <2>1. ApplyAll(Segment, l) = ApplyAll(f, u)
    BY <1>10 DEF ThreeJoined
  <2>2. ApplyAll(f, u) = Apply(f, SetCount(n1))
    <3> HIDE DEF n1
    <3> QED
      BY <1>5, AfterOne DEF ApplyAll
  <2> QED
    BY <2>1, <2>2
<1>16. z \in Tables /\ z.entries = f.entries /\ z.buckets = f.buckets /\ z.entrycount = n1
  BY <1>5, <1>12, <1>15, CountStore
<1>17. f.entries = [entries EXCEPT ![i] = NewEntry(i, k, v, b)]
  <2>1. f.entries \in [Slots -> Entry] /\ f.entries[i] = NewEntry(i, k, v, b)
        /\ \A y \in Slots : y # i => f.entries[y] = entries[y]
    BY <1>7, <1>12, TableFields DEF Puts
  <2> QED
    BY <1>1, <2>1
<1>18. f.buckets = [buckets EXCEPT ![b] = [used |-> TRUE, val |-> v]]
  BY <1>7, <1>12 DEF Puts
<1>19. Taken(z, b, v)
  BY <1>16, <1>18 DEF Taken
<1> HIDE DEF l
<1> QED
  BY <1>2, <1>13, <1>14, <1>15, <1>16, <1>17, <1>19 DEF PrimaryInserted

\* entry x filled and linked to the end of its chain
Extended(x, last, k, v, b) ==
  IF last = x THEN [entries EXCEPT ![x] = NewEntry(x, k, v, b)]
  ELSE [entries EXCEPT ![x] = NewEntry(x, k, v, b), ![last].next = x - N]

CollisionInserted(l, x, last, k, v, b) ==
  LET a == After(Segment, l)
  IN /\ Len(l) = 13
     /\ \A n \in 0..10 : Filling(a[n], x, k, v, b)
     /\ last # x => \A n \in 11..12 : /\ a[n] \in Tables /\ a[n].entrycount = entrycount
                                      /\ a[n].entries = Extended(x, last, k, v, b)
     /\ Taken(ApplyAll(Segment, l), b, v)
     /\ ApplyAll(Segment, l).entries = Extended(x, last, k, v, b)

\* the new entry has the right type
LEMMA NewEntryTyped ==
  ASSUME NEW x \in Slots, NEW k \in Keys, NEW v \in Nat, NEW b \in Primary, clock \in Nat
  PROVE  /\ NewEntry(x, k, v, b) \in Entry
         /\ Linked(NewEntry(x, k, v, b), NIL) = NewEntry(x, k, v, b)
<1>1. PICK p \in Primary : p = IF x \in Primary THEN x ELSE x - N
  BY PlaceTyped DEF Place
<1>2. PICK e, T, c : /\ T = TRUE /\ c = clock /\ e = NewEntry(x, k, v, b)
                     /\ e = [used |-> T, key |-> k, next |-> NIL, bucket |-> b,
                             position |-> p, size |-> v, sec |-> c]
  BY <1>1 DEF NewEntry
<1>3. NIL \in NIL..N-1
  BY Sizes DEF NIL
<1>4. e \in Entry
  BY <1>2, <1>3 DEF Entry, Primary
<1>5. Linked(e, NIL) = e
  <2>1. e.next = NIL
    BY <1>2
  <2>2. PICK d \in Entry : d = e
    BY <1>4
  <2>3. d.next = NIL => [d EXCEPT !.next = NIL] = d
    BY DEF Entry
  <2> QED
    BY <2>1, <2>2, <2>3 DEF Linked
<1> QED
  BY <1>2, <1>4, <1>5

\* the entries after the link stores
LinkDone(a9, a10, g, x, last, k, v, b) ==
  /\ last # x => a9.entries = Extended(x, last, k, v, b)
  /\ a10.entries = Extended(x, last, k, v, b)
  /\ a9 \in Tables /\ a9.entrycount = g.entrycount
  /\ a10 \in Tables /\ a10.entrycount = g.entrycount /\ a10.buckets = g.buckets

\* the two stores that link a colliding entry
LEMMA LinkEnds ==
  ASSUME NEW g \in Tables, g.entries = entries, clock \in Nat,
         NEW k \in Keys, NEW v \in Nat, NEW b \in Primary, NEW x \in Collision, NEW last \in Slots,
         NEW a8, NEW a9, NEW a10,
         Puts(a8, g, x, NewEntry(x, k, v, b)),
         Puts(a9, a8, last, Linked(a8.entries[last], x - N)),
         Puts(a10, a9, x, Linked(a9.entries[x], NIL))
  PROVE  LinkDone(a9, a10, g, x, last, k, v, b)
<1> DEFINE e == NewEntry(x, k, v, b)
           m == x - N
<1>0. x \in Slots /\ m \in 0..N-1 /\ m \in NIL..N-1 /\ NIL \in NIL..N-1
      /\ entries \in [Slots -> Entry]
  <2>1. x \in Slots /\ NIL \in NIL..N-1 /\ m \in 0..N-1 /\ m \in NIL..N-1
    BY Sizes DEF Collision, NIL
  <2> QED
    BY <2>1, TableFields
<1>1. e \in Entry /\ Linked(e, NIL) = e
  BY <1>0, NewEntryTyped
<1> HIDE DEF e, m
<1>2. /\ a8 \in Tables /\ a8.entries \in [Slots -> Entry] /\ a8.entries[x] = e
      /\ \A y \in Slots : y # x => a8.entries[y] = entries[y]
  BY TableFields DEF Puts, e
<1>3. /\ a9 \in Tables /\ a9.entries \in [Slots -> Entry]
      /\ a9.entries[last] = Linked(a8.entries[last], m)
      /\ \A y \in Slots : y # last => a9.entries[y] = a8.entries[y]
  BY TableFields DEF Puts, m
<1>4. /\ a10 \in Tables /\ a10.entries \in [Slots -> Entry]
      /\ a10.entries[x] = Linked(a9.entries[x], NIL)
      /\ \A y \in Slots : y # x => a10.entries[y] = a9.entries[y]
  BY TableFields DEF Puts
<1>5. /\ a9.entrycount = g.entrycount
      /\ a10.entrycount = g.entrycount /\ a10.buckets = g.buckets
  BY DEF Puts
<1>6. ASSUME last # x
      PROVE  a9.entries = Extended(x, last, k, v, b) /\ a10.entries = Extended(x, last, k, v, b)
  <2>1. /\ a9.entries[x] = e /\ a10.entries[x] = e
        /\ a9.entries[last] = Linked(entries[last], m)
        /\ a10.entries[last] = Linked(entries[last], m)
        /\ \A y \in Slots : y # x /\ y # last => a9.entries[y] = entries[y]
                                                /\ a10.entries[y] = entries[y]
    BY <1>0, <1>1, <1>2, <1>3, <1>4, <1>6
  <2>2. PICK d : d = Linked(entries[last], m) /\ d = [entries[last] EXCEPT !.next = m]
    BY DEF Linked
  <2>3. Extended(x, last, k, v, b) = [entries EXCEPT ![x] = e, ![last] = d]
    <3>1. [entries EXCEPT ![x] = e][last] = entries[last]
      BY <1>0, <1>6
    <3> QED
      BY <1>6, <2>2, <3>1 DEF Extended, e, m
  <2>4. a9.entries = [entries EXCEPT ![x] = e, ![last] = d]
    BY <1>0, <1>3, <1>6, <2>1, <2>2
  <2>5. a10.entries = [entries EXCEPT ![x] = e, ![last] = d]
    BY <1>0, <1>4, <1>6, <2>1, <2>2
  <2> QED
    BY <2>3, <2>4, <2>5
<1>7. ASSUME last = x
      PROVE  a10.entries = Extended(x, last, k, v, b)
  <2>1. a10.entries[x] = e
    <3>1. a9.entries[x] = Linked(e, m)
      BY <1>2, <1>3, <1>7
    <3>2. Linked(Linked(e, m), NIL) = Linked(e, NIL)
      <4>1. PICK d \in Entry : d = e
        BY <1>1
      <4>2. [[d EXCEPT !.next = m] EXCEPT !.next = NIL] = [d EXCEPT !.next = NIL]
        BY DEF Entry
      <4> QED
        BY <4>1, <4>2 DEF Linked
    <3> QED
      BY <1>1, <1>4, <3>1, <3>2
  <2>2. \A y \in Slots : y # x => a10.entries[y] = entries[y]
    BY <1>2, <1>3, <1>4, <1>7
  <2>3. a10.entries = [entries EXCEPT ![x] = e]
    BY <1>0, <1>4, <2>1, <2>2
  <2> QED
    BY <1>7, <2>3 DEF Extended, e
<1> QED
  BY <1>3, <1>4, <1>5, <1>6, <1>7 DEF LinkDone

\* an insert that collides, store by store
LEMMA CollisionInsert ==
  ASSUME Segment \in Tables, clock \in Nat, NEW k \in Keys, NEW v \in Nat,
         Lowest(FreeBuckets) \in Primary, entries[Index[k]].used,
         FreeCollisionIndex \in 0..N-1, NEW x, x = N + FreeCollisionIndex,
         NEW last \in Slots, last = LastThen(Index[k], x, k, v, Lowest(FreeBuckets))
  PROVE  CollisionInserted(InsertStores(k, v), x, last, k, v, Lowest(FreeBuckets))
<1> DEFINE i == Index[k]
           b == Lowest(FreeBuckets)
           n1 == (entrycount + 1) % Word
           s == <<InBucket(b, "used", TRUE), InBucket(b, "val", v)>>
           t == LinkStores(i, k, v, b)
           u == <<SetCount(n1)>>
           l == (s \o t) \o u
           a == After(Segment, l)
<1>1. /\ Segment.entries = entries /\ Segment.entrycount = entrycount
      /\ Segment.buckets = buckets /\ entries \in [Slots -> Entry] /\ entrycount \in Int
  <2>1. /\ Segment.entries = entries /\ Segment.entrycount = entrycount
        /\ Segment.buckets = buckets
    BY DEF Segment
  <2>2. Segment.entries \in [Slots -> Entry] /\ Segment.entrycount \in 0..Word-1
    BY TableFields
  <2> QED
    BY <2>1, <2>2, WordRange
<1>x. x \in Collision /\ x \in Slots
  <2>1. x \in Collision
    BY Sizes DEF Collision
  <2> QED
    BY <2>1, Sizes
<1>2. InsertStores(k, v) = l
  BY DEF InsertStores
<1>3. BucketTaken(s, Segment, b, v)
  BY BucketStages
<1>5. n1 \in 0..Word-1 /\ SetCount(n1) \in Stores
  BY <1>1, WordRange, StoresTyped
<1>6. u \in Seq(Stores) /\ Len(u) = 1
  <2> HIDE DEF n1
  <2> QED
    BY <1>5, FewStores
<1>7. PICK g \in Tables : /\ g = ApplyAll(Segment, s) /\ g = After(Segment, s)[2]
                          /\ g.entries = entries /\ g.entrycount = entrycount
                          /\ g.buckets = [buckets EXCEPT ![b] = [used |-> TRUE, val |-> v]]
  BY <1>1, <1>3 DEF BucketTaken
<1>4. LinkedBy(t, g, x, last, k, v, b)
  BY <1>x, <1>7, LinkStages
<1> HIDE DEF s, t
<1>8. \A n \in 0..8 : Puts(After(g, t)[n], g, x, Filled(entries[x], x, k, v, b, n))
  BY <1>4 DEF LinkedBy
<1>9. PICK f : f = ApplyAll(g, t) /\ f = After(g, t)[10]
  BY <1>4 DEF LinkedBy
<1>10. ThreeJoined(l, Segment, s, g, t, f, u)
  <2>1. s \in Seq(Stores) /\ t \in Seq(Stores)
    BY <1>3, <1>4 DEF BucketTaken, LinkedBy
  <2> HIDE DEF u
  <2> QED
    BY <1>6, <1>7, <1>9, <2>1, AfterThree
<1>11. /\ Len(s) = 2 /\ Len(t) = 10 /\ Len(u) = 1
  BY <1>3, <1>4, <1>6 DEF BucketTaken, LinkedBy
<1>12. PICK a8, a9 : /\ a8 = After(g, t)[8] /\ a9 = After(g, t)[9]
                     /\ Puts(a8, g, x, NewEntry(x, k, v, b))
                     /\ Puts(a9, a8, last, Linked(a8.entries[last], x - N))
                     /\ Puts(f, a9, x, Linked(a9.entries[x], NIL))
  <2>1. Puts(After(g, t)[8], g, x, NewEntry(x, k, v, b))
    BY <1>x, <1>8, FilledIsNew
  <2>2. /\ Puts(After(g, t)[9], After(g, t)[8], last, Linked(After(g, t)[8].entries[last], x - N))
        /\ Puts(f, After(g, t)[9], x, Linked(After(g, t)[9].entries[x], NIL))
    BY <1>4, <1>9 DEF LinkedBy
  <2> QED
    BY <2>1, <2>2
<1>13. Len(l) = 13
  BY <1>10, <1>11 DEF ThreeJoined
<1>e. /\ last # x => a9.entries = Extended(x, last, k, v, b)
      /\ f.entries = Extended(x, last, k, v, b)
      /\ a9 \in Tables /\ a9.entrycount = g.entrycount
      /\ f \in Tables /\ f.entrycount = g.entrycount /\ f.buckets = g.buckets
  <2>1. LinkDone(a9, f, g, x, last, k, v, b)
    BY <1>x, <1>7, <1>12, LinkEnds
  <2> QED
    BY <2>1 DEF LinkDone
<1> HIDE DEF l
<1>m. \A m \in 0..10 : a[2 + m] = After(g, t)[m]
  BY <1>10, <1>11 DEF ThreeJoined
<1>14. ASSUME NEW n \in 0..10 PROVE Filling(a[n], x, k, v, b)
  <2>1. CASE n \in 0..2
    <3>1. a[n] = After(Segment, s)[n]
      BY <1>10, <1>11, <2>1 DEF ThreeJoined
    <3>2. a[n] \in Tables /\ a[n].entries = entries /\ a[n].entrycount = entrycount
      BY <1>1, <1>3, <2>1, <3>1 DEF BucketTaken
    <3>3. 0 \in 0..8 /\ a[n].entries[x] = Filled(entries[x], x, k, v, b, 0)
      BY <1>1, <1>x, <3>2, FilledNone
    <3> QED
      BY <3>2, <3>3 DEF Filling
  <2>2. CASE n \in 2..10
    <3>1. n - 2 \in 0..8 /\ n - 2 \in 0..10 /\ n = 2 + (n - 2)
      BY <2>2
    <3>2. a[n] = After(g, t)[n - 2]
      <4> HIDE DEF a
      <4> QED
        BY <1>m, <3>1
    <3>3. Puts(a[n], g, x, Filled(entries[x], x, k, v, b, n - 2))
      BY <1>8, <3>1, <3>2
    <3> QED
      BY <1>7, <3>1, <3>3 DEF Puts, Filling
  <2> QED
    BY <2>1, <2>2
<1>l. last # x => \A n \in 11..12 : /\ a[n] \in Tables /\ a[n].entrycount = entrycount
                                    /\ a[n].entries = Extended(x, last, k, v, b)
  <2> HIDE DEF a
  <2>1. a[11] = a9 /\ a[12] = f
    BY <1>9, <1>m, <1>12
  <2>2. \A n \in 11..12 : n = 11 \/ n = 12
    OBVIOUS
  <2> QED
    BY <1>7, <1>e, <2>1, <2>2
<1>15. PICK z : z = ApplyAll(Segment, l) /\ z = Apply(f, SetCount(n1))
  <2>1. ApplyAll(Segment, l) = ApplyAll(f, u)
    BY <1>10 DEF ThreeJoined
  <2>2. ApplyAll(f, u) = Apply(f, SetCount(n1))
    <3> HIDE DEF n1
    <3> QED
      BY <1>5, AfterOne DEF ApplyAll
  <2> QED
    BY <2>1, <2>2
<1>16. z \in Tables /\ z.entries = f.entries /\ z.buckets = f.buckets /\ z.entrycount = n1
  BY <1>5, <1>e, <1>15, CountStore
<1>19. Taken(z, b, v)
  BY <1>7, <1>e, <1>16 DEF Taken
<1> QED
  BY <1>2, <1>13, <1>14, <1>l, <1>15, <1>16, <1>e, <1>19 DEF CollisionInserted

-------------------------------------------------------------------------------
(* The stores of remove                                                    *)

\* the counter after a remove
Fewer == (entrycount + Word - 1) % Word

\* the bucket of entry s is free and the count down
Released(l, s) ==
  LET a == After(Segment, l)
      b == entries[s].bucket
  IN /\ l \in Seq(Stores) /\ Len(l) = 2
     /\ \A n \in 0..2 : a[n] \in Tables /\ a[n].entries = entries
     /\ \A n \in 0..1 : a[n].entrycount = entrycount
     /\ a[2].entrycount = Fewer
     /\ a[2].buckets = [buckets EXCEPT ![b].used = FALSE]
     /\ ApplyAll(Segment, l) = a[2]

\* a remove first frees the bucket and counts down
LEMMA ReleaseStages ==
  ASSUME Segment \in Tables, NEW s \in Slots
  PROVE  Released(<<InBucket(entries[s].bucket, "used", FALSE), SetCount(Fewer)>>, s)
<1> DEFINE b == entries[s].bucket
           x == InBucket(b, "used", FALSE)
           y == SetCount(Fewer)
           l == <<x, y>>
           a == After(Segment, l)
<1>1. /\ Segment.entries = entries /\ Segment.entrycount = entrycount
      /\ Segment.buckets = buckets
  BY DEF Segment
<1>2. /\ entries \in [Slots -> Entry] /\ entrycount \in 0..Word-1
      /\ buckets \in [Primary -> Bucket]
  <2>1. /\ Segment.entries \in [Slots -> Entry] /\ Segment.entrycount \in 0..Word-1
        /\ Segment.buckets \in [Primary -> Bucket]
    BY TableFields
  <2> QED
    BY <1>1, <2>1
<1>3. b \in Primary
  BY <1>2, EntryFields
<1>4. Fewer \in 0..Word-1
  BY <1>2, WordRange DEF Fewer
<1>5. x \in Stores /\ y \in Stores
  BY <1>3, <1>4, StoresTyped
<1>6. l \in Seq(Stores)
  <2> HIDE DEF x, y
  <2> QED
    BY <1>5, FewStores
<1>7. /\ Len(l) = 2 /\ a[0] = Segment /\ a[1] = Apply(Segment, x) /\ a[2] = Apply(a[1], y)
  <2>1. TwoSteps(Segment, x, y)
    <3> HIDE DEF x, y
    <3> QED
      BY <1>5, AfterTwo
  <2> QED
    BY <2>1 DEF TwoSteps
<1>8. ApplyAll(Segment, l) = a[2]
  BY <1>7 DEF ApplyAll
<1> HIDE DEF a, l
<1>9. PICK c \in Bucket : c = [buckets[b] EXCEPT !.used = FALSE]
  <2>1. buckets[b] \in Bucket
    BY <1>2, <1>3
  <2>2. [buckets[b] EXCEPT !.used = FALSE] \in Bucket
    BY <2>1 DEF Bucket
  <2> QED
    BY <2>2
<1>10. a[1] = WithBucket(Segment, b, c) /\ a[1] \in Tables
  <2>1. a[1] = WithBucket(Segment, b, [Segment.buckets[b] EXCEPT !.used = FALSE])
    BY <1>3, <1>7, BucketStore
  <2>2. a[1] = WithBucket(Segment, b, c)
    BY <1>1, <1>9, <2>1
  <2> QED
    BY <1>3, <1>9, <2>2, BucketStore
<1>11. /\ a[1].entries = entries /\ a[1].entrycount = entrycount
       /\ a[1].buckets = [buckets EXCEPT ![b] = c]
  BY <1>1, <1>10 DEF WithBucket
<1>12. /\ a[2] \in Tables /\ a[2].entries = entries /\ a[2].entrycount = Fewer
       /\ a[2].buckets = [buckets EXCEPT ![b] = c]
  <2>1. /\ Apply(a[1], y) = [entries |-> a[1].entries, buckets |-> a[1].buckets,
                             entrycount |-> Fewer]
        /\ Apply(a[1], y) \in Tables
    BY <1>4, <1>10, CountStore
  <2>2. PICK h \in Tables : h = a[1]
    BY <1>10
  <2>3. /\ Apply(h, y) = [entries |-> h.entries, buckets |-> h.buckets, entrycount |-> Fewer]
        /\ Apply(h, y) \in Tables
    BY <2>1, <2>2
  <2>4. PICK z : z = Apply(h, y)
    OBVIOUS
  <2>5. z \in Tables /\ z.entries = h.entries /\ z.buckets = h.buckets /\ z.entrycount = Fewer
    BY <2>3, <2>4
  <2>6. a[2] = z
    BY <1>7, <2>2, <2>4
  <2> QED
    BY <1>11, <2>2, <2>5, <2>6
<1>13. [buckets EXCEPT ![b] = c] = [buckets EXCEPT ![b].used = FALSE]
  BY <1>2, <1>3, <1>9
<1>14. a[0].entries = entries /\ a[0].entrycount = entrycount /\ a[0] \in Tables
  BY <1>1, <1>7
<1>15. \A n \in 0..2 : a[n] \in Tables /\ a[n].entries = entries
  <2>1. \A n \in 0..2 : n = 0 \/ n = 1 \/ n = 2
    OBVIOUS
  <2> QED
    BY <1>10, <1>11, <1>12, <1>14, <2>1
<1>16. \A n \in 0..1 : a[n].entrycount = entrycount
  <2>1. \A n \in 0..1 : n = 0 \/ n = 1
    OBVIOUS
  <2> QED
    BY <1>11, <1>14, <2>1
<1> QED
  BY <1>6, <1>7, <1>8, <1>12, <1>13, <1>15, <1>16 DEF Released, a, l

\* what is left of the stores, whichever of its three forms applies
FormStores(k) ==
  LET s == Found(entries, k)
      e == entries[s]
  IN IF FirstMatch(entries, k) > 0
     THEN <<InEntry(Previous(entries, k), "next", e.next), InEntry(s, "used", FALSE)>>
     ELSE IF e.next = NIL THEN <<InEntry(s, "used", FALSE)>>
     ELSE CopyStores(s, N + e.next)

\* the entries of a remove that is half done
HalfUnlinked(f, k) ==
  LET s == Found(entries, k)
      q == Previous(entries, k)
      t == N + entries[s].next
  IN \/ f = entries
     \/ FirstMatch(entries, k) > 0 /\ f = [entries EXCEPT ![q].next = entries[s].next]
     \/ /\ FirstMatch(entries, k) = 0 /\ entries[s].next # NIL
        /\ \E n \in 0..8 : f = [entries EXCEPT ![s] = Copied(s, t, n)]
     \/ /\ FirstMatch(entries, k) = 0 /\ entries[s].next # NIL
        /\ f = [entries EXCEPT ![s] = entries[t], ![t].used = FALSE]

FormDone(l, g, k) ==
  /\ l \in Seq(Stores)
  /\ \A n \in 0..Len(l)-1 : /\ After(g, l)[n] \in Tables
                            /\ After(g, l)[n].entrycount = g.entrycount
                            /\ HalfUnlinked(After(g, l)[n].entries, k)
  /\ ApplyAll(g, l) \in Tables
  /\ ApplyAll(g, l) = [g EXCEPT !.entries = Unlink(entries, k)]

\* a is the table g with the entries E
LEMMA OtherEntries ==
  ASSUME NEW a \in Tables, NEW g \in Tables, NEW E, a.entries = E,
         a.buckets = g.buckets, a.entrycount = g.entrycount
  PROVE  a = [g EXCEPT !.entries = E]
BY DEF Tables

\* a is the table g with the entry e at x
SameBut(a, g, x, e) ==
  /\ a \in Tables /\ a.entries = [g.entries EXCEPT ![x] = e]
  /\ a.buckets = g.buckets /\ a.entrycount = g.entrycount

\* one entry changed, as an EXCEPT
LEMMA PutsOne ==
  ASSUME NEW a, NEW g \in Tables, NEW x \in Slots, NEW e, Puts(a, g, x, e)
  PROVE  SameBut(a, g, x, e)
<1>1. a \in Tables
  BY DEF Puts
<1>2. a.entries \in [Slots -> Entry] /\ g.entries \in [Slots -> Entry]
  BY <1>1, TableFields
<1>3. a.entries[x] = e /\ \A t \in Slots : t # x => a.entries[t] = g.entries[t]
  BY DEF Puts
<1>4. a.entries = [g.entries EXCEPT ![x] = e]
  BY <1>2, <1>3
<1>5. a.buckets = g.buckets /\ a.entrycount = g.entrycount
  BY DEF Puts
<1> QED
  BY <1>1, <1>4, <1>5 DEF SameBut

\* a primary entry without a chain is marked unused
LEMMA FormOne ==
  ASSUME NEW g \in Tables, g.entries = entries, NEW k \in Keys, Matches(entries, k) # {},
         ~(FirstMatch(entries, k) > 0), entries[Found(entries, k)].next = NIL
  PROVE  FormDone(FormStores(k), g, k)
<1> DEFINE s == Found(entries, k)
           x == InEntry(s, "used", FALSE)
           l == <<x>>
           a == After(g, l)
<1>1. entries \in [Slots -> Entry]
  BY TableFields
<1>2. s \in Slots
  BY <1>1, FoundEntry DEF WellFound, UsedSlots
<1>3. FormStores(k) = l
  BY DEF FormStores
<1>4. x \in Stores
  BY <1>2, StoresTyped
<1>5. l \in Seq(Stores) /\ Len(l) = 1 /\ a[0] = g /\ a[1] = Apply(g, x)
  <2> HIDE DEF x
  <2> QED
    BY <1>4, FewStores, AfterOne
<1>6. ApplyAll(g, l) = a[1]
  BY <1>5 DEF ApplyAll
<1>7. Puts(a[1], g, s, Off(entries[s]))
  BY <1>2, <1>5, OffStore
<1> HIDE DEF a, l
<1>s. SameBut(a[1], g, s, Off(entries[s]))
  BY <1>2, <1>7, PutsOne
<1>8. /\ a[1].entries = [entries EXCEPT ![s] = Off(entries[s])] /\ a[1] \in Tables
      /\ a[1].buckets = g.buckets /\ a[1].entrycount = g.entrycount
  BY <1>s DEF SameBut
<1>9. Unlink(entries, k) = [entries EXCEPT ![s] = Off(entries[s])]
  BY <1>1, <1>2 DEF Unlink, Off
<1>10. a[1] = [g EXCEPT !.entries = Unlink(entries, k)]
  <2>1. PICK z : z = a[1]
    OBVIOUS
  <2>2. /\ z \in Tables /\ z.entries = Unlink(entries, k)
        /\ z.buckets = g.buckets /\ z.entrycount = g.entrycount
    BY <1>8, <1>9, <2>1
  <2> QED
    BY <2>1, <2>2, OtherEntries
<1>11. HalfUnlinked(entries, k)
  BY DEF HalfUnlinked
<1>12. \A n \in 0..Len(l)-1 : n = 0
  BY <1>5
<1> QED
  BY <1>3, <1>5, <1>6, <1>8, <1>10, <1>11, <1>12 DEF FormDone, a, l

\* a collision entry is unlinked and marked unused
LEMMA FormTwo ==
  ASSUME NEW g \in Tables, g.entries = entries, NEW k \in Keys, Matches(entries, k) # {},
         FirstMatch(entries, k) > 0
  PROVE  FormDone(FormStores(k), g, k)
<1> DEFINE s == Found(entries, k)
           q == Previous(entries, k)
           m == entries[s].next
           x == InEntry(q, "next", m)
           y == InEntry(s, "used", FALSE)
           l == <<x, y>>
           a == After(g, l)
<1>1. entries \in [Slots -> Entry]
  BY TableFields
<1>2. s \in Slots /\ q \in Slots /\ q # s
  BY <1>1, FoundEntry DEF WellFound, UsedSlots
<1>m. m \in NIL..N-1
  BY <1>1, <1>2, EntryFields
<1>3. FormStores(k) = l
  BY DEF FormStores
<1>4. x \in Stores /\ y \in Stores
  BY <1>2, <1>m, StoresTyped
<1>5. l \in Seq(Stores) /\ TwoSteps(g, x, y)
  <2> HIDE DEF x, y
  <2> QED
    BY <1>4, FewStores, AfterTwo
<1>6. Len(l) = 2 /\ a[0] = g /\ a[1] = Apply(g, x) /\ a[2] = Apply(a[1], y)
  BY <1>5 DEF TwoSteps
<1>7. ApplyAll(g, l) = a[2]
  BY <1>6 DEF ApplyAll
<1> HIDE DEF a, l
<1>8. Puts(a[1], g, q, Linked(entries[q], m))
  BY <1>2, <1>m, <1>6, NextStore
<1>s. SameBut(a[1], g, q, Linked(entries[q], m))
  BY <1>2, <1>8, PutsOne
<1>9. /\ a[1].entries = [entries EXCEPT ![q] = Linked(entries[q], m)] /\ a[1] \in Tables
      /\ a[1].buckets = g.buckets /\ a[1].entrycount = g.entrycount
  BY <1>s DEF SameBut
<1>h. PICK h \in Tables : h = a[1]
  BY <1>9
<1>10. a[1].entries[s] = entries[s]
  BY <1>1, <1>2, <1>9
<1>11. Puts(a[2], h, s, Off(entries[s]))
  BY <1>2, <1>6, <1>h, <1>10, OffStore
<1>t. SameBut(a[2], h, s, Off(entries[s]))
  BY <1>2, <1>11, PutsOne
<1>12. /\ a[2].entries = [a[1].entries EXCEPT ![s] = Off(entries[s])] /\ a[2] \in Tables
       /\ a[2].buckets = a[1].buckets /\ a[2].entrycount = a[1].entrycount
  BY <1>h, <1>t DEF SameBut
<1>13. Unlink(entries, k) = [entries EXCEPT ![q].next = m, ![s].used = FALSE]
  BY DEF Unlink
<1>14. [entries EXCEPT ![q].next = m] = [entries EXCEPT ![q] = Linked(entries[q], m)]
  BY <1>1, <1>2 DEF Linked
<1>15. Unlink(entries, k) = [a[1].entries EXCEPT ![s] = Off(entries[s])]
  <2>1. [entries EXCEPT ![q].next = m, ![s].used = FALSE]
          = [[entries EXCEPT ![q].next = m] EXCEPT ![s].used = FALSE]
    OBVIOUS
  <2>2. PICK f : f = a[1].entries
    OBVIOUS
  <2>3. [f EXCEPT ![s].used = FALSE] = [f EXCEPT ![s] = Off(entries[s])]
    <3>1. f[s] = entries[s]
      BY <1>10, <2>2
    <3> QED
      BY <3>1 DEF Off
  <2>4. [entries EXCEPT ![q].next = m] = f
    BY <1>9, <1>14, <2>2
  <2>5. Unlink(entries, k) = [f EXCEPT ![s].used = FALSE]
    BY <1>13, <2>1, <2>4
  <2> QED
    BY <2>2, <2>3, <2>5
<1>16. a[2] = [g EXCEPT !.entries = Unlink(entries, k)]
  <2>1. PICK z : z = a[2]
    OBVIOUS
  <2>2. /\ z \in Tables /\ z.entries = Unlink(entries, k)
        /\ z.buckets = g.buckets /\ z.entrycount = g.entrycount
    BY <1>9, <1>12, <1>15, <2>1
  <2> QED
    BY <2>1, <2>2, OtherEntries
<1>17. HalfUnlinked(entries, k) /\ HalfUnlinked(a[1].entries, k)
  BY <1>9, <1>14 DEF HalfUnlinked
<1>18. \A n \in 0..Len(l)-1 : n = 0 \/ n = 1
  BY <1>6
<1>19. \A n \in 0..Len(l)-1 : /\ a[n] \in Tables /\ a[n].entrycount = g.entrycount
                              /\ HalfUnlinked(a[n].entries, k)
  BY <1>6, <1>9, <1>17, <1>18
<1> QED
  BY <1>3, <1>5, <1>6, <1>7, <1>12, <1>16, <1>19 DEF FormDone, a

\* a primary entry is overwritten with the first of its chain
LEMMA FormCopy ==
  ASSUME NEW g \in Tables, g.entries = entries, NEW k \in Keys, Matches(entries, k) # {},
         ~(FirstMatch(entries, k) > 0), entries[Found(entries, k)].next # NIL
  PROVE  FormDone(FormStores(k), g, k)
<1> DEFINE s == Found(entries, k)
           t == N + entries[s].next
           e == entries[t]
           l == CopyStores(s, t)
           a == After(g, l)
<1>1. entries \in [Slots -> Entry]
  BY TableFields
<1>2. s \in Slots /\ s \in Primary /\ FirstMatch(entries, k) = 0
  <2>1. WellFound(k)
    BY <1>1, FoundEntry
  <2> QED
    BY <2>1, Sizes DEF WellFound, UsedSlots
<1>3. t \in Slots /\ s # t
  <2>1. entries[s].next \in NIL..N-1
    BY <1>1, <1>2, EntryFields
  <2>2. t \in Collision
    BY <2>1, Sizes DEF Collision, NIL
  <2> QED
    BY <1>2, <2>2, Sizes
<1>4. FormStores(k) = l
  BY DEF FormStores
<1>5. CopiesBy(l, s, t)
  BY <1>1, <1>2, <1>3, CopyList
<1>6. l \in Seq(Stores) /\ Len(l) = 10
  BY <1>5 DEF CopiesBy
<1>7. /\ \A n \in 0..8 : Puts(a[n], g, s, Copied(s, t, n))
      /\ Puts(a[9], a[8], t, Off(e))
      /\ Puts(a[10], a[9], s, Placed(e, entries[s].position))
  BY <1>2, <1>3, CopyStages
<1>8. ApplyAll(g, l) = a[10]
  BY <1>6 DEF ApplyAll
<1> HIDE DEF a, l
<1>9. ASSUME NEW n \in 0..8
      PROVE  /\ a[n].entries = [entries EXCEPT ![s] = Copied(s, t, n)]
             /\ a[n] \in Tables
             /\ a[n].buckets = g.buckets /\ a[n].entrycount = g.entrycount
  <2>1. Puts(a[n], g, s, Copied(s, t, n))
    BY <1>7
  <2>2. SameBut(a[n], g, s, Copied(s, t, n))
    BY <1>2, <2>1, PutsOne
  <2> QED
    BY <2>2 DEF SameBut
<1>10. Copied(s, t, 8) = e
  <2>1. PICK d \in Entry : d = entries[t]
    BY <1>1, <1>3
  <2>2. d = [used |-> d.used, key |-> d.key, next |-> d.next, bucket |-> d.bucket,
             position |-> d.position, size |-> d.size, sec |-> d.sec]
    BY DEF Entry
  <2> QED
    BY <2>1, <2>2 DEF Copied
<1>11. /\ a[8].entries = [entries EXCEPT ![s] = e] /\ a[8] \in Tables
       /\ a[8].buckets = g.buckets /\ a[8].entrycount = g.entrycount
  <2>1. 8 \in 0..8
    OBVIOUS
  <2> QED
    BY <1>9, <1>10, <2>1
<1>12. /\ a[9].entries = [a[8].entries EXCEPT ![t] = Off(e)] /\ a[9] \in Tables
       /\ a[9].buckets = a[8].buckets /\ a[9].entrycount = a[8].entrycount
  <2>1. PICK h \in Tables : h = a[8]
    BY <1>11
  <2>2. SameBut(a[9], h, t, Off(e))
    BY <1>3, <1>7, <2>1, PutsOne
  <2> QED
    BY <2>1, <2>2 DEF SameBut
<1>13. /\ a[10].entries = [a[9].entries EXCEPT ![s] = Placed(e, entries[s].position)]
       /\ a[10] \in Tables
       /\ a[10].buckets = a[9].buckets /\ a[10].entrycount = a[9].entrycount
  <2>1. PICK h \in Tables : h = a[9]
    BY <1>12
  <2>2. SameBut(a[10], h, s, Placed(e, entries[s].position))
    BY <1>2, <1>7, <2>1, PutsOne
  <2> QED
    BY <2>1, <2>2 DEF SameBut
<1>14. a[9].entries = [entries EXCEPT ![s] = entries[t], ![t].used = FALSE]
  <2>1. [entries EXCEPT ![s] = e][t] = e
    BY <1>1, <1>2, <1>3
  <2>2. [entries EXCEPT ![s] = e, ![t].used = FALSE]
          = [[entries EXCEPT ![s] = e] EXCEPT ![t] = Off(e)]
    BY <2>1 DEF Off
  <2> QED
    BY <1>11, <1>12, <2>2
<1>15. Unlink(entries, k) = a[10].entries
  <2>1. Unlink(entries, k) = [entries EXCEPT ![s] = Placed(e, entries[s].position),
                                             ![t].used = FALSE]
    BY <1>2 DEF Unlink, Placed
  <2>2. [entries EXCEPT ![s] = Placed(e, entries[s].position)][t] = e
    BY <1>1, <1>2, <1>3
  <2>3. [entries EXCEPT ![s] = Placed(e, entries[s].position), ![t].used = FALSE]
          = [[entries EXCEPT ![s] = Placed(e, entries[s].position)] EXCEPT ![t] = Off(e)]
    BY <2>2 DEF Off
  <2>4. [[entries EXCEPT ![s] = Placed(e, entries[s].position)] EXCEPT ![t] = Off(e)]
          = [[[entries EXCEPT ![s] = e] EXCEPT ![t] = Off(e)]
               EXCEPT ![s] = Placed(e, entries[s].position)]
    BY <1>1, <1>2, <1>3
  <2> QED
    BY <1>11, <1>12, <1>13, <2>1, <2>3, <2>4
<1>16. a[10] = [g EXCEPT !.entries = Unlink(entries, k)]
  <2>1. PICK z : z = a[10]
    OBVIOUS
  <2>2. /\ z \in Tables /\ z.entries = Unlink(entries, k)
        /\ z.buckets = g.buckets /\ z.entrycount = g.entrycount
    BY <1>11, <1>12, <1>13, <1>15, <2>1
  <2> QED
    BY <2>1, <2>2, OtherEntries
<1>17. ASSUME NEW n \in 0..Len(l)-1
       PROVE  /\ a[n] \in Tables /\ a[n].entrycount = g.entrycount
              /\ HalfUnlinked(a[n].entries, k)
  <2>1. n \in 0..8 \/ n = 9
    BY <1>6, <1>17
  <2>2. CASE n \in 0..8
    BY <1>2, <1>9, <2>2 DEF HalfUnlinked
  <2>3. CASE n = 9
    BY <1>2, <1>11, <1>12, <1>14, <2>3 DEF HalfUnlinked
  <2> QED
    BY <2>1, <2>2, <2>3
<1> QED
  BY <1>4, <1>6, <1>8, <1>13, <1>16, <1>17 DEF FormDone, a

\* a whole remove is that of ShmhtTable, with the counter a word
Removed(l, k) ==
  LET a == After(Segment, l)
      z == ApplyAll(Segment, l)
  IN /\ Len(l) \in Nat
     /\ \A n \in 0..Len(l)-1 :
          /\ a[n] \in Tables /\ HalfUnlinked(a[n].entries, k)
          /\ \/ a[n].entrycount = Fewer
             \/ a[n].entries = entries /\ a[n].entrycount = entrycount
     /\ z \in Tables /\ z.entries = Unlink(entries, k) /\ z.entrycount = Fewer
     /\ z.buckets = [buckets EXCEPT ![entries[Found(entries, k)].bucket].used = FALSE]

\* a remove, store by store
LEMMA RemoveStages ==
  ASSUME Segment \in Tables, NEW k \in Keys, Matches(entries, k) # {}
  PROVE  Removed(RemoveStores(k), k)
<1> DEFINE s == Found(entries, k)
           t == <<InBucket(entries[s].bucket, "used", FALSE), SetCount(Fewer)>>
           u == FormStores(k)
           l == t \o u
           a == After(Segment, l)
<1>1. Segment.entries = entries /\ entries \in [Slots -> Entry]
  <2>1. Segment.entries = entries
    BY DEF Segment
  <2> QED
    BY <2>1, TableFields
<1>2. s \in Slots
  BY <1>1, FoundEntry DEF WellFound, UsedSlots
<1>3. RemoveStores(k) = l
  BY DEF RemoveStores, FormStores, Fewer
<1>4. Released(t, s)
  BY <1>2, ReleaseStages
<1>5. PICK g \in Tables : /\ g = ApplyAll(Segment, t) /\ g.entries = entries
                          /\ g.entrycount = Fewer
                          /\ g.buckets = [buckets EXCEPT ![entries[s].bucket].used = FALSE]
  BY <1>4 DEF Released
<1>6. FormDone(u, g, k)
  BY <1>5, FormOne, FormTwo, FormCopy
<1> HIDE DEF t, u
<1>7. t \in Seq(Stores) /\ u \in Seq(Stores) /\ Len(t) = 2 /\ Len(u) \in Nat
  BY <1>4, <1>6 DEF Released, FormDone
<1>8. Joined(Segment, t, u)
  BY <1>7, AfterBoth
<1>9. /\ Len(l) = 2 + Len(u)
      /\ \A n \in 0..2 : a[n] = After(Segment, t)[n]
      /\ \A n \in 0..Len(u) : a[2 + n] = After(g, u)[n]
  BY <1>5, <1>7, <1>8 DEF Joined
<1>10. ApplyAll(Segment, l) = a[Len(l)]
  BY DEF ApplyAll
<1> HIDE DEF a, l
<1>11. ApplyAll(Segment, l) = ApplyAll(g, u)
  <2>1. Len(u) \in 0..Len(u)
    BY <1>7
  <2> QED
    BY <1>9, <1>10, <2>1 DEF ApplyAll
<1>12. ASSUME NEW n \in 0..Len(l)-1
       PROVE  /\ a[n] \in Tables /\ HalfUnlinked(a[n].entries, k)
              /\ \/ a[n].entrycount = Fewer
                 \/ a[n].entries = entries /\ a[n].entrycount = entrycount
  <2>1. CASE n \in 0..2
    <3>1. a[n] = After(Segment, t)[n]
      BY <1>9, <2>1
    <3>2. a[n] \in Tables /\ a[n].entries = entries
      BY <1>4, <2>1, <3>1 DEF Released
    <3>3. a[n].entrycount = Fewer \/ a[n].entrycount = entrycount
      <4>1. n \in 0..1 \/ n = 2
        BY <2>1
      <4> QED
        BY <1>4, <3>1, <4>1 DEF Released
    <3> QED
      BY <3>2, <3>3 DEF HalfUnlinked
  <2>2. CASE n \notin 0..2
    <3>1. n - 2 \in 0..Len(u)-1 /\ n - 2 \in 0..Len(u) /\ 2 + (n - 2) = n
      BY <1>7, <1>9, <1>12, <2>2
    <3>2. a[n] = After(g, u)[n - 2]
      BY <1>9, <3>1
    <3> QED
      BY <1>5, <1>6, <3>1, <3>2 DEF FormDone
  <2> QED
    BY <2>1, <2>2
<1>13. PICK z : z = ApplyAll(Segment, l) /\ z \in Tables
                /\ z = [g EXCEPT !.entries = Unlink(entries, k)]
  BY <1>6, <1>11 DEF FormDone
<1>14. z.entries = Unlink(entries, k) /\ z.entrycount = g.entrycount /\ z.buckets = g.buckets
  BY <1>13 DEF Tables
<1>15. Len(l) \in Nat
  BY <1>7, <1>9
<1> QED
  BY <1>3, <1>5, <1>12, <1>13, <1>14, <1>15 DEF Removed, a

-------------------------------------------------------------------------------
(* The stores of flush                                                     *)

BucketOff(b) == [buckets[b] EXCEPT !.used = FALSE]

\* the first x entries and the first y buckets are cleared
FlushedTo(x, y) ==
  [entries |-> [s \in Slots |-> IF s < x THEN Off(entries[s]) ELSE entries[s]],
   buckets |-> [b \in Primary |-> IF b < y THEN BucketOff(b) ELSE buckets[b]],
   entrycount |-> entrycount]

\* where flush is after n stores
Cleared(n) == IF n <= N THEN FlushedTo(0, n) ELSE FlushedTo(n - N, N)

FlushList(l) ==
  /\ Len(l) = 3 * N + 1
  /\ \A n \in 1..N : l[n] = InBucket(n - 1, "used", FALSE)
  /\ \A n \in N+1..3*N : l[n] = InEntry((n - N) - 1, "used", FALSE)
  /\ l[3 * N + 1] = SetCount(0)

\* w is the list s of length n and then the list t of length m
Then(w, s, n, t, m) ==
  /\ Len(w) = n + m
  /\ \A j \in 1..n : w[j] = s[j]
  /\ \A j \in 1..m : w[n + j] = t[j]

LEMMA Appended ==
  ASSUME NEW X, NEW s \in Seq(X), NEW t \in Seq(X), NEW n, NEW m, Len(s) = n, Len(t) = m
  PROVE  s \o t \in Seq(X) /\ Then(s \o t, s, n, t, m)
BY DEF Then

\* the stores of a flush: buckets, entries, the counter
LEMMA FlushLists == FlushList(FlushStores)
<1> DEFINE s == [n \in 1..N |-> InBucket(n - 1, "used", FALSE)]
           t == [n \in 1..2*N |-> InEntry(n - 1, "used", FALSE)]
           u == <<SetCount(0)>>
           S == {s[n] : n \in 1..N} \cup {t[n] : n \in 1..2*N} \cup {SetCount(0)}
<1>1. N \in Nat /\ N > 0 /\ 2 * N \in Nat
  BY Sizes
<1>2. /\ \A n \in 1..N : s[n] = InBucket(n - 1, "used", FALSE)
      /\ \A n \in 1..2*N : t[n] = InEntry(n - 1, "used", FALSE)
  OBVIOUS
<1>3. s \in Seq(S) /\ Len(s) = N
  <2>1. s \in [1..N -> S]
    OBVIOUS
  <2> HIDE DEF s, S
  <2> QED
    BY <1>1, <2>1
<1>4. t \in Seq(S) /\ Len(t) = 2 * N
  <2>1. t \in [1..2*N -> S]
    OBVIOUS
  <2> HIDE DEF t, S
  <2> QED
    BY <1>1, <2>1
<1>5. u \in Seq(S) /\ Len(u) = 1 /\ u[1] = SetCount(0)
  <2>1. SetCount(0) \in S
    OBVIOUS
  <2> HIDE DEF S
  <2> QED
    BY <2>1
<1>6. FlushStores = (s \o t) \o u
  BY DEF FlushStores
<1> HIDE DEF s, t, u, S
<1>c. PICK w \in Seq(S) : w = s \o t /\ Then(w, s, N, t, 2 * N)
  BY <1>3, <1>4, Appended
<1>7. /\ Len(w) = N + 2 * N
      /\ \A n \in 1..N : w[n] = s[n]
      /\ \A n \in 1..2*N : w[N + n] = t[n]
  BY <1>c DEF Then
<1>8. Len(w) = 3 * N
  BY <1>1, <1>7
<1>9. PICK l : l = w \o u
  OBVIOUS
<1>10. Len(l) = 3 * N + 1 /\ l[3 * N + 1] = u[1] /\ \A n \in 1..3*N : l[n] = w[n]
  <2>1. Then(w \o u, w, 3 * N, u, 1)
    BY <1>5, <1>8, Appended
  <2>2. 1 \in 1..1
    OBVIOUS
  <2> QED
    BY <1>9, <2>1, <2>2 DEF Then
<1>11. \A n \in 1..N : n \in 1..3*N
  BY <1>1
<1>12. \A n \in N+1..3*N : n \in 1..3*N /\ n - N \in 1..2*N /\ N + (n - N) = n
  BY <1>1
<1>13. \A n \in 1..N : l[n] = InBucket(n - 1, "used", FALSE)
  BY <1>2, <1>7, <1>10, <1>11
<1>14. \A n \in N+1..3*N : l[n] = InEntry((n - N) - 1, "used", FALSE)
  <2>1. SUFFICES ASSUME NEW n \in N+1..3*N PROVE l[n] = InEntry((n - N) - 1, "used", FALSE)
    OBVIOUS
  <2>2. PICK m \in 1..2*N : m = n - N /\ N + m = n
    BY <1>12
  <2>3. l[n] = w[n] /\ w[n] = t[m] /\ t[m] = InEntry(m - 1, "used", FALSE)
    BY <1>2, <1>7, <1>10, <1>12, <2>2
  <2> QED
    BY <2>2, <2>3
<1> QED
  BY <1>5, <1>6, <1>c, <1>9, <1>10, <1>13, <1>14 DEF FlushList

\* a table flushed up to some bucket and some entry
LEMMA FlushedTyped ==
  ASSUME Segment \in Tables, NEW x, NEW y
  PROVE  FlushedTo(x, y) \in Tables
<1>1. entries \in [Slots -> Entry] /\ buckets \in [Primary -> Bucket] /\ entrycount \in 0..Word-1
  <2>1. /\ Segment.entries \in [Slots -> Entry] /\ Segment.buckets \in [Primary -> Bucket]
        /\ Segment.entrycount \in 0..Word-1
    BY TableFields
  <2> QED
    BY <2>1 DEF Segment
<1>2. \A s \in Slots : Off(entries[s]) \in Entry
  BY <1>1, OffEntry
<1>3. \A b \in Primary : BucketOff(b) \in Bucket
  BY <1>1 DEF BucketOff, Bucket
<1>4. PICK f : f = [s \in Slots |-> IF s < x THEN Off(entries[s]) ELSE entries[s]]
  OBVIOUS
<1>5. PICK g : g = [b \in Primary |-> IF b < y THEN BucketOff(b) ELSE buckets[b]]
  OBVIOUS
<1>6. f \in [Slots -> Entry]
  BY <1>1, <1>2, <1>4
<1>7. g \in [Primary -> Bucket]
  BY <1>1, <1>3, <1>5
<1>8. FlushedTo(x, y) = [entries |-> f, buckets |-> g, entrycount |-> entrycount]
  BY <1>4, <1>5 DEF FlushedTo
<1> QED
  BY <1>1, <1>6, <1>7, <1>8 DEF Tables

LEMMA FlushBucket ==
  ASSUME Segment \in Tables, NEW y \in Primary
  PROVE  Apply(FlushedTo(0, y), InBucket(y, "used", FALSE)) = FlushedTo(0, y + 1)
<1>1. PICK h \in Tables : h = FlushedTo(0, y)
  BY FlushedTyped
<1>2. PICK E : E = [s \in Slots |-> IF s < 0 THEN Off(entries[s]) ELSE entries[s]]
  OBVIOUS
<1>3. PICK g : g = [b \in Primary |-> IF b < y THEN BucketOff(b) ELSE buckets[b]]
  OBVIOUS
<1>4. h.entries = E /\ h.buckets = g /\ h.entrycount = entrycount
  BY <1>1, <1>2, <1>3 DEF FlushedTo
<1>5. g[y] = buckets[y]
  BY <1>3 DEF Primary
<1>6. Apply(h, InBucket(y, "used", FALSE)) =
        [entries |-> E, buckets |-> [g EXCEPT ![y] = BucketOff(y)], entrycount |-> entrycount]
  <2>1. Apply(h, InBucket(y, "used", FALSE)) = WithBucket(h, y, [h.buckets[y] EXCEPT !.used = FALSE])
    BY BucketStore
  <2>2. [h.buckets[y] EXCEPT !.used = FALSE] = BucketOff(y)
    BY <1>4, <1>5 DEF BucketOff
  <2> QED
    BY <1>4, <2>1, <2>2 DEF WithBucket
<1>7. [g EXCEPT ![y] = BucketOff(y)] =
        [b \in Primary |-> IF b < y + 1 THEN BucketOff(b) ELSE buckets[b]]
  BY <1>3, Sizes DEF Primary
<1> QED
  BY <1>1, <1>2, <1>6, <1>7 DEF FlushedTo

LEMMA FlushEntry ==
  ASSUME Segment \in Tables, NEW x \in Slots
  PROVE  Apply(FlushedTo(x, N), InEntry(x, "used", FALSE)) = FlushedTo(x + 1, N)
<1>1. PICK h \in Tables : h = FlushedTo(x, N)
  BY FlushedTyped
<1>2. PICK E : E = [s \in Slots |-> IF s < x THEN Off(entries[s]) ELSE entries[s]]
  OBVIOUS
<1>3. PICK g : g = [b \in Primary |-> IF b < N THEN BucketOff(b) ELSE buckets[b]]
  OBVIOUS
<1>4. h.entries = E /\ h.buckets = g /\ h.entrycount = entrycount
  BY <1>1, <1>2, <1>3 DEF FlushedTo
<1>5. E[x] = entries[x]
  BY <1>2, Sizes DEF Slots
<1>6. Apply(h, InEntry(x, "used", FALSE)) =
        [entries |-> [E EXCEPT ![x] = Off(entries[x])], buckets |-> g, entrycount |-> entrycount]
  <2>1. PICK a : a = Apply(h, InEntry(x, "used", FALSE))
    OBVIOUS
  <2>2. Puts(a, h, x, Off(entries[x]))
    BY <1>4, <1>5, <2>1, OffStore
  <2>3. SameBut(a, h, x, Off(entries[x]))
    BY <2>2, PutsOne
  <2>4. a = [entries |-> a.entries, buckets |-> a.buckets, entrycount |-> a.entrycount]
    BY <2>3, TableFields DEF SameBut
  <2> QED
    BY <1>4, <2>1, <2>3, <2>4 DEF SameBut
<1>7. [E EXCEPT ![x] = Off(entries[x])] =
        [s \in Slots |-> IF s < x + 1 THEN Off(entries[s]) ELSE entries[s]]
  BY <1>2, Sizes DEF Slots
<1> QED
  BY <1>1, <1>3, <1>6, <1>7 DEF FlushedTo

\* a flush that is half done, and one that is done
HalfFlushed(h) ==
  /\ h \in Tables /\ h.entrycount = entrycount
  /\ \A s \in Slots : /\ h.entries[s].next = entries[s].next
                      /\ h.entries[s].used => entries[s].used

AllFlushed(l) ==
  /\ Len(l) \in Nat
  /\ \A n \in 0..Len(l)-1 : HalfFlushed(After(Segment, l)[n])
  /\ ApplyAll(Segment, l) =
       [entries |-> [s \in Slots |-> [entries[s] EXCEPT !.used = FALSE]],
        buckets |-> [b \in Primary |-> [buckets[b] EXCEPT !.used = FALSE]],
        entrycount |-> 0]

LEMMA FlushedHalf ==
  ASSUME Segment \in Tables, NEW x, NEW y
  PROVE  HalfFlushed(FlushedTo(x, y))
<1>1. entries \in [Slots -> Entry]
  <2>1. Segment.entries \in [Slots -> Entry]
    BY TableFields
  <2> QED
    BY <2>1 DEF Segment
<1>2. PICK h \in Tables : h = FlushedTo(x, y)
  BY FlushedTyped
<1>3. ASSUME NEW s \in Slots
      PROVE  h.entries[s] = Off(entries[s]) \/ h.entries[s] = entries[s]
  BY <1>2 DEF FlushedTo
<1>4. \A s \in Slots : Off(entries[s]).next = entries[s].next /\ ~Off(entries[s]).used
  <2>1. \A e \in Entry : [e EXCEPT !.used = FALSE].next = e.next /\ ~[e EXCEPT !.used = FALSE].used
    BY DEF Entry
  <2> QED
    BY <1>1, <2>1 DEF Off
<1>5. h.entrycount = entrycount
  BY <1>2 DEF FlushedTo
<1>6. \A s \in Slots : h.entries[s].next = entries[s].next /\ (h.entries[s].used => entries[s].used)
  BY <1>3, <1>4
<1> QED
  BY <1>2, <1>5, <1>6 DEF HalfFlushed

\* a flush, store by store
LEMMA FlushStages ==
  ASSUME Segment \in Tables
  PROVE  AllFlushed(FlushStores)
<1> DEFINE l == FlushStores
           a == After(Segment, l)
           S == [n \in 0..3*N |-> {Cleared(n)}]
<1>1. N \in Nat /\ N > 0 /\ 3 * N \in Nat
  BY Sizes
<1>2. FlushList(l)
  BY FlushLists
<1>3. Len(l) = 3 * N + 1 /\ Len(l) \in Nat /\ 3 * N \in 0..Len(l)
  BY <1>1, <1>2 DEF FlushList
<1>s. \A n \in 0..3*N : S[n] = {Cleared(n)}
  OBVIOUS
<1> HIDE DEF l, S
<1>4. Stages(S, Segment, l, 3 * N)
  <2>1. Segment \in S[0]
    <3>0. entries \in [Slots -> Entry] /\ buckets \in [Primary -> Bucket]
      <4>1. Segment.entries \in [Slots -> Entry] /\ Segment.buckets \in [Primary -> Bucket]
        BY TableFields
      <4> QED
        BY <4>1 DEF Segment
    <3>1. entries = [s \in Slots |-> IF s < 0 THEN Off(entries[s]) ELSE entries[s]]
      BY <3>0, Sizes DEF Slots
    <3>2. buckets = [b \in Primary |-> IF b < 0 THEN BucketOff(b) ELSE buckets[b]]
      BY <3>0 DEF Primary
    <3>3. Segment = FlushedTo(0, 0)
      BY <3>1, <3>2 DEF Segment, FlushedTo
    <3> QED
      BY <1>1, <1>s, <3>3 DEF Cleared
  <2>2. ASSUME NEW n \in 1..3*N
        PROVE  Apply(Cleared(n - 1), l[n]) = Cleared(n)
    <3>1. CASE n \in 1..N
      <4>1. n - 1 \in Primary /\ (n - 1) + 1 = n /\ n - 1 <= N /\ n <= N
        BY <1>1, <3>1 DEF Primary
      <4>2. Cleared(n - 1) = FlushedTo(0, n - 1) /\ Cleared(n) = FlushedTo(0, n)
        BY <4>1 DEF Cleared
      <4>3. l[n] = InBucket(n - 1, "used", FALSE)
        BY <1>2, <3>1 DEF FlushList
      <4> QED
        BY <4>1, <4>2, <4>3, FlushBucket
    <3>2. CASE n \in N+1..3*N
      <4>1. PICK x \in Slots : x = (n - N) - 1
        BY <1>1, <3>2 DEF Slots
      <4>2. x + 1 = n - N /\ x = (n - 1) - N /\ ~(n <= N)
        BY <1>1, <3>2, <4>1
      <4>3. Cleared(n) = FlushedTo(x + 1, N)
        BY <4>2 DEF Cleared
      <4>4. Cleared(n - 1) = FlushedTo(x, N)
        <5>1. CASE n - 1 = N
          BY <1>1, <4>2, <5>1 DEF Cleared
        <5>2. CASE ~(n - 1 <= N)
          BY <4>2, <5>2 DEF Cleared
        <5> QED
          BY <1>1, <3>2, <5>1, <5>2
      <4>5. l[n] = InEntry(x, "used", FALSE)
        BY <1>2, <3>2, <4>1 DEF FlushList
      <4> QED
        BY <4>3, <4>4, <4>5, FlushEntry
    <3> QED
      BY <1>1, <3>1, <3>2
  <2>3. \A n \in 1..3*N : n - 1 \in 0..3*N /\ n \in 0..3*N
    BY <1>1
  <2> QED
    BY <1>s, <2>1, <2>2, <2>3 DEF Stages
<1>5. \A n \in 0..3*N : a[n] = Cleared(n)
  <2>1. \A n \in 0..3*N : a[n] \in S[n]
    BY <1>3, <1>4, AfterStages
  <2> QED
    BY <1>s, <2>1
<1>6. a[3*N + 1] = Apply(a[3*N], SetCount(0))
  <2>1. 3*N + 1 \in 1..Len(l) /\ (3*N + 1) - 1 = 3*N
    BY <1>1, <1>3
  <2>2. l[3*N + 1] = SetCount(0)
    BY <1>2 DEF FlushList
  <2>3. a[3*N + 1] = Apply(a[(3*N + 1) - 1], l[3*N + 1])
    BY <1>3, <2>1, AfterSteps
  <2> QED
    BY <2>1, <2>2, <2>3
<1>7. ApplyAll(Segment, l) = a[3*N + 1]
  BY <1>3 DEF ApplyAll
<1> HIDE DEF a
<1>8. \A n \in 0..Len(l)-1 : HalfFlushed(a[n])
  <2>1. \A n \in 0..Len(l)-1 : n \in 0..3*N
    BY <1>1, <1>3
  <2>2. \A n \in 0..3*N : HalfFlushed(Cleared(n))
    BY FlushedHalf DEF Cleared
  <2> QED
    BY <1>5, <2>1, <2>2
<1>9. a[3*N] = FlushedTo(2*N, N)
  <2>1. 3*N \in 0..3*N /\ ~(3*N <= N) /\ 3*N - N = 2*N
    BY <1>1
  <2> QED
    BY <1>5, <2>1 DEF Cleared
<1>10. ApplyAll(Segment, l) =
         [entries |-> [s \in Slots |-> [entries[s] EXCEPT !.used = FALSE]],
          buckets |-> [b \in Primary |-> [buckets[b] EXCEPT !.used = FALSE]],
          entrycount |-> 0]
  <2>1. PICK h \in Tables : h = FlushedTo(2*N, N)
    BY FlushedTyped
  <2>2. ApplyAll(Segment, l) = [entries |-> h.entries, buckets |-> h.buckets, entrycount |-> 0]
    <3>1. 0 \in 0..Word-1
      BY WordRange
    <3> QED
      BY <1>6, <1>7, <1>9, <2>1, <3>1, CountStore
  <2>3. h.entries = [s \in Slots |-> [entries[s] EXCEPT !.used = FALSE]]
    <3>1. \A s \in Slots : s < 2*N
      BY <1>1 DEF Slots
    <3>2. h.entries = [s \in Slots |-> IF s < 2*N THEN Off(entries[s]) ELSE entries[s]]
      BY <2>1 DEF FlushedTo
    <3> QED
      BY <3>1, <3>2 DEF Off
  <2>4. h.buckets = [b \in Primary |-> [buckets[b] EXCEPT !.used = FALSE]]
    <3>1. \A b \in Primary : b < N
      BY <1>1 DEF Primary
    <3>2. h.buckets = [b \in Primary |-> IF b < N THEN BucketOff(b) ELSE buckets[b]]
      BY <2>1 DEF FlushedTo
    <3> QED
      BY <3>1, <3>2 DEF BucketOff
  <2> QED
    BY <2>2, <2>3, <2>4
<1> QED
  BY <1>3, <1>8, <1>10 DEF AllFlushed, a, l

-------------------------------------------------------------------------------
(* The links of a table, those in unused entries included                  *)

Leads(e, s, t) == e[s].next # NIL /\ N + e[s].next = t

\* They go round in no circle, except that the zeroed entry N leads to itself.
Ranks(e, rank) ==
  /\ rank \in [Slots -> Nat]
  /\ \A s, t \in Slots : Leads(e, s, t) => rank[s] < rank[t] \/ (s = N /\ t = N)

NoCircle(e) == \E rank : Ranks(e, rank)

\* If it does, whatever leads to it comes from nowhere and is not in use with it.
LoopApart(e) ==
  Leads(e, N, N) =>
    \A s \in Slots : s # N /\ Leads(e, s, N) =>
      (e[N].used => ~e[s].used) /\ \A u \in Slots : ~Leads(e, u, s)

Shape(e) == e \in [Slots -> Entry] /\ NoCircle(e) /\ LoopApart(e)

\* the slot that 0 in next leads to
LEMMA LoopSlot == N \in Slots /\ N \in Collision /\ N \notin Primary
BY Sizes DEF Slots, Collision, Primary

\* links lead into the collision area
LEMMA LeadsOut ==
  ASSUME NEW e \in [Slots -> Entry], NEW s \in Slots, NEW t, Leads(e, s, t)
  PROVE  t \in Collision /\ t \in Slots /\ t # NIL
<1>1. e[s].next \in NIL..N-1
  BY EntryFields
<1>2. t \in Collision
  BY <1>1, Sizes DEF Leads, NIL, Collision
<1> QED
  BY <1>2, Sizes

\* the same links, fewer entries in use
LEMMA ShapeFewer ==
  ASSUME NEW e, NEW f \in [Slots -> Entry], Shape(e),
         \A s \in Slots : f[s].next = e[s].next /\ (f[s].used => e[s].used)
  PROVE  Shape(f)
<1>1. \A s, t \in Slots : Leads(f, s, t) <=> Leads(e, s, t)
  BY DEF Leads
<1>2. NoCircle(f)
  BY <1>1 DEF Shape, NoCircle, Ranks
<1>3. LoopApart(f)
  BY <1>1, LoopSlot DEF Shape, LoopApart
<1> QED
  BY <1>2, <1>3 DEF Shape

\* entry x leads nowhere now
LEMMA ShapeCut ==
  ASSUME NEW e, NEW f \in [Slots -> Entry], Shape(e), NEW x \in Slots, f[x].next = NIL,
         \A s \in Slots : s # x => f[s].next = e[s].next /\ f[s].used = e[s].used
  PROVE  Shape(f)
<1>1. \A s, t \in Slots : Leads(f, s, t) => s # x /\ Leads(e, s, t)
  BY DEF Leads
<1>2. NoCircle(f)
  BY <1>1 DEF Shape, NoCircle, Ranks
<1>3. LoopApart(f)
  <2>1. SUFFICES ASSUME Leads(f, N, N), NEW s \in Slots, s # N, Leads(f, s, N)
                 PROVE  (f[N].used => ~f[s].used) /\ \A u \in Slots : ~Leads(f, u, s)
    BY DEF LoopApart
  <2>2. N # x /\ s # x /\ Leads(e, N, N) /\ Leads(e, s, N)
    BY <1>1, <2>1, LoopSlot
  <2>3. (e[N].used => ~e[s].used) /\ \A u \in Slots : ~Leads(e, u, s)
    BY <2>1, <2>2 DEF Shape, LoopApart
  <2> QED
    BY <1>1, <2>2, <2>3, LoopSlot
<1> QED
  BY <1>2, <1>3 DEF Shape

\* entry last leads to x now, which leads nowhere
LEMMA ShapeLink ==
  ASSUME NEW e, NEW f \in [Slots -> Entry], Shape(e), NEW x \in Slots, NEW last \in Slots,
         last # x, e[x].next = NIL, Leads(f, last, x),
         \A s \in Slots : s # last => f[s].next = e[s].next,
         \A s \in Slots : f[s].used = e[s].used
  PROVE  Shape(f)
<1>1. \A s, t \in Slots : Leads(f, s, t) =>
        s # x /\ ((s = last /\ t = x) \/ (s # last /\ Leads(e, s, t)))
  BY DEF Leads
<1>2. PICK rank : Ranks(e, rank)
  BY DEF Shape, NoCircle
<1>3. NoCircle(f)
  <2>1. PICK m \in Nat : m = rank[x] + rank[last] + 1
    BY <1>2 DEF Ranks
  <2>2. PICK r : r = [rank EXCEPT ![x] = m]
    OBVIOUS
  <2>3. /\ r \in [Slots -> Nat] /\ r[x] = m /\ \A s \in Slots : s # x => r[s] = rank[s]
        /\ rank[x] \in Nat /\ rank[last] \in Nat /\ \A s \in Slots : rank[s] \in Nat
    BY <1>2, <2>1, <2>2 DEF Ranks
  <2>4. ASSUME NEW s \in Slots, NEW t \in Slots, Leads(f, s, t)
        PROVE  r[s] < r[t] \/ (s = N /\ t = N)
    <3>1. s # x /\ r[s] = rank[s]
      BY <1>1, <2>3, <2>4
    <3>2. CASE s = last /\ t = x
      BY <2>1, <2>3, <3>1, <3>2
    <3>3. CASE s # last /\ Leads(e, s, t)
      <4>1. rank[s] < rank[t] \/ (s = N /\ t = N)
        BY <1>2, <3>3 DEF Ranks
      <4>2. CASE t = x
        BY <2>1, <2>3, <3>1, <4>1, <4>2
      <4>3. CASE t # x
        BY <2>3, <3>1, <4>1, <4>3
      <4> QED
        BY <4>2, <4>3
    <3> QED
      BY <1>1, <2>4, <3>2, <3>3
  <2>5. Ranks(f, r)
    BY <2>3, <2>4 DEF Ranks
  <2> QED
    BY <2>5 DEF NoCircle
<1>4. LoopApart(f)
  <2>1. SUFFICES ASSUME Leads(f, N, N), NEW s \in Slots, s # N, Leads(f, s, N)
                 PROVE  (f[N].used => ~f[s].used) /\ \A u \in Slots : ~Leads(f, u, s)
    BY DEF LoopApart
  <2>2. N # x /\ N # last /\ Leads(e, N, N)
    BY <1>1, <2>1, LoopSlot
  <2>3. s # x /\ s # last /\ Leads(e, s, N)
    BY <1>1, <2>1, <2>2, LoopSlot
  <2>4. (e[N].used => ~e[s].used) /\ \A u \in Slots : ~Leads(e, u, s)
    BY <2>1, <2>2, <2>3 DEF Shape, LoopApart
  <2>5. \A u \in Slots : ~Leads(f, u, s)
    BY <1>1, <2>3, <2>4
  <2> QED
    BY <2>4, <2>5, LoopSlot
<1> QED
  BY <1>3, <1>4 DEF Shape

\* entry q leads to where s led, to which it led before
LEMMA ShapeShort ==
  ASSUME NEW e, NEW f \in [Slots -> Entry], Shape(e), NEW q \in Slots, NEW s \in Slots,
         q # s, Leads(e, q, s), f[q].next = e[s].next,
         \A t \in Slots : t # q => f[t].next = e[t].next,
         \A t \in Slots : f[t].used => e[t].used
  PROVE  Shape(f)
<1>0. e \in [Slots -> Entry] /\ NoCircle(e) /\ LoopApart(e)
  BY DEF Shape
<1>1. CASE s = N /\ Leads(e, N, N)
  <2>1. e[s].next = e[q].next
    <3>1. N + e[s].next = N + e[q].next
      BY <1>1 DEF Leads
    <3>2. e[s].next \in Int /\ e[q].next \in Int
      BY <1>0, EntryFields
    <3> QED
      BY <3>1, <3>2, Sizes
  <2> QED
    BY <2>1, ShapeFewer
<1>2. CASE ~(s = N /\ Leads(e, N, N))
  <2>1. \A t, u \in Slots : Leads(f, t, u) =>
          (t = q /\ Leads(e, s, u)) \/ (t # q /\ Leads(e, t, u))
    BY DEF Leads
  <2>2. PICK rank : Ranks(e, rank)
    BY <1>0 DEF NoCircle
  <2>3. rank[q] < rank[s] /\ \A u \in Slots : Leads(e, s, u) => rank[s] < rank[u]
    BY <1>2, <2>2 DEF Ranks
  <2>4. Ranks(f, rank)
    <3>1. \A u \in Slots : Leads(e, s, u) => rank[q] < rank[u]
      BY <2>2, <2>3 DEF Ranks
    <3> QED
      BY <2>1, <2>2, <3>1 DEF Ranks
  <2>5. LoopApart(f)
    <3>1. SUFFICES ASSUME Leads(f, N, N), NEW p \in Slots, p # N, Leads(f, p, N)
                   PROVE  (f[N].used => ~f[p].used) /\ \A u \in Slots : ~Leads(f, u, p)
      BY DEF LoopApart
    <3>2. N # q
      <4>1. SUFFICES ASSUME N = q PROVE FALSE
        OBVIOUS
      <4>2. Leads(e, s, q)
        BY <2>1, <3>1, <4>1, LoopSlot
      <4>3. rank[s] < rank[q] /\ rank[s] \in Nat /\ rank[q] \in Nat
        BY <2>2, <2>3, <4>2 DEF Ranks
      <4> QED
        BY <2>3, <4>3
    <3>3. Leads(e, N, N)
      BY <2>1, <3>1, <3>2, LoopSlot
    <3>4. s # N
      BY <1>2, <3>3
    <3>5. p # q
      <4>1. SUFFICES ASSUME p = q PROVE FALSE
        OBVIOUS
      <4>2. Leads(e, s, N)
        BY <2>1, <3>1, <4>1, LoopSlot
      <4>3. \A u \in Slots : ~Leads(e, u, s)
        BY <1>0, <3>3, <3>4, <4>2 DEF LoopApart
      <4> QED
        BY <4>3
    <3>6. Leads(e, p, N)
      BY <2>1, <3>1, <3>5, LoopSlot
    <3>7. (e[N].used => ~e[p].used) /\ \A u \in Slots : ~Leads(e, u, p)
      BY <1>0, <3>1, <3>3, <3>6 DEF LoopApart
    <3>8. \A u \in Slots : ~Leads(f, u, p)
      BY <2>1, <3>7
    <3> QED
      BY <3>7, <3>8, LoopSlot
  <2> QED
    BY <2>4, <2>5 DEF Shape, NoCircle
<1> QED
  BY <1>1, <1>2

\* unused entry x is being filled in a sound table
LEMMA ShapeFilling ==
  ASSUME NEW e, NEW f \in [Slots -> Entry], Shape(e), NEW x \in Slots, ~e[x].used,
         \A s, t \in Slots : e[s].used /\ Leads(e, s, t) => e[t].used /\ t # s,
         f[x].next = e[x].next \/ f[x].next = NIL,
         \A s \in Slots : s # x => f[s] = e[s]
  PROVE  Shape(f)
<1>0. e \in [Slots -> Entry] /\ NoCircle(e) /\ LoopApart(e)
  BY DEF Shape
<1>1. \A s, t \in Slots : Leads(f, s, t) => Leads(e, s, t)
  BY DEF Leads
<1>2. NoCircle(f)
  BY <1>0, <1>1 DEF NoCircle, Ranks
<1>3. LoopApart(f)
  <2>1. SUFFICES ASSUME Leads(f, N, N), NEW s \in Slots, s # N, Leads(f, s, N)
                 PROVE  (f[N].used => ~f[s].used) /\ \A u \in Slots : ~Leads(f, u, s)
    BY DEF LoopApart
  <2>2. Leads(e, N, N) /\ Leads(e, s, N) /\ ~e[N].used
    BY <1>1, <2>1, LoopSlot
  <2>3. \A u \in Slots : ~Leads(e, u, s)
    BY <1>0, <2>1, <2>2 DEF LoopApart
  <2>4. ~e[s].used
    BY <2>2, LoopSlot
  <2>5. f[N].used => ~f[s].used
    BY <2>1, <2>2, <2>4, LoopSlot
  <2> QED
    BY <1>1, <2>3, <2>5
<1> QED
  BY <1>2, <1>3 DEF Shape

-------------------------------------------------------------------------------
(* Walks along them end                                                    *)

\* a walk goes along the links
LEMMA WalkLinks ==
  ASSUME NEW e \in [Slots -> Entry], NEW i \in Slots
  PROVE  /\ Walk(e, i)[0] = i
         /\ \A n \in 0..N+1 : Walk(e, i)[n] \in Slots \cup {NIL}
         /\ \A n \in 1..N+1 : /\ n - 1 \in 0..N+1
                              /\ Walk(e, i)[n] # NIL =>
                                   /\ Walk(e, i)[n-1] \in Slots
                                   /\ Leads(e, Walk(e, i)[n-1], Walk(e, i)[n])
                              /\ Walk(e, i)[n] = NIL /\ Walk(e, i)[n-1] # NIL =>
                                   Follow(e, Walk(e, i)[n-1]) = NIL
<1> DEFINE w == Walk(e, i)
<1>1. /\ w[0] = i
      /\ \A n \in 0..N+1 : w[n] \in Slots \cup {NIL}
      /\ \A n \in 1..N+1 : w[n] = Follow(e, w[n-1])
  BY WalkFollows
<1> HIDE DEF w
<1>2. ASSUME NEW n \in 1..N+1
      PROVE  /\ n - 1 \in 0..N+1
             /\ w[n] # NIL => w[n-1] \in Slots /\ Leads(e, w[n-1], w[n])
             /\ w[n] = NIL /\ w[n-1] # NIL => Follow(e, w[n-1]) = NIL
  <2>1. n - 1 \in 0..N+1 /\ w[n] = Follow(e, w[n-1])
    BY <1>1, Sizes
  <2>2. w[n] # NIL => w[n-1] # NIL /\ e[w[n-1]].next # NIL /\ w[n] = N + e[w[n-1]].next
    BY <2>1 DEF Follow
  <2>3. w[n-1] \in Slots \cup {NIL}
    BY <1>1, <2>1
  <2> QED
    BY <2>1, <2>2, <2>3 DEF Leads
<1> QED
  BY <1>1, <1>2 DEF w

\* A walk that does not come to the looping entry ends: its slots have
\* different ranks, and there are only N collision slots.
LEMMA WalkOut ==
  ASSUME NEW e, Shape(e), NEW i \in Primary,
         Leads(e, N, N) => \A n \in 0..N+1 : Walk(e, i)[n] # N
  PROVE  Walk(e, i)[N+1] = NIL
<1> DEFINE w == Walk(e, i)
           D == 1..N+1
           v == [n \in D |-> w[n]]
<1>1. e \in [Slots -> Entry] /\ i \in Slots
  BY Sizes DEF Shape
<1>2. PICK rank : Ranks(e, rank)
  BY DEF Shape, NoCircle
<1>3. /\ \A n \in 0..N+1 : w[n] \in Slots \cup {NIL}
      /\ \A n \in 1..N+1 : /\ n - 1 \in 0..N+1
                           /\ w[n] # NIL => w[n-1] \in Slots /\ Leads(e, w[n-1], w[n])
  BY <1>1, WalkLinks
<1>4. Leads(e, N, N) => \A n \in 0..N+1 : w[n] # N
  OBVIOUS
<1> HIDE DEF w
<1>5. SUFFICES ASSUME w[N+1] # NIL PROVE FALSE
  BY DEF w
<1>6. \A n \in 0..N+1 : w[n] # NIL
  <2> DEFINE T == {d \in Nat : d <= N + 1 /\ w[N + 1 - d] = NIL}
  <2>1. SUFFICES ASSUME NEW n \in 0..N+1, w[n] = NIL PROVE FALSE
    OBVIOUS
  <2>2. N + 1 - n \in T
    <3>1. N + 1 - n \in Nat /\ N + 1 - n <= N + 1 /\ N + 1 - (N + 1 - n) = n
      BY Sizes
    <3> QED
      BY <2>1, <3>1
  <2>3. T \in SUBSET Nat /\ T # {}
    BY <2>2
  <2>4. PICK d \in T : \A c \in T : d <= c
    <3> HIDE DEF T
    <3> QED
      BY <2>3, LeastExists
  <2>5. d \in Nat /\ d <= N + 1 /\ w[N + 1 - d] = NIL
    BY <2>4
  <2>6. d # 0
    BY <1>5, <2>5, Sizes
  <2>7. PICK m \in 1..N+1 : m = N + 1 - (d - 1) /\ m - 1 = N + 1 - d
    BY <2>5, <2>6, Sizes
  <2>8. w[m] = NIL
    BY <1>3, <2>5, <2>7, Sizes
  <2>9. d - 1 \in T
    <3>1. d - 1 \in Nat /\ d - 1 <= N + 1
      BY <2>5, <2>6, Sizes
    <3> QED
      BY <2>7, <2>8, <3>1
  <2>10. d <= d - 1
    <3> HIDE DEF T
    <3> QED
      BY <2>4, <2>9
  <2> QED
    BY <2>5, <2>10
<1>7. ASSUME NEW n \in 1..N+1
      PROVE  /\ w[n-1] \in Slots /\ w[n] \in Slots /\ w[n] \in Collision
             /\ rank[w[n-1]] < rank[w[n]]
  <2>1. n \in 0..N+1 /\ n - 1 \in 0..N+1
    BY <1>3, Sizes
  <2>2. w[n-1] \in Slots /\ w[n] \in Slots /\ Leads(e, w[n-1], w[n])
    BY <1>3, <1>6, <2>1
  <2>3. ~(w[n-1] = N /\ w[n] = N)
    BY <1>4, <2>1, <2>2
  <2> QED
    BY <1>1, <1>2, <2>2, <2>3, LeadsOut DEF Ranks
<1>8. \A n \in 0..N+1 : w[n] \in Slots /\ rank[w[n]] \in Nat
  BY <1>2, <1>3, <1>6 DEF Ranks
\* ranks go up along the walk
<1>9. ASSUME NEW n \in D, NEW m \in D, n < m PROVE rank[w[n]] < rank[w[m]]
  <2> DEFINE T == {d \in Nat : n + 1 + d <= N + 1 => rank[w[n]] < rank[w[n + 1 + d]]}
  <2>1. 0 \in T /\ T \in SUBSET Nat
    <3>1. n + 1 \in 1..N+1 => rank[w[(n + 1) - 1]] < rank[w[n + 1]]
      BY <1>7
    <3>2. (n + 1) - 1 = n /\ n + 1 + 0 = n + 1 /\ (n + 1 <= N + 1 => n + 1 \in 1..N+1)
      BY Sizes
    <3> QED
      BY <3>1, <3>2
  <2>2. ASSUME NEW d \in 0..N, d < N, d \in T
        PROVE  d + 1 \in T
    <3>1. SUFFICES ASSUME n + 1 + (d + 1) <= N + 1
                   PROVE  rank[w[n]] < rank[w[n + 1 + (d + 1)]]
      BY <2>2
    <3>2. PICK p \in 1..N+1 : p = n + 1 + (d + 1) /\ p - 1 = n + 1 + d /\ n + 1 + d <= N + 1
      BY <3>1, Sizes
    <3>3. rank[w[n]] < rank[w[p-1]] /\ rank[w[p-1]] < rank[w[p]]
      BY <1>7, <2>2, <3>2
    <3>4. rank[w[n]] \in Nat /\ rank[w[p-1]] \in Nat /\ rank[w[p]] \in Nat
      <4>1. n \in 0..N+1 /\ p - 1 \in 0..N+1 /\ p \in 0..N+1
        BY Sizes
      <4> QED
        BY <1>8, <4>1
    <3> QED
      BY <3>2, <3>3, <3>4
  <2>3. \A d \in 0..N : d \in T
    <3> HIDE DEF T
    <3>1. N \in Nat
      BY Sizes
    <3> QED
      BY <2>1, <2>2, <3>1, Upwards
  <2>4. PICK d \in 0..N : m = n + 1 + d
    <3>1. m - n - 1 \in 0..N /\ m = n + 1 + (m - n - 1)
      BY <1>9, Sizes
    <3> QED
      BY <3>1
  <2>5. d \in T /\ m <= N + 1
    BY <2>3, Sizes
  <2> QED
    BY <2>4, <2>5
<1>10. v \in [D -> Collision]
  BY <1>7
<1>11. /\ IsFiniteSet(D) /\ Cardinality(D) = N + 1
       /\ IsFiniteSet(Collision) /\ Cardinality(Collision) = N /\ N < N + 1
  BY FS_Interval, Sizes
<1>12. PICK x, y \in D : x # y /\ v[x] = v[y]
  <2>1. Cardinality(Collision) < Cardinality(D)
    BY <1>11
  <2> HIDE DEF v, D
  <2> QED
    BY <1>10, <1>11, <2>1, FS_PigeonHole
<1>13. w[x] = w[y] /\ rank[w[x]] \in Nat /\ (x < y \/ y < x)
  <2>1. x \in 0..N+1 /\ (x < y \/ y < x)
    BY <1>12, Sizes
  <2> QED
    BY <1>8, <1>12, <2>1
<1>14. rank[w[x]] < rank[w[x]]
  <2>1. CASE x < y
    BY <1>9, <1>13, <2>1
  <2>2. CASE y < x
    BY <1>9, <1>13, <2>2
  <2> QED
    BY <1>13, <2>1, <2>2
<1> QED
  BY <1>13, <1>14

\* Nor does the walk from a used head, if the looping entry is in use.
LEMMA HeadEnds ==
  ASSUME NEW e, Shape(e), NEW i \in Primary, e[i].used, Leads(e, N, N) => e[N].used
  PROVE  Walk(e, i)[N+1] = NIL
<1> DEFINE w == Walk(e, i)
<1>1. e \in [Slots -> Entry] /\ i \in Slots /\ i # N /\ LoopApart(e)
  BY Sizes, LoopSlot DEF Shape
<1>2. /\ w[0] = i
      /\ \A n \in 1..N+1 : /\ n - 1 \in 0..N+1
                           /\ w[n] # NIL => w[n-1] \in Slots /\ Leads(e, w[n-1], w[n])
  BY <1>1, WalkLinks
<1> HIDE DEF w
<1>3. ASSUME Leads(e, N, N), NEW n \in 0..N+1, w[n] = N
      PROVE  FALSE
  <2> DEFINE T == {m \in 0..N+1 : w[m] = N}
  <2>1. T \in SUBSET Nat /\ T # {}
    BY <1>3, Sizes
  <2>2. PICK m \in T : \A j \in T : m <= j
    <3> HIDE DEF T
    <3> QED
      BY <2>1, LeastExists
  <2>3. m # 0
    BY <1>1, <1>2, <2>2
  <2>4. m \in 1..N+1 /\ m - 1 \in 0..N+1 /\ m - 1 \notin T
    BY <2>2, <2>3, Sizes
  <2>5. w[m] = N /\ N # NIL
    BY <2>2, LoopSlot, Sizes
  <2>6. w[m-1] \in Slots /\ w[m-1] # N /\ Leads(e, w[m-1], N)
    BY <1>2, <2>4, <2>5
  <2>7. ~e[w[m-1]].used /\ \A u \in Slots : ~Leads(e, u, w[m-1])
    BY <1>1, <1>3, <2>6 DEF LoopApart
  <2>8. m - 1 # 0
    BY <1>2, <2>7
  <2>9. m - 1 \in 1..N+1 /\ w[m-1] # NIL
    BY <2>4, <2>6, <2>8, Sizes
  <2>10. w[(m-1)-1] \in Slots /\ Leads(e, w[(m-1)-1], w[m-1])
    BY <1>2, <2>9
  <2> QED
    BY <2>7, <2>10
<1>4. Leads(e, N, N) => \A n \in 0..N+1 : w[n] # N
  BY <1>3
<1> QED
  BY <1>4, WalkOut DEF w

\* so the loop that looks for the last entry of a chain finds it
LEMMA LastFound ==
  ASSUME NEW e \in [Slots -> Entry], NEW i \in Slots, Walk(e, i)[N+1] = NIL
  PROVE  LastOf(e, i) \in Slots /\ Follow(e, LastOf(e, i)) = NIL
<1> DEFINE w == Walk(e, i)
           T == {m \in 0..N+1 : w[m] = NIL}
           End(n) == w[n] # NIL /\ Follow(e, w[n]) = NIL
           l == CHOOSE n \in 0..N+1 : End(n)
<1>1. /\ w[0] = i /\ w[N+1] = NIL
      /\ \A n \in 0..N+1 : w[n] \in Slots \cup {NIL}
      /\ \A n \in 1..N+1 : /\ n - 1 \in 0..N+1
                           /\ w[n] = NIL /\ w[n-1] # NIL => Follow(e, w[n-1]) = NIL
  BY WalkLinks
<1>2. LastOf(e, i) = w[l]
  BY DEF LastOf
<1> HIDE DEF w, l
<1>3. N + 1 \in T /\ T \in SUBSET Nat
  BY <1>1, Sizes
<1>4. PICK m \in T : \A j \in T : m <= j
  <2> HIDE DEF T
  <2> QED
    BY <1>3, LeastExists
<1>5. m # 0
  BY <1>1, <1>4, Sizes
<1>6. m \in 1..N+1 /\ m - 1 \in 0..N+1 /\ m - 1 \notin T
  BY <1>4, <1>5, Sizes
<1>7. End(m - 1)
  BY <1>1, <1>4, <1>6
<1>8. l \in 0..N+1 /\ End(l)
  BY <1>6, <1>7 DEF l
<1> QED
  BY <1>1, <1>2, <1>8

-------------------------------------------------------------------------------
(* What the calls can rely on                                              *)

InUse(e) == {s \in Slots : e[s].used}

(* The counter is that of a table with at most one used entry more than it *)
(* says: it says cnt, though below zero it has wrapped.                    *)
CountsAs(e, ec, kd, cnt) ==
  /\ ec = cnt % Word
  /\ Cardinality(InUse(e)) <= cnt + 1
  /\ kd # "flush" => cnt <= Cardinality(InUse(e))
  /\ kd = "none" => cnt = Cardinality(InUse(e))

Gap(e, ec, kd) == \E cnt \in -1..N : CountsAs(e, ec, kd, cnt)

KInv ==
  /\ clock \in Nat
  /\ Segment \in Tables
  /\ Shape(entries)
  /\ Gap(entries, entrycount, killed)
  /\ killed = "none" => TInv /\ CInv

\* the used entries can be counted
LEMMA UseCounts ==
  ASSUME NEW e
  PROVE  IsFiniteSet(InUse(e)) /\ Cardinality(InUse(e)) \in Nat
<1>1. InUse(e) \in SUBSET Slots
  BY DEF InUse
<1> QED
  BY <1>1, Sizes, FS_Subset, FS_CardinalityType

LEMMA SegmentFields ==
  ASSUME Segment \in Tables
  PROVE  /\ entries \in [Slots -> Entry] /\ buckets \in [Primary -> Bucket]
         /\ entrycount \in 0..Word-1
         /\ Segment.entries = entries /\ Segment.buckets = buckets
         /\ Segment.entrycount = entrycount
<1>1. /\ Segment.entries = entries /\ Segment.buckets = buckets
      /\ Segment.entrycount = entrycount
  BY DEF Segment
<1> QED
  BY <1>1, TableFields

\* a link of a used entry of a sound table
LEMMA SoundLinks ==
  ASSUME TInv, CInv
  PROVE  \A s, t \in Slots : entries[s].used /\ Leads(entries, s, t) => entries[t].used /\ t # s
<1>1. TypeOK /\ LinksOwned /\ Acyclic
  BY DEF TInv, CInv
<1>2. PICK rank \in [Slots -> Nat] : Rises(rank)
  BY <1>1 DEF Acyclic
<1>3. TAKE s, t \in Slots
<1>4. HAVE entries[s].used /\ Leads(entries, s, t)
<1>5. s \in UsedSlots /\ entries[s].next # NIL /\ N + entries[s].next = t
  BY <1>3, <1>4 DEF UsedSlots, Leads
<1>6. t \in UsedSlots
  BY <1>1, <1>5 DEF LinksOwned
<1>7. rank[s] < rank[t] /\ rank[s] \in Nat
  BY <1>2, <1>5 DEF Rises
<1> QED
  BY <1>6, <1>7 DEF UsedSlots

\* the bucket an insert takes
LEMMA FreeBucketChosen ==
  ASSUME FreeBuckets # {}
  PROVE  Lowest(FreeBuckets) \in Primary
<1>1. FreeBuckets \in SUBSET Nat
  BY Sizes DEF FreeBuckets, Primary
<1>2. \E j \in FreeBuckets : \A m \in FreeBuckets : j <= m
  BY <1>1, LeastExists
<1> QED
  BY <1>2 DEF Lowest, FreeBuckets

\* the collision entry an insert takes: the first that is free
LEMMA FreeCollisionChosen ==
  ASSUME FreeCollisions # {}
  PROVE  LET x == Lowest(FreeCollisions)
         IN /\ x \in Collision /\ x \in Slots /\ x \notin UsedSlots
            /\ FreeCollisionIndex \in 0..N-1 /\ x = N + FreeCollisionIndex
            /\ x # N => entries[N].used
<1> DEFINE x == Lowest(FreeCollisions)
<1>1. FreeCollisions \in SUBSET Nat
  BY Sizes DEF FreeCollisions, Collision
<1>2. \E j \in FreeCollisions : \A m \in FreeCollisions : j <= m
  BY <1>1, LeastExists
<1>3. x \in FreeCollisions /\ \A m \in FreeCollisions : x <= m
  BY <1>2 DEF Lowest
<1>4. FreeCollisionIndex = x - N
  BY DEF FreeCollisionIndex
<1> HIDE DEF x
<1>5. x \in Collision /\ x \in Slots /\ x \notin UsedSlots
  BY <1>3, Sizes DEF FreeCollisions, UsedSlots
<1>6. x - N \in 0..N-1 /\ x = N + (x - N) /\ x >= N
  BY <1>5, Sizes DEF Collision
<1>7. x # N => entries[N].used
  <2>1. SUFFICES ASSUME ~entries[N].used PROVE x = N
    OBVIOUS
  <2>2. N \in FreeCollisions
    BY <2>1, LoopSlot DEF FreeCollisions
  <2>3. x <= N
    BY <1>3, <2>2
  <2> QED
    BY <1>6, <2>3, Sizes
<1> QED
  BY <1>4, <1>5, <1>6, <1>7 DEF x

(* An insert that the counter lets in finds a collision slot if it needs   *)
(* one, for its head is one of at most N used entries.                     *)
LEMMA CollisionLeft ==
  ASSUME Gap(entries, entrycount, killed), entrycount < N, NEW i \in Primary, entries[i].used
  PROVE  FreeCollisions # {}
<1>1. PICK cnt \in -1..N : CountsAs(entries, entrycount, killed, cnt)
  BY DEF Gap
<1>2. cnt \in Int /\ cnt < N
  <2>1. SUFFICES ASSUME cnt = N PROVE FALSE
    BY <1>1, Sizes
  <2>2. N \in 0..Word-1
    BY WordRange, Sizes
  <2>3. N % Word = N
    BY <2>2, WordRange
  <2> QED
    BY <1>1, <2>1, <2>3, Sizes DEF CountsAs
<1>3. Cardinality(InUse(entries)) <= N
  <2>1. Cardinality(InUse(entries)) <= cnt + 1 /\ Cardinality(InUse(entries)) \in Nat
    BY <1>1, UseCounts DEF CountsAs
  <2> QED
    BY <1>2, <2>1, Sizes
<1>4. SUFFICES ASSUME FreeCollisions = {} PROVE FALSE
  OBVIOUS
<1>5. Collision \cup {i} \in SUBSET InUse(entries)
  BY <1>4, Sizes DEF FreeCollisions, InUse
<1>6. Cardinality(Collision \cup {i}) = N + 1
  <2>1. i \notin Collision
    BY Sizes
  <2> QED
    BY <2>1, Sizes, FS_AddElement
<1>7. Cardinality(Collision \cup {i}) <= Cardinality(InUse(entries))
  BY <1>5, UseCounts, FS_Subset
<1>8. Cardinality(InUse(entries)) \in Nat
  BY UseCounts
<1> QED
  BY <1>3, <1>6, <1>7, <1>8, Sizes

-------------------------------------------------------------------------------
(* An insert, whole or killed                                              *)

\* the entries f have the entry x in use that was not
Gains(f, x) == Shape(f) /\ x \in Slots \ UsedSlots /\ InUse(f) = UsedSlots \cup {x}

Same(f) == Shape(f) /\ InUse(f) = UsedSlots

\* a new entry while it is filled, in a sound table
LEMMA FillingShape ==
  ASSUME KInv, TInv, CInv, NEW x \in Slots, x \notin UsedSlots, NEW k, NEW v, NEW b,
         NEW a, Filling(a, x, k, v, b)
  PROVE  Same(a.entries) \/ Gains(a.entries, x)
<1>1. /\ entries \in [Slots -> Entry] /\ Shape(entries) /\ ~entries[x].used
      /\ \A s, t \in Slots : entries[s].used /\ Leads(entries, s, t) => entries[t].used /\ t # s
  BY SegmentFields, SoundLinks DEF KInv, UsedSlots
<1>2. PICK f \in [Slots -> Entry] : f = a.entries
  BY TableFields DEF Filling
<1>3. /\ \E m \in 0..8 : f[x] = Filled(entries[x], x, k, v, b, m)
      /\ \A t \in Slots : t # x => f[t] = entries[t]
  BY <1>2 DEF Filling
<1>4. f[x].next = entries[x].next \/ f[x].next = NIL
  BY <1>3 DEF Filled
<1>5. Shape(f)
  BY <1>1, <1>3, <1>4, ShapeFilling
<1>6. CASE f[x].used
  BY <1>2, <1>3, <1>5, <1>6 DEF Gains, InUse, UsedSlots
<1>7. CASE ~f[x].used
  BY <1>1, <1>2, <1>3, <1>5, <1>7 DEF Same, InUse, UsedSlots
<1> QED
  BY <1>6, <1>7

\* the new entry on its own
LEMMA NewShape ==
  ASSUME Segment \in Tables, clock \in Nat, Shape(entries), NEW x \in Slots, x \notin UsedSlots,
         NEW k \in Keys, NEW v \in Nat, NEW b \in Primary
  PROVE  /\ [entries EXCEPT ![x] = NewEntry(x, k, v, b)] \in [Slots -> Entry]
         /\ Gains([entries EXCEPT ![x] = NewEntry(x, k, v, b)], x)
<1>1. PICK e \in Entry : e = NewEntry(x, k, v, b)
  BY NewEntryTyped
<1>2. e.used /\ e.next = NIL
  BY <1>1 DEF NewEntry
<1>3. entries \in [Slots -> Entry]
  BY SegmentFields
<1>4. PICK f \in [Slots -> Entry] : f = [entries EXCEPT ![x] = e]
  BY <1>3
<1>5. f[x] = e /\ \A t \in Slots : t # x => f[t] = entries[t]
  BY <1>3, <1>4
<1>6. Shape(f)
  BY <1>2, <1>5, ShapeCut
<1>7. InUse(f) = UsedSlots \cup {x}
  BY <1>2, <1>5 DEF InUse, UsedSlots
<1> QED
  BY <1>1, <1>4, <1>6, <1>7 DEF Gains

\* the last entry of the chain that a colliding entry is linked to
LEMMA LastThere ==
  ASSUME Segment \in Tables, clock \in Nat, Shape(entries), FreeCollisions # {},
         NEW i \in Primary, entries[i].used, NEW x, x = Lowest(FreeCollisions),
         NEW k \in Keys, NEW v \in Nat, NEW b \in Primary
  PROVE  LastThen(i, x, k, v, b) \in Slots
<1>1. x \in Collision /\ x \in Slots /\ x \notin UsedSlots /\ (x # N => entries[N].used)
  BY FreeCollisionChosen
<1>2. PICK e : e = NewEntry(x, k, v, b)
  OBVIOUS
<1>3. PICK f \in [Slots -> Entry] : f = [entries EXCEPT ![x] = e] /\ Gains(f, x)
  BY <1>1, <1>2, NewShape
<1>4. entries \in [Slots -> Entry] /\ i \in Slots /\ i # x
  BY <1>1, SegmentFields, Sizes
<1>5. f[x] = e /\ f[i].used /\ (x # N => f[N].used)
  BY <1>1, <1>3, <1>4, LoopSlot
<1>6. e.used
  BY <1>2 DEF NewEntry
<1>7. Shape(f) /\ (Leads(f, N, N) => f[N].used)
  BY <1>3, <1>5, <1>6 DEF Gains
<1>8. Walk(f, i)[N+1] = NIL
  BY <1>5, <1>7, HeadEnds
<1>9. LastOf(f, i) \in Slots
  BY <1>4, <1>8, LastFound
<1> QED
  BY <1>2, <1>3, <1>9 DEF LastThen

\* in a sound table it is the last entry that there was
LEMMA LastBefore ==
  ASSUME TInv, clock \in Nat, NEW i \in Primary, entries[i].used,
         NEW x \in Slots, x \notin UsedSlots,
         NEW k \in Keys, NEW v \in Nat, NEW b \in Primary
  PROVE  /\ LastThen(i, x, k, v, b) = LastOf(entries, i)
         /\ LastOf(entries, i) \in UsedSlots
<1>1. TypeOK /\ LinksOwned /\ entries \in [Slots -> Entry] /\ i \in Slots
  BY Sizes DEF TInv, TypeOK
<1>2. PICK e \in Entry : e = NewEntry(x, k, v, b)
  BY NewEntryTyped
<1>3. PICK f \in [Slots -> Entry] : f = [entries EXCEPT ![x] = e]
  BY <1>1
<1>4. \A t \in Slots : t # x => f[t] = entries[t]
  BY <1>1, <1>3
<1>5. PICK w : w = Walk(entries, i)
  OBVIOUS
<1>6. \A n \in 0..N+1 : w[n] \in UsedSlots \cup {NIL}
  BY <1>1, <1>5, WalkSteps
<1>7. \A n \in 0..N+1 : w[n] # NIL => f[w[n]].next = entries[w[n]].next
  BY <1>4, <1>6 DEF UsedSlots
<1>8. PICK v2 : v2 = Walk(f, i)
  OBVIOUS
<1>9. \A n \in 0..N+1 : v2[n] = w[n]
  <2>1. N + 1 \in 0..N+1
    BY Sizes
  <2> QED
    BY <1>1, <1>5, <1>7, <1>8, <2>1, WalkSame
<1>10. \A n \in 0..N+1 : (v2[n] # NIL /\ Follow(f, v2[n]) = NIL)
                           <=> (w[n] # NIL /\ Follow(entries, w[n]) = NIL)
  BY <1>7, <1>9 DEF Follow
<1>11. PICK l : l = CHOOSE n \in 0..N+1 : w[n] # NIL /\ Follow(entries, w[n]) = NIL
  OBVIOUS
<1>12. l = CHOOSE n \in 0..N+1 : v2[n] # NIL /\ Follow(f, v2[n]) = NIL
  BY <1>10, <1>11, Zenon
<1>13. LastOf(entries, i) = w[l] /\ LastOf(f, i) = v2[l]
  BY <1>5, <1>8, <1>11, <1>12 DEF LastOf
<1>14. l \in 0..N+1
  <2>1. PICK n \in 0..N+1 : LastOf(entries, i) = w[n]
    BY <1>1, <1>5, ChainEnds
  <2>2. LastOf(entries, i) \in UsedSlots /\ entries[LastOf(entries, i)].next = NIL
    BY <1>1, ChainEnds
  <2>3. w[n] # NIL /\ Follow(entries, w[n]) = NIL
    BY <2>1, <2>2, Sizes DEF Follow, UsedSlots
  <2> QED
    BY <1>11, <2>1, <2>3
<1>15. LastOf(f, i) = LastOf(entries, i)
  BY <1>9, <1>13, <1>14
<1> QED
  BY <1>1, <1>2, <1>3, <1>15, ChainEnds DEF LastThen

\* filled and linked
LEMMA ExtendedShape ==
  ASSUME Segment \in Tables, clock \in Nat, Shape(entries),
         NEW x \in Collision, x \notin UsedSlots, NEW last \in Slots,
         NEW k \in Keys, NEW v \in Nat, NEW b \in Primary
  PROVE  Gains(Extended(x, last, k, v, b), x)
<1>1. x \in Slots /\ entries \in [Slots -> Entry] /\ x - N \in NIL..N-1 /\ x - N # NIL
      /\ N + (x - N) = x
  BY SegmentFields, Sizes DEF Collision, NIL
<1>2. PICK e \in Entry : e = NewEntry(x, k, v, b)
  BY <1>1, NewEntryTyped
<1>3. PICK g \in [Slots -> Entry] : g = [entries EXCEPT ![x] = e] /\ Gains(g, x)
  BY <1>1, <1>2, NewShape
<1>4. CASE last = x
  BY <1>2, <1>3, <1>4 DEF Extended
<1>5. CASE last # x
  <2>1. g[x] = e /\ e.next = NIL /\ g[last] = entries[last]
    BY <1>1, <1>2, <1>3, <1>5 DEF NewEntry
  <2>2. PICK d \in Entry : d = Linked(entries[last], x - N)
    BY <1>1, LinkedEntry
  <2>3. d.next = x - N /\ d.used = entries[last].used
    <3>1. \A c \in Entry : \A m : [c EXCEPT !.next = m].next = m /\ [c EXCEPT !.next = m].used = c.used
      BY DEF Entry
    <3> QED
      BY <1>1, <2>2, <3>1 DEF Linked
  <2>4. PICK f \in [Slots -> Entry] : f = [g EXCEPT ![last] = d]
    OBVIOUS
  <2>5. Extended(x, last, k, v, b) = f
    BY <1>2, <1>3, <1>5, <2>1, <2>2, <2>4 DEF Extended, Linked
  <2>6. f[last] = d /\ \A s \in Slots : s # last => f[s] = g[s]
    BY <2>4
  <2>7. Leads(f, last, x)
    BY <1>1, <2>3, <2>6 DEF Leads
  <2>8. \A s \in Slots : f[s].used = g[s].used
    BY <2>1, <2>3, <2>6
  <2>9. Shape(f)
    BY <1>1, <1>3, <1>5, <2>1, <2>6, <2>7, <2>8, ShapeLink DEF Gains
  <2>10. InUse(f) = InUse(g)
    BY <2>8 DEF InUse
  <2> QED
    BY <1>3, <2>5, <2>9, <2>10 DEF Gains
<1> QED
  BY <1>4, <1>5

\* the whole call adds an entry; in a sound table it is Insert, and a killed
\* one adds the entry or not, and leaves the count
Inserts(k, v) ==
  LET l == InsertStores(k, v)
      a == After(Segment, l)
      z == ApplyAll(Segment, l)
      b == Lowest(FreeBuckets)
  IN /\ Len(l) \in Nat
     /\ Taken(z, b, v) /\ \E x \in Slots : Gains(z.entries, x)
     /\ killed = "none" =>
          /\ z.entries = Link(k, v, b)
          /\ \A n \in 0..Len(l)-1 :
               /\ a[n] \in Tables /\ a[n].entrycount = entrycount
               /\ Same(a[n].entries) \/ \E x \in Slots : Gains(a[n].entries, x)

\* an insert, whole or killed, gains one entry or leaves them as they are
LEMMA InsertOutcome ==
  ASSUME KInv, NEW k \in Keys, NEW v \in Nat, entrycount < N, FreeBuckets # {}
  PROVE  Inserts(k, v)
<1> DEFINE i == Index[k]
           b == Lowest(FreeBuckets)
           l == InsertStores(k, v)
           a == After(Segment, l)
           z == ApplyAll(Segment, l)
<1>1. /\ Segment \in Tables /\ clock \in Nat /\ Shape(entries)
      /\ Gap(entries, entrycount, killed) /\ (killed = "none" => TInv /\ CInv)
  BY DEF KInv
<1>2. b \in Primary /\ i \in Primary /\ i \in Slots /\ entries \in [Slots -> Entry]
  BY <1>1, FreeBucketChosen, SegmentFields, TableAssumption, Sizes DEF Primary
<1>3. CASE ~entries[i].used
  <2>1. PrimaryInserted(l, i, k, v, b)
    BY <1>1, <1>2, <1>3, PrimaryInsert
  <2>2. /\ Len(l) = 11 /\ \A n \in 0..10 : Filling(a[n], i, k, v, b)
        /\ Taken(z, b, v) /\ z.entries = [entries EXCEPT ![i] = NewEntry(i, k, v, b)]
    BY <2>1 DEF PrimaryInserted
  <2> HIDE DEF a, z, l, b
  <2>3. i \notin UsedSlots
    BY <1>3 DEF UsedSlots
  <2>4. Gains(z.entries, i)
    <3>1. PICK j \in Slots : j = i
      BY <1>2
    <3>2. Gains([entries EXCEPT ![j] = NewEntry(j, k, v, b)], j)
      BY <1>1, <1>2, <2>3, <3>1, NewShape
    <3> QED
      BY <2>2, <3>1, <3>2
  <2>5. ASSUME killed = "none"
        PROVE  z.entries = Link(k, v, b)
    BY <1>3, <2>2 DEF Link
  <2>6. ASSUME killed = "none", NEW n \in 0..Len(l)-1
        PROVE  /\ a[n] \in Tables /\ a[n].entrycount = entrycount
               /\ Same(a[n].entries) \/ \E x \in Slots : Gains(a[n].entries, x)
    <3>1. Filling(a[n], i, k, v, b)
      BY <2>2, <2>6
    <3>2. Same(a[n].entries) \/ Gains(a[n].entries, i)
      BY <1>1, <1>2, <2>3, <2>6, <3>1, FillingShape
    <3> QED
      BY <1>2, <3>1, <3>2 DEF Filling
  <2>7. Len(l) \in Nat
    BY <2>2
  <2> QED
    BY <1>2, <2>2, <2>4, <2>5, <2>6, <2>7 DEF Inserts, a, z, l, b
<1>4. CASE entries[i].used
  <2>1. FreeCollisions # {}
    BY <1>1, <1>2, <1>4, CollisionLeft
  <2>2. PICK x : /\ x = Lowest(FreeCollisions)
                 /\ x \in Collision /\ x \in Slots /\ x \notin UsedSlots
                 /\ FreeCollisionIndex \in 0..N-1 /\ x = N + FreeCollisionIndex
    BY <2>1, FreeCollisionChosen
  <2>3. PICK last \in Slots : last = LastThen(i, x, k, v, b)
    BY <1>1, <1>2, <1>4, <2>1, <2>2, LastThere
  <2>4. CollisionInserted(l, x, last, k, v, b)
    BY <1>1, <1>2, <1>4, <2>2, <2>3, CollisionInsert
  <2>5. /\ Len(l) = 13 /\ \A n \in 0..10 : Filling(a[n], x, k, v, b)
        /\ last # x => \A n \in 11..12 : /\ a[n] \in Tables /\ a[n].entrycount = entrycount
                                         /\ a[n].entries = Extended(x, last, k, v, b)
        /\ Taken(z, b, v) /\ z.entries = Extended(x, last, k, v, b)
    BY <2>4 DEF CollisionInserted
  <2> HIDE DEF a, z, l, b
  <2>6. Gains(Extended(x, last, k, v, b), x)
    BY <1>1, <1>2, <2>2, ExtendedShape
  <2>7. ASSUME killed = "none"
        PROVE  last = LastOf(entries, i) /\ last # x
    <3>1. last = LastOf(entries, i) /\ LastOf(entries, i) \in UsedSlots
      BY <1>1, <1>2, <1>4, <2>2, <2>3, <2>7, LastBefore
    <3> QED
      BY <2>2, <3>1
  <2>8. ASSUME killed = "none"
        PROVE  z.entries = Link(k, v, b)
    BY <1>4, <2>2, <2>5, <2>7, <2>8 DEF Link, Extended
  <2>9. ASSUME killed = "none", NEW n \in 0..Len(l)-1
        PROVE  /\ a[n] \in Tables /\ a[n].entrycount = entrycount
               /\ Same(a[n].entries) \/ \E y \in Slots : Gains(a[n].entries, y)
    <3>1. n \in 0..10 \/ n \in 11..12
      BY <2>5, <2>9
    <3>2. CASE n \in 0..10
      <4>1. Filling(a[n], x, k, v, b)
        BY <2>5, <3>2
      <4>2. Same(a[n].entries) \/ Gains(a[n].entries, x)
        BY <1>1, <1>2, <2>2, <2>9, <4>1, FillingShape
      <4> QED
        BY <2>2, <4>1, <4>2 DEF Filling
    <3>3. CASE n \in 11..12
      BY <2>2, <2>5, <2>6, <2>7, <2>9, <3>3
    <3> QED
      BY <3>1, <3>2, <3>3
  <2>10. Len(l) \in Nat
    BY <2>5
  <2>11. \E y \in Slots : Gains(z.entries, y)
    BY <2>2, <2>5, <2>6
  <2> QED
    BY <2>5, <2>8, <2>9, <2>10, <2>11 DEF Inserts, a, z, l, b
<1> QED
  BY <1>3, <1>4

-------------------------------------------------------------------------------
(* A remove, whole or killed                                               *)

Loses(f, x) == Shape(f) /\ x \in UsedSlots /\ InUse(f) = UsedSlots \ {x}

\* the whole call
LEMMA UnlinkShape ==
  ASSUME Segment \in Tables, Shape(entries), NEW k \in Keys, Matches(entries, k) # {}
  PROVE  \E x : Loses(Unlink(entries, k), x)
<1> DEFINE s == Found(entries, k)
           q == Previous(entries, k)
           t == N + entries[s].next
<1>1. entries \in [Slots -> Entry]
  BY SegmentFields
<1>2. /\ s \in UsedSlots /\ s \in Slots /\ entries[s].used /\ entries[s] \in Entry
      /\ FirstMatch(entries, k) > 0 =>
           /\ q \in UsedSlots /\ q \in Slots /\ entries[q] \in Entry /\ q # s
           /\ Leads(entries, q, s)
      /\ ~(FirstMatch(entries, k) > 0) => s \in Primary
  <2>1. WellFound(k)
    BY <1>1, FoundEntry
  <2>2. /\ s \in UsedSlots /\ FirstMatch(entries, k) \in 0..N+1
        /\ FirstMatch(entries, k) = 0 => s \in Primary
        /\ FirstMatch(entries, k) > 0 => /\ q \in UsedSlots /\ q # s
                                         /\ Leads(entries, q, s)
    BY <2>1 DEF WellFound, Leads
  <2> HIDE DEF s, q
  <2> QED
    BY <1>1, <2>2, Sizes DEF UsedSlots
<1>3. Unlink(entries, k) =
        IF FirstMatch(entries, k) > 0
        THEN [entries EXCEPT ![q].next = entries[s].next, ![s].used = FALSE]
        ELSE IF entries[s].next = NIL THEN [entries EXCEPT ![s].used = FALSE]
        ELSE [entries EXCEPT ![s] = [entries[t] EXCEPT !.position = entries[s].position],
                             ![t].used = FALSE]
  BY DEF Unlink
<1> HIDE DEF s, q, t
<1>e. \A e \in Entry : Off(e) \in Entry /\ ~Off(e).used /\ Off(e).next = e.next
  BY DEF Off, Entry
<1>4. CASE FirstMatch(entries, k) > 0
  <2>1. entries[s].next \in NIL..N-1
    BY <1>2, EntryFields
  <2>2. PICK d \in Entry, c \in Entry : d = Linked(entries[q], entries[s].next) /\ c = Off(entries[s])
    BY <1>2, <1>4, <1>e, <2>1, LinkedEntry
  <2>3. d.next = entries[s].next /\ d.used = entries[q].used /\ ~c.used /\ c.next = entries[s].next
    <3>1. \A e \in Entry : \A m : [e EXCEPT !.next = m].next = m /\ [e EXCEPT !.next = m].used = e.used
      BY DEF Entry
    <3> QED
      BY <1>2, <1>4, <1>e, <2>2, <3>1 DEF Linked
  <2>4. PICK f \in [Slots -> Entry] : f = [entries EXCEPT ![q] = d, ![s] = c]
    BY <1>1
  <2>5. Unlink(entries, k) = f
    <3>1. [entries EXCEPT ![q].next = entries[s].next, ![s].used = FALSE]
            = [[entries EXCEPT ![q] = d] EXCEPT ![s].used = FALSE]
      BY <1>1, <1>2, <1>4, <2>2 DEF Linked
    <3>2. [entries EXCEPT ![q] = d][s] = entries[s]
      BY <1>1, <1>2, <1>4
    <3>3. [[entries EXCEPT ![q] = d] EXCEPT ![s].used = FALSE]
            = [[entries EXCEPT ![q] = d] EXCEPT ![s] = c]
      BY <2>2, <3>2 DEF Off
    <3> QED
      BY <1>3, <1>4, <2>4, <3>1, <3>3
  <2>6. f[q] = d /\ f[s] = c /\ \A y \in Slots : y # q /\ y # s => f[y] = entries[y]
    BY <1>1, <1>2, <1>4, <2>4
  <2>7. \A y \in Slots : /\ y # q => f[y].next = entries[y].next
                         /\ f[y].used <=> entries[y].used /\ y # s
    BY <1>2, <1>4, <2>3, <2>6
  <2>8. Shape(f)
    BY <1>2, <1>4, <2>3, <2>6, <2>7, ShapeShort
  <2>9. InUse(f) = UsedSlots \ {s}
    BY <2>7 DEF InUse, UsedSlots
  <2> QED
    BY <1>2, <2>5, <2>8, <2>9 DEF Loses
<1>5. CASE ~(FirstMatch(entries, k) > 0) /\ entries[s].next = NIL
  <2>1. PICK c \in Entry : c = Off(entries[s])
    BY <1>2, <1>e
  <2>2. PICK f \in [Slots -> Entry] : f = [entries EXCEPT ![s] = c]
    BY <1>1
  <2>3. Unlink(entries, k) = f
    BY <1>1, <1>2, <1>3, <1>5, <2>1, <2>2 DEF Off
  <2>4. \A y \in Slots : f[y].next = entries[y].next /\ (f[y].used <=> entries[y].used /\ y # s)
    BY <1>1, <1>2, <1>e, <2>1, <2>2
  <2>5. Shape(f)
    BY <2>4, ShapeFewer
  <2>6. InUse(f) = UsedSlots \ {s}
    BY <2>4 DEF InUse, UsedSlots
  <2> QED
    BY <1>2, <2>3, <2>5, <2>6 DEF Loses
<1>6. CASE ~(FirstMatch(entries, k) > 0) /\ entries[s].next # NIL
  <2>1. Leads(entries, s, t) /\ t \in Slots /\ s # t
    <3>1. Leads(entries, s, t)
      BY <1>6 DEF Leads, t
    <3> QED
      BY <1>1, <1>2, <1>6, <3>1, LeadsOut, Sizes
  <2>2. entries[t] \in Entry
    BY <1>1, <2>1
  <2>3. PICK d \in Entry, c \in Entry :
          d = Placed(entries[t], entries[s].position) /\ c = Off(entries[t])
    BY <1>2, <1>e, <2>2, PlacedEntry, EntryFields
  <2>4. d.next = entries[t].next /\ d.used = entries[t].used /\ ~c.used /\ c.next = entries[t].next
    <3>1. \A e \in Entry : \A m : /\ [e EXCEPT !.position = m].next = e.next
                                  /\ [e EXCEPT !.position = m].used = e.used
      BY DEF Entry
    <3> QED
      BY <1>e, <2>2, <2>3, <3>1 DEF Placed
  <2>5. PICK f \in [Slots -> Entry] : f = [entries EXCEPT ![s] = d, ![t] = c]
    BY <1>1
  <2>6. Unlink(entries, k) = f
    <3>1. [entries EXCEPT ![s] = d][t] = entries[t]
      BY <1>1, <2>1
    <3>2. [[entries EXCEPT ![s] = d] EXCEPT ![t].used = FALSE]
            = [[entries EXCEPT ![s] = d] EXCEPT ![t] = c]
      BY <2>3, <3>1 DEF Off
    <3>3. Unlink(entries, k) = [[entries EXCEPT ![s] = d] EXCEPT ![t].used = FALSE]
      BY <1>3, <1>6, <2>3 DEF Placed
    <3> QED
      BY <2>5, <3>2, <3>3
  <2>7. f[s] = d /\ f[t] = c /\ \A y \in Slots : y # s /\ y # t => f[y] = entries[y]
    BY <1>1, <1>2, <2>1, <2>5
  <2>8. \A y \in Slots : y # s => f[y].next = entries[y].next
    BY <2>4, <2>7
  <2>9. \A y \in Slots : f[y].used => entries[y].used
    BY <1>2, <2>4, <2>7
  <2>10. Shape(f)
    BY <1>2, <2>1, <2>4, <2>7, <2>8, <2>9, ShapeShort
  <2>11. CASE entries[t].used
    <3>1. \A y \in Slots : f[y].used <=> entries[y].used /\ y # t
      BY <1>2, <2>4, <2>7, <2>11
    <3>2. InUse(f) = UsedSlots \ {t} /\ t \in UsedSlots
      BY <2>1, <2>11, <3>1 DEF InUse, UsedSlots
    <3> QED
      BY <2>6, <2>10, <3>2 DEF Loses
  <2>12. CASE ~entries[t].used
    <3>1. \A y \in Slots : f[y].used <=> entries[y].used /\ y # s
      BY <1>2, <2>4, <2>7, <2>12
    <3>2. InUse(f) = UsedSlots \ {s}
      BY <3>1 DEF InUse, UsedSlots
    <3> QED
      BY <1>2, <2>6, <2>10, <3>2 DEF Loses
  <2> QED
    BY <2>11, <2>12
<1> QED
  BY <1>4, <1>5, <1>6

\* a killed one
LEMMA HalfShape ==
  ASSUME Segment \in Tables, Shape(entries), NEW k \in Keys, Matches(entries, k) # {},
         NEW f \in [Slots -> Entry], HalfUnlinked(f, k)
  PROVE  Same(f) \/ \E x : Loses(f, x)
<1> DEFINE s == Found(entries, k)
           q == Previous(entries, k)
           t == N + entries[s].next
<1>1. entries \in [Slots -> Entry]
  BY SegmentFields
<1>2. /\ s \in UsedSlots /\ s \in Slots /\ entries[s].used /\ entries[s] \in Entry
      /\ FirstMatch(entries, k) > 0 =>
           /\ q \in Slots /\ entries[q] \in Entry /\ q # s
           /\ Leads(entries, q, s)
      /\ FirstMatch(entries, k) = 0 => s \in Primary
  <2>1. WellFound(k)
    BY <1>1, FoundEntry
  <2>2. /\ s \in UsedSlots
        /\ FirstMatch(entries, k) = 0 => s \in Primary
        /\ FirstMatch(entries, k) > 0 => /\ q \in UsedSlots /\ q # s
                                         /\ Leads(entries, q, s)
    BY <2>1 DEF WellFound, Leads
  <2> HIDE DEF s, q
  <2> QED
    BY <1>1, <2>2, Sizes DEF UsedSlots
<1>3. \/ f = entries
      \/ FirstMatch(entries, k) > 0 /\ f = [entries EXCEPT ![q].next = entries[s].next]
      \/ /\ FirstMatch(entries, k) = 0 /\ entries[s].next # NIL
         /\ \E n \in 0..8 : f = [entries EXCEPT ![s] = Copied(s, t, n)]
      \/ /\ FirstMatch(entries, k) = 0 /\ entries[s].next # NIL
         /\ f = [entries EXCEPT ![s] = entries[t], ![t].used = FALSE]
  BY DEF HalfUnlinked
<1>t. entries[s].next # NIL /\ FirstMatch(entries, k) = 0 =>
        Leads(entries, s, t) /\ t \in Slots /\ s # t /\ entries[t] \in Entry
  <2>1. SUFFICES ASSUME entries[s].next # NIL, FirstMatch(entries, k) = 0
                 PROVE  Leads(entries, s, t) /\ t \in Slots /\ s # t /\ entries[t] \in Entry
    OBVIOUS
  <2>2. Leads(entries, s, t)
    BY <2>1 DEF Leads
  <2> HIDE DEF s, t
  <2>3. t \in Slots /\ t \in Collision
    BY <1>1, <1>2, <2>2, LeadsOut
  <2> QED
    BY <1>1, <1>2, <2>1, <2>2, <2>3, Sizes
<1> HIDE DEF s, q, t
<1>4. CASE f = entries
  BY <1>4 DEF Same, InUse, UsedSlots
<1>5. CASE FirstMatch(entries, k) > 0 /\ f = [entries EXCEPT ![q].next = entries[s].next]
  <2>1. PICK d : d = Linked(entries[q], entries[s].next)
    OBVIOUS
  <2>2. d.next = entries[s].next /\ d.used = entries[q].used
    <3>1. \A e \in Entry : \A m : [e EXCEPT !.next = m].next = m /\ [e EXCEPT !.next = m].used = e.used
      BY DEF Entry
    <3> QED
      BY <1>2, <1>5, <2>1, <3>1 DEF Linked
  <2>3. f[q] = d /\ \A y \in Slots : y # q => f[y] = entries[y]
    BY <1>1, <1>2, <1>5, <2>1 DEF Linked
  <2>4. \A y \in Slots : (y # q => f[y].next = entries[y].next) /\ f[y].used = entries[y].used
    BY <2>2, <2>3
  <2>5. Shape(f)
    BY <1>2, <1>5, <2>2, <2>3, <2>4, ShapeShort
  <2>6. InUse(f) = UsedSlots
    BY <2>4 DEF InUse, UsedSlots
  <2> QED
    BY <2>5, <2>6 DEF Same
<1>6. ASSUME FirstMatch(entries, k) = 0, entries[s].next # NIL,
             NEW n \in 0..8, f = [entries EXCEPT ![s] = Copied(s, t, n)]
      PROVE  Same(f) \/ \E x : Loses(f, x)
  <2>1. f[s] = Copied(s, t, n) /\ \A y \in Slots : y # s => f[y] = entries[y]
    BY <1>1, <1>2, <1>6
  <2>2. /\ f[s].next = entries[s].next \/ f[s].next = entries[t].next
        /\ f[s].used = entries[s].used \/ f[s].used = entries[t].used
    BY <2>1 DEF Copied
  <2>3. Leads(entries, s, t) /\ t \in Slots /\ s # t
    BY <1>6, <1>t
  <2>4. \A y \in Slots : /\ y # s => f[y].next = entries[y].next
                         /\ f[y].used => entries[y].used
    BY <1>2, <2>1
  <2>5. Shape(f)
    <3>1. CASE f[s].next = entries[s].next
      BY <2>4, <3>1, ShapeFewer
    <3>2. CASE f[s].next = entries[t].next
      BY <1>2, <2>3, <2>4, <3>2, ShapeShort
    <3> QED
      BY <2>2, <3>1, <3>2
  <2>6. CASE f[s].used
    <3>1. InUse(f) = UsedSlots
      BY <1>2, <2>1, <2>6 DEF InUse, UsedSlots
    <3> QED
      BY <2>5, <3>1 DEF Same
  <2>7. CASE ~f[s].used
    <3>1. InUse(f) = UsedSlots \ {s}
      BY <1>2, <2>1, <2>7 DEF InUse, UsedSlots
    <3> QED
      BY <1>2, <2>5, <3>1 DEF Loses
  <2> QED
    BY <2>6, <2>7
<1>7. CASE /\ FirstMatch(entries, k) = 0 /\ entries[s].next # NIL
           /\ f = [entries EXCEPT ![s] = entries[t], ![t].used = FALSE]
  <2>1. Leads(entries, s, t) /\ t \in Slots /\ s # t /\ entries[t] \in Entry
    BY <1>7, <1>t
  <2>2. PICK d : d = Off(entries[t])
    OBVIOUS
  <2>3. ~d.used
    <3>1. \A e \in Entry : ~[e EXCEPT !.used = FALSE].used
      BY DEF Entry
    <3> QED
      BY <2>1, <2>2, <3>1 DEF Off
  <2>d. d.next = entries[t].next
    <3>1. \A e \in Entry : [e EXCEPT !.used = FALSE].next = e.next
      BY DEF Entry
    <3> QED
      BY <2>1, <2>2, <3>1 DEF Off
  <2>4. f = [[entries EXCEPT ![s] = entries[t]] EXCEPT ![t] = d]
    <3>1. [entries EXCEPT ![s] = entries[t]][t] = entries[t]
      BY <1>1, <2>1
    <3> QED
      BY <1>7, <2>2, <3>1 DEF Off
  <2>5. f[s] = entries[t] /\ f[t] = d /\ \A y \in Slots : y # s /\ y # t => f[y] = entries[y]
    BY <1>1, <1>2, <2>1, <2>4
  <2>6. \A y \in Slots : y # s => f[y].next = entries[y].next
    BY <2>d, <2>5
  <2>7. \A y \in Slots : f[y].used => entries[y].used
    BY <1>2, <2>3, <2>5
  <2>8. Shape(f)
    BY <1>2, <2>1, <2>5, <2>6, <2>7, ShapeShort
  <2>9. CASE entries[t].used
    <3>1. InUse(f) = UsedSlots \ {t} /\ t \in UsedSlots
      BY <1>2, <2>1, <2>3, <2>5, <2>9 DEF InUse, UsedSlots
    <3> QED
      BY <2>8, <3>1 DEF Loses
  <2>10. CASE ~entries[t].used
    <3>1. InUse(f) = UsedSlots \ {s}
      BY <1>2, <2>1, <2>3, <2>5, <2>10 DEF InUse, UsedSlots
    <3> QED
      BY <1>2, <2>8, <3>1 DEF Loses
  <2> QED
    BY <2>9, <2>10
<1> QED
  BY <1>3, <1>4, <1>5, <1>6, <1>7

-------------------------------------------------------------------------------
(* The counter and the used entries                                        *)

\* one more and one less, with the wrap below zero
LEMMA WordSteps ==
  /\ \A cnt \in -1..N : \A ec : ec = cnt % Word /\ ec < N => cnt \in 0..N-1 /\ ec = cnt
  /\ \A cnt \in 0..N-1 : (cnt + 1) % Word = cnt + 1
  /\ \A cnt \in 0..N : cnt % Word = cnt
  /\ \A cnt \in 0..N : \A ec : ec = cnt % Word => (ec + Word - 1) % Word = (cnt - 1) % Word
  /\ \A cnt \in 1..N : (cnt + Word - 1) % Word = cnt - 1
<1>1. N \in Nat /\ N > 0 /\ Word \in Nat /\ Word > 2 * N
  BY Sizes, WordAssumption
<1>2. \A n \in 0..Word-1 : n % Word = n
  BY WordRange
<1>3. (-1) % Word = Word - 1
  <2>1. (-1) % Word \in 0..Word-1 /\ -1 = Word * ((-1) \div Word) + ((-1) % Word)
    BY <1>1
  <2>2. PICK d \in Int, m \in 0..Word-1 : m = (-1) % Word /\ -1 = Word * d + m
    BY <1>1, <2>1
  <2>3. d = -1
    <3>1. d < 0
      <4>1. d >= 0 => Word * d >= 0
        BY <1>1
      <4>2. Word * d \in Int
        BY <1>1
      <4> QED
        BY <2>2, <4>1, <4>2
    <3>2. d > -2
      <4>1. d <= -2 => Word * d <= Word * (-2)
        BY <1>1
      <4> QED
        BY <1>1, <2>2, <4>1
    <3> QED
      BY <3>1, <3>2
  <2> QED
    BY <1>1, <2>2, <2>3
<1>4. \A cnt \in 0..N : cnt \in 0..Word-1 /\ cnt % Word = cnt
  BY <1>1, <1>2
<1>5. \A n \in 0..N-1 : (n + Word) % Word = n
  <2>1. SUFFICES ASSUME NEW n \in 0..N-1 PROVE (n + Word) % Word = n
    OBVIOUS
  <2>x. PICK x \in Int : x = n + Word
    BY <1>1
  <2>2. x % Word \in 0..Word-1 /\ x \div Word \in Int /\ x = Word * (x \div Word) + (x % Word)
    BY <1>1
  <2>3. PICK d \in Int, m \in 0..Word-1 : m = (n + Word) % Word /\ n + Word = Word * d + m
    BY <2>x, <2>2
  <2>4. d = 1
    <3>1. d > 0
      <4>1. d <= 0 => Word * d <= 0
        BY <1>1
      <4> QED
        BY <1>1, <2>3, <4>1
    <3>2. d < 2
      <4>1. d >= 2 => Word * d >= Word * 2
        BY <1>1
      <4> QED
        BY <1>1, <2>3, <4>1
    <3> QED
      BY <3>1, <3>2
  <2> QED
    BY <1>1, <2>3, <2>4
<1>6. ASSUME NEW cnt \in -1..N, NEW ec, ec = cnt % Word, ec < N
      PROVE  cnt \in 0..N-1 /\ ec = cnt
  <2>1. cnt = -1 => FALSE
    BY <1>1, <1>3, <1>6
  <2>2. cnt \in 0..N
    BY <1>1, <2>1
  <2> QED
    BY <1>1, <1>4, <1>6, <2>2
<1>7. \A cnt \in 0..N-1 : (cnt + 1) % Word = cnt + 1
  BY <1>1, <1>2
<1>8. \A cnt \in 1..N : (cnt + Word - 1) % Word = cnt - 1
  <2>1. SUFFICES ASSUME NEW cnt \in 1..N PROVE (cnt + Word - 1) % Word = cnt - 1
    OBVIOUS
  <2>2. PICK n \in 0..N-1 : n = cnt - 1 /\ cnt + Word - 1 = n + Word
    BY <1>1
  <2> QED
    BY <1>5, <2>2
<1>9. ASSUME NEW cnt \in 0..N, NEW ec, ec = cnt % Word
      PROVE  (ec + Word - 1) % Word = (cnt - 1) % Word
  <2>1. ec = cnt
    BY <1>4, <1>9
  <2>2. CASE cnt = 0
    <3>1. ec + Word - 1 = Word - 1 /\ Word - 1 \in 0..Word-1 /\ cnt - 1 = -1
      BY <1>1, <2>1, <2>2
    <3> QED
      BY <1>2, <1>3, <3>1
  <2>3. CASE cnt \in 1..N
    <3>1. cnt - 1 \in 0..Word-1
      BY <1>1, <2>3
    <3> QED
      BY <1>2, <1>8, <2>1, <2>3, <3>1
  <2> QED
    BY <1>1, <2>2, <2>3
<1> QED
  BY <1>4, <1>6, <1>7, <1>8, <1>9

\* one more, one less in use
LEMMA AddCounts ==
  ASSUME NEW f, NEW x, Gains(f, x)
  PROVE  Cardinality(InUse(f)) = Cardinality(InUse(entries)) + 1
<1>1. x \notin InUse(entries) /\ InUse(f) = InUse(entries) \cup {x}
  BY DEF Gains, InUse, UsedSlots
<1> QED
  BY <1>1, UseCounts, FS_AddElement

\* one more in use, one more counted
LEMMA AddsGap ==
  ASSUME Gap(entries, entrycount, killed), entrycount < N, NEW f, NEW x, Gains(f, x)
  PROVE  Gap(f, (entrycount + 1) % Word, killed)
<1>1. PICK cnt \in -1..N : CountsAs(entries, entrycount, killed, cnt)
  BY DEF Gap
<1>2. cnt \in 0..N-1 /\ entrycount = cnt
  BY <1>1, WordSteps DEF CountsAs
<1>3. Cardinality(InUse(f)) = Cardinality(InUse(entries)) + 1
  BY AddCounts
<1>4. Cardinality(InUse(entries)) \in Nat /\ N \in Nat
  BY UseCounts, Sizes
<1>5. CountsAs(f, (entrycount + 1) % Word, killed, cnt + 1)
  <2>1. (entrycount + 1) % Word = (cnt + 1) % Word
    BY <1>2
  <2>2. PICK c \in Nat, d \in Nat : c = Cardinality(InUse(entries)) /\ d = Cardinality(InUse(f)) /\ d = c + 1
    BY <1>3, <1>4
  <2>3. c <= cnt + 1 /\ (killed # "flush" => cnt <= c) /\ (killed = "none" => cnt = c)
    BY <1>1, <2>2 DEF CountsAs
  <2>4. d <= (cnt + 1) + 1 /\ (killed # "flush" => cnt + 1 <= d) /\ (killed = "none" => cnt + 1 = d)
    BY <1>2, <2>2, <2>3
  <2> QED
    BY <2>1, <2>2, <2>4 DEF CountsAs
<1>6. cnt + 1 \in -1..N
  BY <1>2, <1>4
<1> QED
  BY <1>5, <1>6 DEF Gap

LEMMA DropCounts ==
  ASSUME NEW f, NEW x, Loses(f, x)
  PROVE  /\ Cardinality(InUse(entries)) \in Nat
         /\ Cardinality(InUse(f)) \in Nat
         /\ Cardinality(InUse(f)) = Cardinality(InUse(entries)) - 1
<1>1. x \in InUse(entries) /\ InUse(f) = InUse(entries) \ {x}
  BY DEF Loses, InUse, UsedSlots
<1> QED
  BY <1>1, UseCounts, FS_RemoveElement

\* one less in use, one less counted
LEMMA DropsGap ==
  ASSUME Gap(entries, entrycount, killed), NEW f, NEW x, Loses(f, x)
  PROVE  Gap(f, Fewer, killed)
<1>1. PICK cnt \in -1..N : CountsAs(entries, entrycount, killed, cnt)
  BY DEF Gap
<1>2. PICK c \in Nat, d \in Nat : /\ c = Cardinality(InUse(entries))
                                  /\ d = Cardinality(InUse(f)) /\ d = c - 1
  BY DropCounts
<1>3. /\ entrycount = cnt % Word /\ c <= cnt + 1
      /\ (killed # "flush" => cnt <= c) /\ (killed = "none" => cnt = c)
  BY <1>1, <1>2 DEF CountsAs
<1>4. cnt \in 0..N /\ cnt - 1 \in -1..N
  BY <1>2, <1>3, Sizes
<1>5. Fewer = (cnt - 1) % Word
  BY <1>3, <1>4, WordSteps DEF Fewer
<1>6. /\ d <= (cnt - 1) + 1
      /\ (killed # "flush" => cnt - 1 <= d) /\ (killed = "none" => cnt - 1 = d)
  BY <1>2, <1>3, <1>4
<1>7. CountsAs(f, Fewer, killed, cnt - 1)
  BY <1>2, <1>5, <1>6 DEF CountsAs
<1> QED
  BY <1>4, <1>7 DEF Gap

\* killed before the count of an insert
LEMMA HalfInsertGap ==
  ASSUME Gap(entries, entrycount, killed), killed = "none",
         NEW f, Same(f) \/ \E x : Gains(f, x)
  PROVE  Gap(f, entrycount, "insert")
<1>1. PICK cnt \in -1..N : CountsAs(entries, entrycount, killed, cnt)
  BY DEF Gap
<1>2. PICK c \in Nat : c = Cardinality(InUse(entries))
  BY UseCounts
<1>3. entrycount = cnt % Word /\ cnt = c
  BY <1>1, <1>2 DEF CountsAs
<1>4. Cardinality(InUse(f)) \in {c, c + 1}
  <2>1. ASSUME Same(f) PROVE Cardinality(InUse(f)) = c
    BY <1>2, <2>1 DEF Same, InUse, UsedSlots
  <2>2. ASSUME NEW x, Gains(f, x) PROVE Cardinality(InUse(f)) = c + 1
    BY <1>2, <2>2, AddCounts
  <2> QED
    BY <2>1, <2>2
<1>5. CountsAs(f, entrycount, "insert", cnt)
  <2>1. PICK d \in {c, c + 1} : d = Cardinality(InUse(f))
    BY <1>4
  <2>2. d <= cnt + 1 /\ cnt <= d
    BY <1>3, <2>1
  <2> QED
    BY <1>3, <2>1, <2>2 DEF CountsAs
<1> QED
  BY <1>5 DEF Gap

\* killed before or after the count of a remove
LEMMA HalfRemoveGap ==
  ASSUME Gap(entries, entrycount, killed), killed = "none", UsedSlots # {},
         NEW f, Same(f) \/ \E x : Loses(f, x), NEW ec,
         ec = Fewer \/ (f = entries /\ ec = entrycount)
  PROVE  Gap(f, ec, "remove")
<1>1. PICK cnt \in -1..N : CountsAs(entries, entrycount, killed, cnt)
  BY DEF Gap
<1>2. PICK c \in Nat : c = Cardinality(InUse(entries))
  BY UseCounts
<1>3. entrycount = cnt % Word /\ cnt = c
  BY <1>1, <1>2 DEF CountsAs
<1>4. c # 0
  BY <1>2, UseCounts, FS_EmptySet DEF InUse, UsedSlots
<1>5. cnt \in 0..N /\ cnt - 1 \in -1..N
  BY <1>3, <1>4, Sizes
<1>6. CASE ec = Fewer
  <2>1. ec = (cnt - 1) % Word
    BY <1>3, <1>5, <1>6, WordSteps DEF Fewer
  <2>2. PICK d \in {c, c - 1} : d = Cardinality(InUse(f))
    <3>1. ASSUME Same(f) PROVE Cardinality(InUse(f)) = c
      BY <1>2, <3>1 DEF Same, InUse, UsedSlots
    <3>2. ASSUME NEW x, Loses(f, x) PROVE Cardinality(InUse(f)) = c - 1
      BY <1>2, <3>2, DropCounts
    <3> QED
      BY <3>1, <3>2
  <2>3. d <= (cnt - 1) + 1 /\ cnt - 1 <= d
    BY <1>2, <1>3, <2>2
  <2>4. CountsAs(f, ec, "remove", cnt - 1)
    BY <2>1, <2>2, <2>3 DEF CountsAs
  <2> QED
    BY <1>5, <2>4 DEF Gap
<1>7. CASE f = entries /\ ec = entrycount
  <2>1. c <= cnt + 1 /\ cnt <= c
    BY <1>2, <1>3
  <2>2. CountsAs(f, ec, "remove", cnt)
    BY <1>2, <1>3, <1>7, <2>1 DEF CountsAs
  <2> QED
    BY <2>2 DEF Gap
<1> QED
  BY <1>6, <1>7

\* killed inside a flush
LEMMA HalfFlushGap ==
  ASSUME Gap(entries, entrycount, killed), NEW f, InUse(f) \in SUBSET InUse(entries)
  PROVE  Gap(f, entrycount, "flush")
<1>1. PICK cnt \in -1..N : CountsAs(entries, entrycount, killed, cnt)
  BY DEF Gap
<1>2. Cardinality(InUse(f)) <= Cardinality(InUse(entries))
  BY UseCounts, FS_Subset
<1>3. PICK c \in Nat, d \in Nat : c = Cardinality(InUse(entries)) /\ d = Cardinality(InUse(f)) /\ d <= c
  BY <1>2, UseCounts
<1>4. entrycount = cnt % Word /\ c <= cnt + 1
  BY <1>1, <1>3 DEF CountsAs
<1>5. d <= cnt + 1
  BY <1>3, <1>4
<1>6. CountsAs(f, entrycount, "flush", cnt)
  BY <1>3, <1>4, <1>5 DEF CountsAs
<1> QED
  BY <1>6 DEF Gap

\* the count of a sound table
LEMMA SoundCount ==
  ASSUME Gap(entries, entrycount, "none")
  PROVE  entrycount \in 0..N /\ entrycount = Cardinality(UsedSlots)
<1>1. PICK cnt \in -1..N : CountsAs(entries, entrycount, "none", cnt)
  BY DEF Gap
<1>2. UsedSlots = InUse(entries)
  BY DEF UsedSlots, InUse
<1>3. cnt = Cardinality(InUse(entries)) /\ entrycount = cnt % Word
  BY <1>1 DEF CountsAs
<1>4. cnt \in 0..N
  BY <1>3, UseCounts, Sizes
<1> QED
  BY <1>2, <1>3, <1>4, WordSteps

-------------------------------------------------------------------------------
(* Of a sound table, the calls are those of ShmhtTable                     *)

\* a whole insert, remove, flush is that of ShmhtTable
LEMMA WholeInsert ==
  ASSUME KInv, killed = "none", NEW k \in Keys, NEW v \in Nat, Fits(k, v),
         entrycount < N, FreeBuckets # {},
         Runs("insert", InsertStores(k, v), <<"insert", 1>>)
  PROVE  Insert(k, v)
<1>1. Inserts(k, v)
  BY InsertOutcome
<1>2. PICK z : z = ApplyAll(Segment, InsertStores(k, v))
  OBVIOUS
<1>3. /\ z.entries = Link(k, v, Lowest(FreeBuckets))
      /\ z.buckets = [buckets EXCEPT ![Lowest(FreeBuckets)] = [used |-> TRUE, val |-> v]]
      /\ z.entrycount = (entrycount + 1) % Word
  BY <1>1, <1>2 DEF Inserts, Taken
<1>4. entries' = z.entries /\ buckets' = z.buckets /\ entrycount' = z.entrycount
  BY <1>2 DEF Runs, Becomes
<1>5. (entrycount + 1) % Word = entrycount + 1
  <2>1. entrycount \in 0..N
    BY SoundCount DEF KInv
  <2>2. entrycount \in 0..N-1
    BY <2>1, Sizes
  <2> QED
    BY <2>2, WordSteps
<1>6. ret' = <<"insert", 1>> /\ UNCHANGED clock
  BY DEF Runs
<1>7. v <= MaxSize /\ k \notin TooLong
  BY DEF Fits
<1> QED
  BY <1>3, <1>4, <1>5, <1>6, <1>7 DEF Insert

\* the entry a remove finds is in use
LEMMA FoundUsed ==
  ASSUME Segment \in Tables, NEW k \in Keys, Matches(entries, k) # {}
  PROVE  Found(entries, k) \in UsedSlots
<1>1. entries \in [Slots -> Entry]
  BY SegmentFields
<1> QED
  BY <1>1, FoundEntry DEF WellFound

LEMMA WholeRemove ==
  ASSUME KInv, killed = "none", NEW k \in Keys, Matches(entries, k) # {},
         Runs("remove", RemoveStores(k), <<"remove", 1>>)
  PROVE  Remove(k)
<1>0. Segment \in Tables /\ Gap(entries, entrycount, "none")
  BY DEF KInv
<1>1. Removed(RemoveStores(k), k)
  BY <1>0, RemoveStages
<1>2. PICK z : z = ApplyAll(Segment, RemoveStores(k))
  OBVIOUS
<1>3. /\ z.entries = Unlink(entries, k) /\ z.entrycount = Fewer
      /\ z.buckets = [buckets EXCEPT ![entries[Found(entries, k)].bucket].used = FALSE]
  BY <1>1, <1>2 DEF Removed
<1>4. entries' = z.entries /\ buckets' = z.buckets /\ entrycount' = z.entrycount
  BY <1>2 DEF Runs, Becomes
<1>5. Fewer = entrycount - 1
  <2>1. entrycount \in 0..N /\ entrycount = Cardinality(UsedSlots)
    BY <1>0, SoundCount
  <2>2. UsedSlots # {} /\ IsFiniteSet(UsedSlots)
    <3>1. UsedSlots = InUse(entries)
      BY DEF UsedSlots, InUse
    <3> QED
      BY <1>0, <3>1, FoundUsed, UseCounts
  <2>3. entrycount # 0
    BY <2>1, <2>2, FS_EmptySet
  <2>4. entrycount \in 1..N
    BY <2>1, <2>3
  <2> QED
    BY <2>4, WordSteps DEF Fewer
<1>6. PICK h : h = RemoveFrom(Segment, k)
  OBVIOUS
<1>7. /\ h.entries = Unlink(entries, k) /\ h.entrycount = entrycount - 1
      /\ h.buckets = [buckets EXCEPT ![entries[Found(entries, k)].bucket].used = FALSE]
  BY <1>6 DEF RemoveFrom, Segment
<1>8. entries' = h.entries /\ buckets' = h.buckets /\ entrycount' = h.entrycount
  BY <1>3, <1>4, <1>5, <1>7
<1>9. ret' = <<"remove", IF Matches(entries, k) = {} THEN 0 ELSE 1>> /\ UNCHANGED clock
  BY DEF Runs
<1> QED
  BY <1>6, <1>8, <1>9 DEF Remove

LEMMA WholeFlush ==
  ASSUME Segment \in Tables, Runs("flush", FlushStores, <<"flush", 0>>)
  PROVE  Flush
<1>1. AllFlushed(FlushStores)
  BY FlushStages
<1>2. PICK z : z = ApplyAll(Segment, FlushStores)
  OBVIOUS
<1>3. /\ z.entries = [s \in Slots |-> [entries[s] EXCEPT !.used = FALSE]]
      /\ z.buckets = [b \in Primary |-> [buckets[b] EXCEPT !.used = FALSE]]
      /\ z.entrycount = 0
  BY <1>1, <1>2 DEF AllFlushed
<1>4. entries' = z.entries /\ buckets' = z.buckets /\ entrycount' = z.entrycount
  BY <1>2 DEF Runs, Becomes
<1> QED
  BY <1>3, <1>4 DEF Runs, Flush

-------------------------------------------------------------------------------
(* What the calls can rely on, they leave to the next                      *)

\* what a table that a call leaves must be like
LEMMA KInvAfter ==
  ASSUME clock \in Nat, clock' = clock, NEW z \in Tables, Becomes(z), Shape(z.entries),
         Gap(z.entries, z.entrycount, killed'), killed' = "none" => TInv' /\ CInv'
  PROVE  KInv'
<1>1. entries' = z.entries /\ buckets' = z.buckets /\ entrycount' = z.entrycount
  BY DEF Becomes
<1>2. Segment' = z
  BY <1>1, TableFields DEF Segment
<1>3. Shape(entries') /\ Gap(entries', entrycount', killed')
  BY <1>1
<1> QED
  BY <1>2, <1>3 DEF KInv

\* a step of ShmhtTable keeps what is known of a sound table
LEMMA SoundStep ==
  ASSUME TInv, CInv, [Next]_vars
  PROVE  TInv' /\ CInv'
BY NextInv, NextChains

\* insert, whole or killed
LEMMA InsertKeeps ==
  ASSUME KInv, NEW k \in Keys, NEW v \in Values, CrashInsert(k, v)
  PROVE  KInv'
<1> DEFINE l == InsertStores(k, v)
<1>1. /\ Fits(k, v) /\ entrycount < N /\ FreeBuckets # {} /\ v \in Nat
      /\ Runs("insert", l, <<"insert", 1>>) \/ Dies("insert", l)
  BY TableAssumption DEF CrashInsert, Makes
<1>2. Inserts(k, v)
  BY <1>1, InsertOutcome
<1>3. /\ Gap(entries, entrycount, killed) /\ clock \in Nat
      /\ killed = "none" => TInv /\ CInv
  BY DEF KInv
<1>4. CASE Runs("insert", l, <<"insert", 1>>)
  <2>1. PICK z : z = ApplyAll(Segment, l)
    OBVIOUS
  <2>2. Becomes(z) /\ killed' = killed /\ clock' = clock
    BY <1>4, <2>1 DEF Runs
  <2>3. z \in Tables /\ z.entrycount = (entrycount + 1) % Word /\ \E x \in Slots : Gains(z.entries, x)
    BY <1>2, <2>1 DEF Inserts, Taken
  <2>4. PICK x : Gains(z.entries, x)
    BY <2>3
  <2>5. Gap(z.entries, z.entrycount, killed')
    BY <1>1, <1>3, <2>2, <2>3, <2>4, AddsGap
  <2>6. ASSUME killed' = "none" PROVE TInv' /\ CInv'
    <3>1. Insert(k, v)
      BY <1>1, <1>4, <2>2, <2>6, WholeInsert
    <3>2. Next
      BY <3>1 DEF Next
    <3> QED
      BY <1>3, <2>2, <2>6, <3>2, SoundStep
  <2> QED
    BY <1>3, <2>2, <2>3, <2>4, <2>5, <2>6, KInvAfter DEF Gains
<1>5. CASE Dies("insert", l)
  <2>1. PICK n \in 1..Len(l)-1 : Becomes(After(Segment, l)[n])
    BY <1>5 DEF Dies
  <2>2. killed = "none" /\ killed' = "insert" /\ clock' = clock
    BY <1>5 DEF Dies
  <2>3. n \in 0..Len(l)-1
    BY <1>2, <2>1 DEF Inserts
  <2>4. PICK z : z = After(Segment, l)[n]
    OBVIOUS
  <2>5. /\ z \in Tables /\ z.entrycount = entrycount
        /\ Same(z.entries) \/ \E x \in Slots : Gains(z.entries, x)
    BY <1>2, <2>2, <2>3, <2>4 DEF Inserts
  <2>6. Gap(z.entries, z.entrycount, "insert")
    BY <1>3, <2>2, <2>5, HalfInsertGap
  <2>7. Shape(z.entries)
    BY <2>5 DEF Same, Gains
  <2> QED
    BY <1>3, <2>1, <2>2, <2>4, <2>5, <2>6, <2>7, KInvAfter
<1> QED
  BY <1>1, <1>4, <1>5

\* remove, whole or killed
LEMMA RemoveKeeps ==
  ASSUME KInv, NEW k \in Keys, CrashRemove(k)
  PROVE  KInv'
<1> DEFINE l == RemoveStores(k)
<1>1. /\ Matches(entries, k) # {}
      /\ Runs("remove", l, <<"remove", 1>>) \/ Dies("remove", l)
  BY DEF CrashRemove, Makes
<1>2. /\ Gap(entries, entrycount, killed) /\ clock \in Nat /\ Segment \in Tables /\ Shape(entries)
      /\ killed = "none" => TInv /\ CInv
  BY DEF KInv
<1>3. Removed(l, k)
  BY <1>1, <1>2, RemoveStages
<1>4. CASE Runs("remove", l, <<"remove", 1>>)
  <2>1. PICK z : z = ApplyAll(Segment, l)
    OBVIOUS
  <2>2. Becomes(z) /\ killed' = killed /\ clock' = clock
    BY <1>4, <2>1 DEF Runs
  <2>3. z \in Tables /\ z.entrycount = Fewer /\ z.entries = Unlink(entries, k)
    BY <1>3, <2>1 DEF Removed
  <2>4. PICK x : Loses(z.entries, x)
    BY <1>1, <1>2, <2>3, UnlinkShape
  <2>5. Gap(z.entries, z.entrycount, killed')
    BY <1>2, <2>2, <2>3, <2>4, DropsGap
  <2>6. ASSUME killed' = "none" PROVE TInv' /\ CInv'
    <3>1. Remove(k)
      BY <1>1, <1>4, <2>2, <2>6, WholeRemove
    <3>2. Next
      BY <3>1 DEF Next
    <3> QED
      BY <1>2, <2>2, <2>6, <3>2, SoundStep
  <2> QED
    BY <1>2, <2>2, <2>3, <2>4, <2>5, <2>6, KInvAfter DEF Loses
<1>5. CASE Dies("remove", l)
  <2>1. PICK n \in 1..Len(l)-1 : Becomes(After(Segment, l)[n])
    BY <1>5 DEF Dies
  <2>2. killed = "none" /\ killed' = "remove" /\ clock' = clock
    BY <1>5 DEF Dies
  <2>3. n \in 0..Len(l)-1
    BY <1>3, <2>1 DEF Removed
  <2>4. PICK z : z = After(Segment, l)[n]
    OBVIOUS
  <2>5. /\ z \in Tables /\ HalfUnlinked(z.entries, k)
        /\ z.entrycount = Fewer \/ (z.entries = entries /\ z.entrycount = entrycount)
    BY <1>3, <2>3, <2>4 DEF Removed
  <2>6. Same(z.entries) \/ \E x : Loses(z.entries, x)
    BY <1>1, <1>2, <2>5, TableFields, HalfShape
  <2>7. UsedSlots # {}
    BY <1>1, <1>2, FoundUsed
  <2>8. Gap(z.entries, z.entrycount, "remove")
    BY <1>2, <2>2, <2>5, <2>6, <2>7, HalfRemoveGap
  <2>9. Shape(z.entries)
    BY <2>6 DEF Same, Loses
  <2> QED
    BY <1>2, <2>1, <2>2, <2>4, <2>5, <2>8, <2>9, KInvAfter
<1> QED
  BY <1>1, <1>4, <1>5

\* a flush that runs to its end needs nothing of the table but its types
LEMMA FlushKeeps ==
  ASSUME KInv, CrashFlush
  PROVE  KInv'
<1> DEFINE l == FlushStores
<1>1. Runs("flush", l, <<"flush", 0>>) \/ Dies("flush", l)
  BY DEF CrashFlush, Makes
<1>2. /\ Gap(entries, entrycount, killed) /\ clock \in Nat /\ Segment \in Tables /\ Shape(entries)
  BY DEF KInv
<1>3. AllFlushed(l)
  BY <1>2, FlushStages
<1>4. CASE Runs("flush", l, <<"flush", 0>>)
  <2>1. Flush
    BY <1>2, <1>4, WholeFlush
  <2>2. killed' = "none" /\ clock' = clock
    BY <1>4 DEF Runs
  <2>3. entries \in [Slots -> Entry] /\ buckets \in [Primary -> Bucket]
    BY <1>2, SegmentFields
  <2>4. TInv' /\ CInv'
    BY <1>2, <2>1, <2>3, FlushInv, FlushChains DEF Bucket
  <2>5. \A s \in Slots : entries'[s].next = entries[s].next /\ ~entries'[s].used
    <3>1. \A e \in Entry : [e EXCEPT !.used = FALSE].next = e.next /\ ~[e EXCEPT !.used = FALSE].used
      BY DEF Entry
    <3>2. \A s \in Slots : entries'[s] = [entries[s] EXCEPT !.used = FALSE]
      BY <2>1 DEF Flush
    <3> QED
      BY <2>3, <3>1, <3>2
  <2>6. /\ entries' \in [Slots -> Entry] /\ buckets' \in [Primary -> Bucket] /\ entrycount' = 0
    BY <2>1, <2>4 DEF TInv, TypeOK, Flush, Bucket
  <2>7. Shape(entries')
    BY <1>2, <2>5, <2>6, ShapeFewer
  <2>8. Gap(entries', entrycount', killed')
    <3>1. InUse(entries') = {}
      BY <2>5 DEF InUse
    <3>2. Cardinality(InUse(entries')) = 0
      BY <3>1, FS_EmptySet
    <3>3. 0 % Word = 0 /\ 0 \in -1..N
      BY WordRange, Sizes
    <3>4. CountsAs(entries', entrycount', killed', 0)
      BY <2>2, <2>6, <3>2, <3>3 DEF CountsAs
    <3> QED
      BY <3>3, <3>4 DEF Gap
  <2>9. Segment' \in Tables
    <3>1. 0 \in 0..Word-1
      BY WordRange
    <3> QED
      BY <2>6, <3>1 DEF Segment, Tables
  <2> QED
    BY <1>2, <2>2, <2>4, <2>7, <2>8, <2>9 DEF KInv
<1>5. CASE Dies("flush", l)
  <2>1. PICK n \in 1..Len(l)-1 : Becomes(After(Segment, l)[n])
    BY <1>5 DEF Dies
  <2>2. killed' = "flush" /\ clock' = clock
    BY <1>5 DEF Dies
  <2>3. n \in 0..Len(l)-1
    BY <1>3, <2>1 DEF AllFlushed
  <2>4. PICK z : z = After(Segment, l)[n]
    OBVIOUS
  <2>5. HalfFlushed(z)
    BY <1>3, <2>3, <2>4 DEF AllFlushed
  <2>6. /\ z \in Tables /\ z.entrycount = entrycount
        /\ \A s \in Slots : z.entries[s].next = entries[s].next /\ (z.entries[s].used => entries[s].used)
    BY <2>5 DEF HalfFlushed
  <2>7. PICK f \in [Slots -> Entry] : f = z.entries
    BY <2>6, TableFields
  <2>8. Shape(f)
    BY <1>2, <2>6, <2>7, ShapeFewer
  <2>9. InUse(f) \in SUBSET InUse(entries)
    BY <2>6, <2>7 DEF InUse
  <2>10. Gap(f, entrycount, "flush")
    BY <1>2, <2>9, HalfFlushGap
  <2>11. Becomes(z)
    BY <2>1, <2>4
  <2> QED
    BY <1>2, <2>2, <2>6, <2>7, <2>8, <2>10, <2>11, KInvAfter
<1> QED
  BY <1>1, <1>4, <1>5

\* the calls that store nothing are steps of ShmhtTable
LEMMA QuietStep ==
  ASSUME Quiet
  PROVE  Next /\ UNCHANGED <<entries, buckets, entrycount, clock, killed>>
<1>1. ASSUME NEW k \in Keys, Search(k)
      PROVE  Next /\ UNCHANGED <<entries, buckets, entrycount, clock>>
  BY <1>1 DEF Next, Search
<1>2. ASSUME NEW k \in Keys, Matches(entries, k) = {}, Remove(k)
      PROVE  Next /\ UNCHANGED <<entries, buckets, entrycount, clock>>
  <2>1. /\ Segment.entries = entries /\ Segment.buckets = buckets
        /\ Segment.entrycount = entrycount
    BY DEF Segment
  <2>2. RemoveFrom(Segment, k) = Segment
    BY <1>2, <2>1 DEF RemoveFrom
  <2>3. entries' = entries /\ buckets' = buckets /\ entrycount' = entrycount /\ clock' = clock
    BY <1>2, <2>1, <2>2 DEF Remove
  <2> QED
    BY <1>2, <2>3 DEF Next
<1>3. ASSUME NEW k \in Keys, NEW v \in Values, InsertRefused(k, v)
      PROVE  Next /\ UNCHANGED <<entries, buckets, entrycount, clock>>
  BY <1>3 DEF Next, InsertRefused
<1>4. ASSUME Count
      PROVE  Next /\ UNCHANGED <<entries, buckets, entrycount, clock>>
  BY <1>4 DEF Next, Count
<1> QED
  BY <1>1, <1>2, <1>3, <1>4 DEF Quiet

\* nor do they change what is known
LEMMA UntouchedKeeps ==
  ASSUME KInv, [Next]_vars, UNCHANGED <<entries, buckets, entrycount, clock, killed>>
  PROVE  KInv'
<1>1. TInv /\ CInv => TInv' /\ CInv'
  BY SoundStep
<1>2. Segment' = Segment
  BY DEF Segment
<1>3. Shape(entries') /\ Gap(entries', entrycount', killed') /\ clock' \in Nat
  BY DEF KInv
<1> QED
  BY <1>1, <1>2, <1>3 DEF KInv

LEMMA KInvStep ==
  KInv /\ [CrashNext]_<<vars, killed>> => KInv'
<1>1. ASSUME KInv, CrashNext PROVE KInv'
  <2>1. ASSUME NEW k \in Keys, NEW v \in Values, CrashInsert(k, v) PROVE KInv'
    BY <1>1, <2>1, InsertKeeps
  <2>2. ASSUME NEW k \in Keys, CrashRemove(k) PROVE KInv'
    BY <1>1, <2>2, RemoveKeeps
  <2>3. CASE CrashFlush
    BY <1>1, <2>3, FlushKeeps
  <2>4. CASE Quiet
    BY <1>1, <2>4, QuietStep, UntouchedKeeps
  <2> QED
    BY <1>1, <2>1, <2>2, <2>3, <2>4 DEF CrashNext
<1>2. ASSUME KInv, UNCHANGED <<vars, killed>> PROVE KInv'
  <2>1. UNCHANGED vars /\ UNCHANGED <<entries, buckets, entrycount, clock, killed>>
    BY <1>2 DEF vars
  <2> QED
    BY <1>2, <2>1, UntouchedKeeps
<1> QED
  BY <1>1, <1>2

\* In a zeroed segment every entry leads to entry N, which leads to itself.
LEMMA KInvStarts ==
  CrashInit => KInv
<1> SUFFICES ASSUME CrashInit PROVE KInv
  OBVIOUS
<1>1. Init /\ killed = "none"
  BY DEF CrashInit
<1>2. TInv /\ CInv
  BY <1>1, InitInv, StartsWithChains
<1>3. /\ entries \in [Slots -> Entry] /\ buckets \in [Primary -> Bucket]
      /\ entrycount = 0 /\ clock \in Nat
  BY <1>1, <1>2 DEF Init, TInv, TypeOK, Bucket
<1>4. \A s \in Slots : entries[s].next = 0 /\ ~entries[s].used
  BY <1>1 DEF Init, EmptyEntry
<1>5. \A s \in Slots : \A t : Leads(entries, s, t) <=> t = N
  BY <1>4, Sizes DEF Leads, NIL
<1>6. NoCircle(entries)
  <2>1. PICK r : r = [s \in Slots |-> IF s = N THEN 1 ELSE 0]
    OBVIOUS
  <2>2. r \in [Slots -> Nat] /\ r[N] = 1 /\ \A s \in Slots : s # N => r[s] = 0
    BY <2>1, LoopSlot
  <2>3. Ranks(entries, r)
    BY <1>5, <2>2 DEF Ranks
  <2> QED
    BY <2>3 DEF NoCircle
<1>7. LoopApart(entries)
  BY <1>4, <1>5, LoopSlot DEF LoopApart
<1>8. Gap(entries, entrycount, killed)
  <2>1. InUse(entries) = {}
    BY <1>4 DEF InUse
  <2>2. Cardinality(InUse(entries)) = 0
    BY <2>1, FS_EmptySet
  <2>3. 0 % Word = 0 /\ 0 \in -1..N
    BY WordRange, Sizes
  <2>4. CountsAs(entries, entrycount, killed, 0)
    BY <1>3, <2>2, <2>3 DEF CountsAs
  <2> QED
    BY <2>3, <2>4 DEF Gap
<1>9. Segment \in Tables
  <2>1. 0 \in 0..Word-1
    BY WordRange
  <2> QED
    BY <1>3, <2>1 DEF Segment, Tables
<1> QED
  BY <1>1, <1>2, <1>3, <1>6, <1>7, <1>8, <1>9 DEF KInv, Shape

LEMMA KInvAlways ==
  CrashSpec => []KInv
BY KInvStarts, KInvStep, PTL DEF CrashSpec

-------------------------------------------------------------------------------
(* What follows of every later call                                        *)

\* A search that comes to the looping entry unused stops there.
LEMMA SearchComesToEnd ==
  ASSUME Shape(entries), NEW i \in Primary, entries[i].used
  PROVE  SearchEnds(i)
<1>1. entries \in [Slots -> Entry] /\ i \in Slots /\ N + 1 \in 0..N+1
  BY Sizes DEF Shape
<1>2. PICK w : w = Walk(entries, i)
  OBVIOUS
<1>3. CASE Leads(entries, N, N) /\ ~entries[N].used /\ \E n \in 0..N+1 : w[n] = N
  BY <1>2, <1>3 DEF SearchEnds
<1>4. CASE Leads(entries, N, N) /\ \A n \in 0..N+1 : w[n] # N
  BY <1>1, <1>2, <1>4, WalkOut DEF SearchEnds
<1>5. CASE Leads(entries, N, N) => entries[N].used
  BY <1>1, <1>2, <1>5, HeadEnds DEF SearchEnds
<1> QED
  BY <1>3, <1>4, <1>5

\* An insert has cut the looping entry, or it was in use before.
LEMMA InsertComesToEnd ==
  ASSUME Segment \in Tables, Shape(entries), NEW i \in Primary, entries[i].used
  PROVE  InsertEnds(i)
<1>1. entries \in [Slots -> Entry] /\ i \in Slots
  BY Sizes DEF Shape
<1>2. PICK x \in Slots : x = N + FreeCollisionIndex /\ (x # N => entries[N].used)
  <2>1. CASE FreeCollisions # {}
    BY <2>1, FreeCollisionChosen
  <2>2. CASE FreeCollisions = {}
    <3>1. N + FreeCollisionIndex = N - 1 /\ N - 1 \in Slots
      BY <2>2, Sizes DEF FreeCollisionIndex, Slots
    <3>2. entries[N].used
      BY <2>2, LoopSlot DEF FreeCollisions
    <3> QED
      BY <3>1, <3>2
  <2> QED
    BY <2>1, <2>2
<1>3. PICK d \in Entry : d = Linked(entries[x], NIL)
  <2>1. entries[x] \in Entry /\ NIL \in NIL..N-1
    BY <1>1, Sizes DEF NIL
  <2> QED
    BY <2>1, LinkedEntry
<1>4. d.next = NIL /\ d.used = entries[x].used
  <2>1. \A e \in Entry : [e EXCEPT !.next = NIL].next = NIL /\ [e EXCEPT !.next = NIL].used = e.used
    BY DEF Entry
  <2> QED
    BY <1>1, <1>3, <2>1 DEF Linked
<1>5. PICK f \in [Slots -> Entry] : f = [entries EXCEPT ![x] = d]
  BY <1>1
<1>6. f = [entries EXCEPT ![N + FreeCollisionIndex].next = NIL]
  BY <1>1, <1>2, <1>3, <1>5 DEF Linked
<1>7. f[x] = d /\ \A s \in Slots : s # x => f[s] = entries[s]
  BY <1>1, <1>5
<1>8. \A s \in Slots : (s # x => f[s].next = entries[s].next) /\ f[s].used = entries[s].used
  BY <1>4, <1>7
<1>9. Shape(f)
  BY <1>4, <1>7, <1>8, ShapeCut
<1>10. Leads(f, N, N) => f[N].used
  BY <1>2, <1>4, <1>7, <1>8, LoopSlot DEF Leads
<1>11. Walk(f, i)[N+1] = NIL
  BY <1>1, <1>8, <1>9, <1>10, HeadEnds
<1> QED
  BY <1>6, <1>11 DEF InsertEnds

\* the gap as the difference that the counter shows
LEMMA GapUncounted ==
  ASSUME Gap(entries, entrycount, killed), killed # "flush"
  PROVE  Uncounted \in (IF killed = "none" THEN {0} ELSE {0, 1})
<1>1. PICK cnt \in -1..N : CountsAs(entries, entrycount, killed, cnt)
  BY DEF Gap
<1>2. UsedSlots = InUse(entries)
  BY DEF UsedSlots, InUse
<1>3. PICK c \in Nat : c = Cardinality(UsedSlots)
  BY <1>2, UseCounts
<1>4. /\ entrycount = cnt % Word /\ c <= cnt + 1 /\ cnt <= c
      /\ killed = "none" => cnt = c
  BY <1>1, <1>2, <1>3 DEF CountsAs
<1>5. Word \in Nat /\ Word > 2 * N /\ N \in Nat /\ N > 0
  BY WordRange, Sizes
<1>6. \A n \in 0..1 : (n + Word) % Word = n
  <2>1. \A n \in 0..0 : (n + Word) % Word = n
    BY <1>5, WordSteps
  <2> QED
    BY <1>5
<1>7. CASE cnt = -1
  <2>1. (0 + Word - 1) % Word = (0 - 1) % Word
    <3>1. 0 \in 0..N /\ 0 = 0 % Word
      BY <1>5, WordRange
    <3> QED
      BY <3>1, WordSteps
  <2>2. Word - 1 \in 0..Word-1 /\ 1 \in 0..Word-1
    BY <1>5
  <2>3. (Word - 1) % Word = Word - 1 /\ 1 % Word = 1
    BY <2>2, WordRange
  <2>4. entrycount = Word - 1
    BY <1>4, <1>5, <1>7, <2>1, <2>3
  <2>5. c = 0 /\ killed # "none"
    BY <1>3, <1>4, <1>7
  <2>6. c + Word - entrycount = 1
    BY <1>5, <2>4, <2>5
  <2>7. Uncounted = 1
    BY <1>3, <2>3, <2>6 DEF Uncounted
  <2> QED
    BY <2>5, <2>7
<1>8. CASE cnt \in 0..N
  <2>1. entrycount = cnt
    BY <1>4, <1>8, WordSteps
  <2>2. c + Word - entrycount = (c - cnt) + Word /\ c - cnt \in 0..1
    BY <1>3, <1>4, <1>5, <2>1
  <2>3. Uncounted = c - cnt
    BY <1>3, <1>6, <2>2 DEF Uncounted
  <2> QED
    BY <1>4, <2>2, <2>3
<1> QED
  BY <1>7, <1>8

-------------------------------------------------------------------------------
(* The theorems                                                            *)

(* Until a call is killed, the stores of each call add up to the step that *)
(* ShmhtTable takes for it: so all that is proved of that module is true   *)
(* of insert, remove and flush as shmht.c performs them, store by store.   *)
THEOREM StoresAddUp ==
  CrashSpec => StoresMakeTheCall
<1>1. ASSUME KInv, CrashNext, killed = "none", killed' = "none"
      PROVE  Next
  <2>1. ASSUME NEW k \in Keys, NEW v \in Values, CrashInsert(k, v)
        PROVE  Next
    <3>1. /\ Fits(k, v) /\ entrycount < N /\ FreeBuckets # {} /\ v \in Nat
          /\ \/ Runs("insert", InsertStores(k, v), <<"insert", 1>>)
             \/ Dies("insert", InsertStores(k, v))
      BY <2>1, TableAssumption DEF CrashInsert, Makes
    <3>2. Runs("insert", InsertStores(k, v), <<"insert", 1>>)
      BY <1>1, <3>1 DEF Dies
    <3>3. Insert(k, v)
      BY <1>1, <3>1, <3>2, WholeInsert
    <3> QED
      BY <3>3 DEF Next
  <2>2. ASSUME NEW k \in Keys, CrashRemove(k)
        PROVE  Next
    <3>1. /\ Matches(entries, k) # {}
          /\ \/ Runs("remove", RemoveStores(k), <<"remove", 1>>)
             \/ Dies("remove", RemoveStores(k))
      BY <2>2 DEF CrashRemove, Makes
    <3>2. Runs("remove", RemoveStores(k), <<"remove", 1>>)
      BY <1>1, <3>1 DEF Dies
    <3>3. Remove(k)
      BY <1>1, <3>1, <3>2, WholeRemove
    <3> QED
      BY <3>3 DEF Next
  <2>3. CASE CrashFlush
    <3>1. \/ Runs("flush", FlushStores, <<"flush", 0>>)
          \/ Dies("flush", FlushStores)
      BY <2>3 DEF CrashFlush, Makes
    <3>2. Runs("flush", FlushStores, <<"flush", 0>>)
      BY <1>1, <3>1 DEF Dies
    <3>3. Flush
      BY <1>1, <3>2, WholeFlush DEF KInv
    <3> QED
      BY <3>3 DEF Next
  <2>4. CASE Quiet
    BY <2>4, QuietStep
  <2> QED
    BY <1>1, <2>1, <2>2, <2>3, <2>4 DEF CrashNext
<1>2. KInv /\ [CrashNext]_<<vars, killed>>
        => [killed = "none" /\ killed' = "none" => Next]_vars
  BY <1>1
<1> QED
  BY <1>2, KInvAlways, PTL DEF CrashSpec, StoresMakeTheCall

(* A flush that runs to its end makes a table sound again that any killed  *)
(* calls left behind, and it stays sound until a call is killed: chains,   *)
(* buckets, counter and positions.                                         *)
THEOREM FlushRepairs ==
  CrashSpec => []SoundUnlessKilled
<1>1. KInv => SoundUnlessKilled
  BY ChainsPartition DEF KInv, TInv, SoundUnlessKilled
<1> QED
  BY <1>1, KInvAlways, PTL

(* The loops of search, remove and insert end on any table that killed     *)
(* calls left behind: no process hangs in one with the lock held.          *)
THEOREM NoCallLoops ==
  CrashSpec => []ChainsEnd
<1>1. KInv => ChainsEnd
  BY SearchComesToEnd, InsertComesToEnd DEF KInv, ChainsEnd
<1> QED
  BY <1>1, KInvAlways, PTL

(* A killed insert or remove leaves at most one used entry uncounted, and  *)
(* nothing widens the gap: so an insert that the counter lets in and that  *)
(* collides finds a free collision entry, whatever was killed before.      *)
THEOREM OneEntryUncounted ==
  CrashSpec => []KillCostsOneEntry
<1>1. KInv => KillCostsOneEntry
  BY GapUncounted, CollisionLeft DEF KInv, KillCostsOneEntry
<1> QED
  BY <1>1, KInvAlways, PTL
===============================================================================
