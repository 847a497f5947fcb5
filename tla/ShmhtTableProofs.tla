--------------------------- MODULE ShmhtTableProofs ---------------------------
(***************************************************************************)
(* Proofs about the hash table of ShmhtTable, for every table length, key  *)
(* set and hash.  The properties proved are about used entries, buckets    *)
(* and the counter.  They need one more fact to be inductive: a link of a  *)
(* used entry leads to a used entry, and no two lead to the same one, so   *)
(* that removing the head of a chain copies a live entry over it and       *)
(* removing an entry unlinks it from the only one that leads to it.        *)
(*                                                                         *)
(* Last, that the table implements the queues of KeyFifo.  A chain is      *)
(* looked at as the list of keys and values along it: an insert appends to *)
(* the list of its own index, a removal takes one place out of it, however *)
(* the three forms of unlinking do that with entries and links, and no     *)
(* other list changes.  What that does to the queues of the keys is said   *)
(* of any such lists.                                                      *)
(***************************************************************************)
EXTENDS ShmhtTable, TLAPS, FiniteSetTheorems, SequenceTheorems

LinksOwned ==
  /\ \A s \in UsedSlots : entries[s].next # NIL => N + entries[s].next \in UsedSlots
  /\ \A s, t \in UsedSlots :
       entries[s].next # NIL /\ entries[s].next = entries[t].next => s = t

TInv == TypeOK /\ BucketsOwned /\ CountExact /\ PositionsRight /\ LinksOwned

-------------------------------------------------------------------------------
(* The same is said of any arrays ent of entries and bkt of buckets and any *)
(* counter cnt, not only of the current ones: a bulk removal goes through   *)
(* many of them within one step.                                            *)
UsedIn(ent) == {s \in Slots : ent[s].used}

TypedIn(ent, bkt, cnt) ==
  /\ ent \in [Slots -> Entry]
  /\ bkt \in [Primary -> [used : BOOLEAN, val : Nat]]
  /\ cnt \in 0..N
OwnedIn(ent, bkt) ==
  /\ \A s \in UsedIn(ent) : bkt[ent[s].bucket].used
  /\ \A s, t \in UsedIn(ent) : ent[s].bucket = ent[t].bucket => s = t
  /\ \A b \in Primary : bkt[b].used => \E s \in UsedIn(ent) : ent[s].bucket = b
ExactIn(ent, cnt) == cnt = Cardinality(UsedIn(ent))
PlacedIn(ent) ==
  \A s \in UsedIn(ent) : ent[s].position = IF s \in Primary THEN s ELSE s - N
LinksIn(ent) ==
  /\ \A s \in UsedIn(ent) : ent[s].next # NIL => N + ent[s].next \in UsedIn(ent)
  /\ \A s, t \in UsedIn(ent) : ent[s].next # NIL /\ ent[s].next = ent[t].next => s = t

TIn(ent, bkt, cnt) ==
  /\ TypedIn(ent, bkt, cnt) /\ OwnedIn(ent, bkt) /\ ExactIn(ent, cnt)
  /\ PlacedIn(ent) /\ LinksIn(ent)

LEMMA InvIsTIn ==
  /\ UsedSlots = UsedIn(entries)
  /\ TypeOK <=> (TypedIn(entries, buckets, entrycount) /\ clock \in Nat)
  /\ LinksOwned <=> LinksIn(entries)
  /\ TInv <=> (TIn(entries, buckets, entrycount) /\ clock \in Nat)
<1>1. UsedSlots = UsedIn(entries)
  BY DEF UsedSlots, UsedIn
<1>2. TypeOK <=> (TypedIn(entries, buckets, entrycount) /\ clock \in Nat)
  BY DEF TypeOK, TypedIn
<1>3. LinksOwned <=> LinksIn(entries)
  BY <1>1 DEF LinksOwned, LinksIn
<1>4. /\ BucketsOwned <=> OwnedIn(entries, buckets)
      /\ CountExact <=> ExactIn(entries, entrycount)
      /\ PositionsRight <=> PlacedIn(entries)
  BY <1>1 DEF BucketsOwned, OwnedIn, CountExact, ExactIn, PositionsRight, PlacedIn
<1> QED
  BY <1>1, <1>2, <1>3, <1>4 DEF TInv, TIn

LEMMA InvIsTInNext ==
  TInv' <=> (TIn(entries', buckets', entrycount') /\ clock' \in Nat)
<1>1. UsedSlots' = UsedIn(entries')
  BY DEF UsedSlots, UsedIn
<1>2. TypeOK' <=> (TypedIn(entries', buckets', entrycount') /\ clock' \in Nat)
  BY DEF TypeOK, TypedIn
<1>3. LinksOwned' <=> LinksIn(entries')
  BY <1>1 DEF LinksOwned, LinksIn
<1>4. /\ BucketsOwned' <=> OwnedIn(entries', buckets')
      /\ CountExact' <=> ExactIn(entries', entrycount')
      /\ PositionsRight' <=> PlacedIn(entries')
  BY <1>1 DEF BucketsOwned, OwnedIn, CountExact, ExactIn, PositionsRight, PlacedIn
<1> QED
  BY <1>1, <1>2, <1>3, <1>4 DEF TInv, TIn

-------------------------------------------------------------------------------
(* Every nonempty set of naturals has a least element.                     *)
LEMMA LeastExists ==
  ASSUME NEW T \in SUBSET Nat, T # {}
  PROVE  \E m \in T : \A n \in T : m <= n
<1>1. PICK m \in T : \A n \in T : ~(<<n, m>> \in OpToRel(<, Nat))
  BY NatLessThanWellFounded, WFMin
<1>2. \A n \in T : ~(n < m)
  BY <1>1 DEF OpToRel
<1> QED
  BY <1>2

(* Constants.                                                              *)
LEMMA Sizes ==
  /\ N \in Nat /\ N > 0
  /\ Slots = Primary \cup Collision /\ Primary \cap Collision = {}
  /\ NIL \notin Slots
  /\ IsFiniteSet(Slots) /\ IsFiniteSet(Primary) /\ IsFiniteSet(Collision)
  /\ Cardinality(Primary) = N /\ Cardinality(Collision) = N
<1>1. N \in Nat /\ N > 0
  BY TableAssumption
<1>2. Slots = Primary \cup Collision /\ Primary \cap Collision = {} /\ NIL \notin Slots
  BY <1>1 DEF Slots, Primary, Collision, NIL
<1>3. IsFiniteSet(Slots) /\ IsFiniteSet(Primary) /\ IsFiniteSet(Collision)
  BY <1>1, FS_Interval DEF Slots, Primary, Collision
<1>4. Cardinality(Primary) = N
  BY <1>1, FS_Interval DEF Primary
<1>5. Cardinality(Collision) = N
  BY <1>1, FS_Interval DEF Collision
<1> QED
  BY <1>1, <1>2, <1>3, <1>4, <1>5

(* The recursion of Walk has a solution, which Walk therefore is: it       *)
(* starts at s, follows links and stays among the slots.                   *)
LEMMA FollowStays ==
  ASSUME NEW e \in [Slots -> Entry], NEW s \in Slots \cup {NIL}
  PROVE  Follow(e, s) \in Slots \cup {NIL}
<1>1. CASE s = NIL
  BY <1>1 DEF Follow
<1>2. CASE s \in Slots
  <2>1. e[s].next \in NIL..N-1
    BY <1>2 DEF Entry
  <2> QED
    BY <1>2, <2>1, Sizes DEF Follow, NIL, Slots
<1> QED
  BY <1>1, <1>2

LEMMA WalkPrefixes ==
  ASSUME NEW e \in [Slots -> Entry], NEW s \in Slots, NEW m \in Nat
  PROVE  \E f \in [0..m -> Slots \cup {NIL}] :
           f[0] = s /\ \A n \in 1..m : f[n] = Follow(e, f[n-1])
<1> DEFINE Prefix(f, i) == /\ f \in [0..i -> Slots \cup {NIL}] /\ f[0] = s
                           /\ \A n \in 1..i : f[n] = Follow(e, f[n-1])
           T == {i \in Nat : ~\E f : Prefix(f, i)}
<1>1. SUFFICES ASSUME T # {} PROVE FALSE
  OBVIOUS
<1>0. T \in SUBSET Nat
  OBVIOUS
<1>2. PICK i \in T : \A j \in T : i <= j
  <2> HIDE DEF T
  <2> QED
    BY <1>0, <1>1, LeastExists
<1>3. CASE i = 0
  <2>1. Prefix([n \in 0..0 |-> s], 0)
    OBVIOUS
  <2> QED
    BY <1>2, <1>3, <2>1
<1>4. CASE i > 0
  <2>1. i - 1 \in Nat /\ i - 1 \notin T
    <3> HIDE DEF T
    <3> QED
      BY <1>0, <1>2, <1>4
  <2>2. PICK f : Prefix(f, i - 1)
    BY <2>1
  <2> DEFINE g == [n \in 0..i |-> IF n = i THEN Follow(e, f[i-1]) ELSE f[n]]
  <2>3. f[i-1] \in Slots \cup {NIL}
    BY <1>4, <2>1, <2>2
  <2>4. g \in [0..i -> Slots \cup {NIL}]
    BY <1>4, <2>1, <2>2, <2>3, FollowStays
  <2>5. g[0] = s
    BY <1>4, <2>1, <2>2
  <2>6. \A n \in 1..i : g[n] = Follow(e, g[n-1])
    BY <1>4, <2>1, <2>2
  <2>7. Prefix(g, i)
    BY <2>4, <2>5, <2>6
  <2> QED
    BY <1>2, <2>7
<1> QED
  BY <1>2, <1>3, <1>4

LEMMA WalkFollows ==
  ASSUME NEW e \in [Slots -> Entry], NEW s \in Slots
  PROVE  /\ Walk(e, s)[0] = s
         /\ \A n \in 0..N+1 : Walk(e, s)[n] \in Slots \cup {NIL}
         /\ \A n \in 1..N+1 : Walk(e, s)[n] = Follow(e, Walk(e, s)[n-1])
<1> DEFINE Rec(f) == f = [n \in 0..N+1 |-> IF n = 0 THEN s ELSE Follow(e, f[n-1])]
<1>1. PICK f \in [0..N+1 -> Slots \cup {NIL}] :
         f[0] = s /\ \A n \in 1..N+1 : f[n] = Follow(e, f[n-1])
  <2>1. N + 1 \in Nat
    BY Sizes
  <2> QED
    BY <2>1, WalkPrefixes
<1>2. Rec(f)
  <2>1. \A n \in 0..N+1 : f[n] = IF n = 0 THEN s ELSE Follow(e, f[n-1])
    BY <1>1, Sizes
  <2> QED
    BY <1>1, <2>1
<1>3. Walk(e, s) = CHOOSE h : Rec(h)
  BY DEF Walk
<1>4. Rec(Walk(e, s))
  BY <1>2, <1>3
<1> DEFINE w == Walk(e, s)
<1>5. w[0] = s /\ \A n \in 1..N+1 : w[n] = Follow(e, w[n-1])
  BY <1>4, Sizes
<1>6. \A n \in 0..N+1 : w[n] \in Slots \cup {NIL}
  <2> DEFINE T == {n \in 0..N+1 : w[n] \notin Slots \cup {NIL}}
  <2>1. SUFFICES ASSUME T # {} PROVE FALSE
    OBVIOUS
  <2>2. PICK n \in T : \A m \in T : n <= m
    <3>1. T \in SUBSET Nat
      BY Sizes
    <3> HIDE DEF T
    <3> QED
      BY <2>1, <3>1, LeastExists
  <2>3. n # 0
    BY <1>5, <2>2
  <2>4. n - 1 \in 0..N+1 /\ n - 1 \notin T /\ n \in 1..N+1
    BY <2>2, <2>3, Sizes
  <2>5. w[n-1] \in Slots \cup {NIL}
    BY <2>4
  <2> QED
    BY <1>5, <2>2, <2>4, <2>5, FollowStays
<1> QED
  BY <1>5, <1>6

-------------------------------------------------------------------------------
(* What the search loop finds: the first used entry of the key, and, if    *)
(* that is not the primary one, the used entry that links to it.           *)
FoundIn(ent, k) ==
  LET n == FirstMatch(ent, k)
      s == Found(ent, k)
      q == Previous(ent, k)
  IN /\ n \in 0..N+1
     /\ s \in UsedIn(ent)
     /\ n = 0 => s \in Primary
     /\ n > 0 => /\ q \in UsedIn(ent) /\ q # s
                 /\ ent[q].next # NIL /\ N + ent[q].next = s

WellFound(k) ==
  LET n == FirstMatch(entries, k)
      s == Found(entries, k)
      q == Previous(entries, k)
  IN /\ n \in 0..N+1
     /\ s \in UsedSlots
     /\ n = 0 => s \in Primary
     /\ n > 0 => /\ q \in UsedSlots /\ q # s
                 /\ entries[q].next # NIL /\ N + entries[q].next = s

LEMMA FoundEntryIn ==
  ASSUME NEW ent,
         ent \in [Slots -> Entry], NEW k \in Keys, Matches(ent, k) # {}
  PROVE  FoundIn(ent, k)
<1> DEFINE n == FirstMatch(ent, k)
           w == Walk(ent, Index[k])
           M == Matches(ent, k)
<1>1. ent \in [Slots -> Entry] /\ Index[k] \in Primary /\ Index[k] \in Slots
  BY TableAssumption, Sizes DEF Primary
<1>2. /\ w[0] = Index[k]
      /\ \A i \in 0..N+1 : w[i] \in Slots \cup {NIL}
      /\ \A i \in 1..N+1 : w[i] = Follow(ent, w[i-1])
  BY <1>1, WalkFollows
<1>3. M = {i \in 0..N+1 : /\ \A m \in 0..i : w[m] # NIL /\ ent[w[m]].used
                         /\ ent[w[i]].key = k}
  BY DEF Matches, Visits
<1>4. n \in M /\ \A m \in M : n <= m
  <2>1. M \in SUBSET Nat
    BY <1>3, Sizes
  <2>2. \E i \in M : \A m \in M : i <= m
    <3> HIDE DEF M
    <3> QED
      BY <2>1, LeastExists DEF M
  <2> QED
    BY <2>2 DEF FirstMatch
<1> HIDE DEF w, M, n
<1>5. n \in 0..N+1 /\ \A m \in 0..n : w[m] \in Slots /\ ent[w[m]].used
  BY <1>2, <1>3, <1>4, Sizes
<1>6. Found(ent, k) = w[n] /\ Previous(ent, k) = w[n-1]
  BY DEF Found, Previous, w, n
<1>7. w[n] \in UsedIn(ent)
  BY <1>5, Sizes DEF UsedIn
<1>8. ASSUME n > 0
      PROVE  /\ w[n-1] \in UsedIn(ent) /\ w[n-1] # w[n]
             /\ ent[w[n-1]].next # NIL /\ N + ent[w[n-1]].next = w[n]
  <2>1. n - 1 \in 0..n /\ n - 1 \in 0..N+1 /\ n \in 1..N+1
    BY <1>5, <1>8, Sizes
  <2>2. w[n-1] \in UsedIn(ent)
    BY <1>5, <2>1 DEF UsedIn
  <2>3. w[n] = Follow(ent, w[n-1]) /\ w[n] # NIL /\ w[n-1] # NIL
    BY <1>2, <1>5, <1>7, <2>1, <2>2, Sizes DEF UsedIn
  <2>4. ent[w[n-1]].next # NIL /\ N + ent[w[n-1]].next = w[n]
    BY <2>3 DEF Follow
  <2>5. w[n-1] # w[n]
    <3>1. SUFFICES ASSUME w[n-1] = w[n] PROVE FALSE
      OBVIOUS
    <3>2. n - 1 \in M
      BY <1>3, <1>4, <1>5, <2>1, <3>1
    <3> QED
      BY <1>4, <1>5, <3>2
  <2> QED
    BY <2>2, <2>4, <2>5
<1> QED
  BY <1>1, <1>2, <1>5, <1>6, <1>7, <1>8 DEF n, FoundIn

\* the same of the current arrays
LEMMA FoundEntry ==
  ASSUME entries \in [Slots -> Entry], NEW k \in Keys, Matches(entries, k) # {}
  PROVE  WellFound(k)
<1>1. FoundIn(entries, k)
  BY FoundEntryIn
<1> QED
  BY <1>1, InvIsTIn DEF WellFound, FoundIn

LEMMA FoundFacts ==
  ASSUME NEW ent, NEW bkt, NEW cnt,
         TypedIn(ent, bkt, cnt), NEW k \in Keys, Matches(ent, k) # {}
  PROVE  LET n == FirstMatch(ent, k)
             s == Found(ent, k)
             q == Previous(ent, k)
         IN /\ n \in 0..N+1
            /\ s \in UsedIn(ent)
            /\ n = 0 => s \in Primary
            /\ n > 0 => /\ q \in UsedIn(ent) /\ q # s
                        /\ ent[q].next # NIL /\ N + ent[q].next = s
BY FoundEntryIn DEF TypedIn, FoundIn

(* Setting one or two places of the entry array, place by place.           *)
LEMMA SetOne ==
  ASSUME NEW e \in [Slots -> Entry], NEW s \in Slots, NEW x \in Entry
  PROVE  /\ [e EXCEPT ![s] = x] \in [Slots -> Entry]
         /\ [e EXCEPT ![s] = x][s] = x
         /\ \A t \in Slots \ {s} : [e EXCEPT ![s] = x][t] = e[t]
OBVIOUS

Off(x) == [x EXCEPT !.used = FALSE]
Linked(x, m) == [x EXCEPT !.next = m]
Placed(x, m) == [x EXCEPT !.position = m]

LEMMA EntryFields ==
  ASSUME NEW x \in Entry
  PROVE  /\ x.used \in BOOLEAN /\ x.next \in NIL..N-1 /\ x.bucket \in Primary
         /\ x.position \in Primary /\ x.next \in Int
BY DEF Entry, Primary, NIL

LEMMA OffEntry ==
  ASSUME NEW x \in Entry
  PROVE  /\ Off(x) \in Entry /\ Off(x).used = FALSE /\ Off(x).key = x.key
         /\ Off(x).bucket = x.bucket /\ Off(x).position = x.position
BY DEF Entry, Off

LEMMA LinkedEntry ==
  ASSUME NEW x \in Entry, NEW m \in NIL..N-1
  PROVE  /\ Linked(x, m) \in Entry
         /\ Linked(x, m).used = x.used /\ Linked(x, m).next = m
         /\ Linked(x, m).key = x.key /\ Linked(x, m).size = x.size
         /\ Linked(x, m).bucket = x.bucket /\ Linked(x, m).position = x.position
         /\ Linked(x, m).sec = x.sec
BY DEF Entry, Linked

LEMMA PlacedEntry ==
  ASSUME NEW x \in Entry, NEW i \in Primary
  PROVE  /\ Placed(x, i) \in Entry
         /\ Placed(x, i).used = x.used /\ Placed(x, i).next = x.next
         /\ Placed(x, i).key = x.key /\ Placed(x, i).size = x.size
         /\ Placed(x, i).bucket = x.bucket /\ Placed(x, i).position = i
         /\ Placed(x, i).sec = x.sec
BY DEF Entry, Primary, Placed

(* Unlink, whichever of its three forms applies, frees one used slot g:    *)
(* what led to g leads to where g led, and if g is not the entry found     *)
(* then the entry found takes over the bucket of g.                        *)
FreesIn(ent, f, s, g) ==
  /\ f \in [Slots -> Entry]
  /\ g \in UsedIn(ent)
  /\ \A t \in Slots : f[t].used <=> ent[t].used /\ t # g
  /\ \A t \in UsedIn(ent) \ {g} :
       /\ f[t].bucket = IF t = s THEN ent[g].bucket ELSE ent[t].bucket
       /\ f[t].position = ent[t].position
       /\ f[t].next = IF ent[t].next # NIL /\ N + ent[t].next = g
                      THEN ent[g].next ELSE ent[t].next

\* Keys, sizes and times move with the bkt.  An entry other than the one found is freed
\* only when it is next after it, and the head of a chain only when alone.
FreesChainIn(ent, f, s, g) ==
  /\ \A t \in UsedIn(ent) \ {g} :
       /\ f[t].key = IF t = s THEN ent[g].key ELSE ent[t].key
       /\ f[t].size = IF t = s THEN ent[g].size ELSE ent[t].size
       /\ f[t].sec = IF t = s THEN ent[g].sec ELSE ent[t].sec
  /\ g # s => ent[s].next # NIL /\ N + ent[s].next = g
  /\ g \in Collision \/ ent[g].next = NIL
  /\ \A t \in Slots \ {s} : f[t].key = ent[t].key

LEMMA UnlinkFrees ==
  ASSUME NEW ent, NEW bkt, NEW cnt,
         TypedIn(ent, bkt, cnt), LinksIn(ent), NEW k \in Keys, Matches(ent, k) # {}
  PROVE  \E g \in Slots : /\ FreesIn(ent, Unlink(ent, k), Found(ent, k), g)
                          /\ FreesChainIn(ent, Unlink(ent, k), Found(ent, k), g)
<1> DEFINE s == Found(ent, k)
           q == Previous(ent, k)
           n == FirstMatch(ent, k)
<1>1. /\ n \in 0..N+1 /\ s \in UsedIn(ent)
      /\ n = 0 => s \in Primary
      /\ n > 0 => /\ q \in UsedIn(ent) /\ q # s
                  /\ ent[q].next # NIL /\ N + ent[q].next = s
  BY FoundFacts
<1>2. Unlink(ent, k) =
        IF n > 0
        THEN [ent EXCEPT ![q].next = ent[s].next, ![s].used = FALSE]
        ELSE IF ent[s].next = NIL THEN [ent EXCEPT ![s].used = FALSE]
        ELSE [ent EXCEPT ![s] = [ent[N + ent[s].next] EXCEPT
                                       !.position = ent[s].position],
                             ![N + ent[s].next].used = FALSE]
  BY DEF Unlink
<1> HIDE DEF s, q, n
<1>3. ent \in [Slots -> Entry]
  BY DEF TypedIn
<1>4. \A t \in UsedIn(ent) : t \in Slots /\ ent[t].used /\ ent[t] \in Entry
  BY <1>3 DEF UsedIn
<1>0. \A t \in UsedIn(ent) : /\ ent[t].next \in NIL..N-1 /\ ent[t].next \in Int
                          /\ ent[t].position \in Primary
  BY <1>4, EntryFields
<1>l. \A t, u \in UsedIn(ent) :
        /\ ent[t].next # NIL => N + ent[t].next \in UsedIn(ent)
        /\ ent[u].next # NIL /\ ent[t].next # NIL
             => (N + ent[t].next = N + ent[u].next => t = u)
  BY <1>0, Sizes DEF LinksIn
<1>c. \A t \in UsedIn(ent) : ent[t].next # NIL => N + ent[t].next \in Collision
  BY <1>0, Sizes DEF Collision, NIL
<1>5. CASE n > 0
  <2> DEFINE f == [ent EXCEPT ![q].next = ent[s].next, ![s].used = FALSE]
  <2>0. f = [[ent EXCEPT ![q] = Linked(ent[q], ent[s].next)]
               EXCEPT ![s] = Off(ent[s])]
    <3> DEFINE d == [ent EXCEPT ![q].next = ent[s].next]
    <3>1. d = [ent EXCEPT ![q] = Linked(ent[q], ent[s].next)]
      BY DEF Linked
    <3>2. d[s] = ent[s]
      BY <1>1, <1>3, <1>4, <1>5
    <3>3. [d EXCEPT ![s].used = FALSE] = [d EXCEPT ![s] = Off(d[s])]
      <4> HIDE DEF d
      <4> QED
        BY DEF Off
    <3>4. f = [d EXCEPT ![s].used = FALSE]
      OBVIOUS
    <3> QED
      BY <3>1, <3>2, <3>3, <3>4
  <2> HIDE DEF f
  <2>1. \A t \in Slots : f[t] = IF t = s THEN Off(ent[s])
                               ELSE IF t = q THEN Linked(ent[q], ent[s].next)
                               ELSE ent[t]
    BY <1>1, <1>3, <1>4, <1>5, <2>0
  <2>2. /\ Off(ent[s]) \in Entry /\ Off(ent[s]).used = FALSE
        /\ Linked(ent[q], ent[s].next) \in Entry
        /\ Linked(ent[q], ent[s].next).used = ent[q].used
        /\ Linked(ent[q], ent[s].next).key = ent[q].key
        /\ Linked(ent[q], ent[s].next).size = ent[q].size
        /\ Linked(ent[q], ent[s].next).sec = ent[q].sec
        /\ Linked(ent[q], ent[s].next).next = ent[s].next
        /\ Linked(ent[q], ent[s].next).bucket = ent[q].bucket
        /\ Linked(ent[q], ent[s].next).position = ent[q].position
    <3>1. /\ ent[s] \in Entry /\ ent[q] \in Entry
          /\ ent[s].next \in NIL..N-1 /\ ent[s].position \in Primary
      BY <1>0, <1>1, <1>4, <1>5
    <3> QED
      BY <3>1, OffEntry, LinkedEntry
  <2>3. f \in [Slots -> Entry]
    BY <1>1, <1>3, <1>4, <1>5, <2>0, <2>2
  <2>4. \A t \in Slots : f[t].used <=> ent[t].used /\ t # s
    BY <1>1, <1>4, <1>5, <2>1, <2>2
  <2>5. \A t \in UsedIn(ent) : ent[t].next # NIL /\ N + ent[t].next = s <=> t = q
    BY <1>1, <1>5, <1>l
  <2>6. \A t \in UsedIn(ent) \ {s} :
          /\ f[t].bucket = ent[t].bucket /\ f[t].position = ent[t].position
          /\ f[t].next = IF t = q THEN ent[s].next ELSE ent[t].next
    BY <1>4, <2>1, <2>2
  <2>7. FreesIn(ent, f, s, s)
    BY <1>1, <2>3, <2>4, <2>5, <2>6 DEF FreesIn
  <2>8. FreesChainIn(ent, f, s, s)
    <3>1. s \in Collision
      BY <1>1, <1>5, <1>c
    <3>2. \A t \in UsedIn(ent) \ {s} :
            f[t].key = ent[t].key /\ f[t].size = ent[t].size /\ f[t].sec = ent[t].sec
      BY <1>4, <2>1, <2>2
    <3>3. \A t \in Slots \ {s} : f[t].key = ent[t].key
      BY <1>1, <2>1, <2>2
    <3> QED
      BY <3>1, <3>2, <3>3 DEF FreesChainIn
  <2> QED
    BY <1>1, <1>2, <1>4, <1>5, <2>7, <2>8 DEF f, s
<1>6. CASE n = 0 /\ ent[s].next = NIL
  <2> DEFINE f == [ent EXCEPT ![s].used = FALSE]
  <2>0. f = [ent EXCEPT ![s] = Off(ent[s])]
    BY DEF Off
  <2> HIDE DEF f
  <2>1. \A t \in Slots : f[t] = IF t = s THEN Off(ent[s]) ELSE ent[t]
    BY <1>1, <1>3, <1>4, <2>0
  <2>2. Off(ent[s]) \in Entry /\ Off(ent[s]).used = FALSE
    BY <1>0, <1>1, <1>4, OffEntry
  <2>3. f \in [Slots -> Entry]
    BY <1>1, <1>3, <1>4, <2>0, <2>2
  <2>4. \A t \in Slots : f[t].used <=> ent[t].used /\ t # s
    BY <2>1, <2>2
  <2>5. \A t \in UsedIn(ent) : ~(ent[t].next # NIL /\ N + ent[t].next = s)
    BY <1>0, <1>1, <1>6, Sizes DEF Primary, NIL
  <2>6. \A t \in UsedIn(ent) \ {s} :
          /\ f[t].bucket = ent[t].bucket /\ f[t].position = ent[t].position
          /\ f[t].next = ent[t].next
    BY <1>4, <2>1
  <2>7. FreesIn(ent, f, s, s)
    BY <1>1, <2>3, <2>4, <2>5, <2>6 DEF FreesIn
  <2>8. FreesChainIn(ent, f, s, s)
    BY <1>4, <1>6, <2>1 DEF FreesChainIn
  <2> QED
    BY <1>1, <1>2, <1>4, <1>6, <2>7, <2>8 DEF f, s
<1>7. CASE n = 0 /\ ent[s].next # NIL
  <2> DEFINE g == N + ent[s].next
             x == Placed(ent[g], ent[s].position)
             f == [ent EXCEPT ![s] = [ent[g] EXCEPT !.position = ent[s].position],
                                  ![g].used = FALSE]
  <2>1. g \in UsedIn(ent) /\ g # s
    BY <1>0, <1>1, <1>7, <1>l, Sizes DEF Primary, NIL
  <2>0. f = [[ent EXCEPT ![s] = x] EXCEPT ![g] = Off(ent[g])]
    <3> DEFINE d == [ent EXCEPT ![s] = x]
    <3>1. f = [d EXCEPT ![g].used = FALSE]
      BY DEF Placed
    <3>2. d[g] = ent[g]
      <4> HIDE DEF x, g
      <4> QED
        BY <1>1, <1>3, <1>4, <2>1
    <3>3. [d EXCEPT ![g].used = FALSE] = [d EXCEPT ![g] = Off(d[g])]
      <4> HIDE DEF d, g
      <4> QED
        BY DEF Off
    <3> QED
      BY <3>1, <3>2, <3>3
  <2>2. /\ x \in Entry /\ x.used = ent[g].used /\ x.bucket = ent[g].bucket
        /\ x.key = ent[g].key /\ x.size = ent[g].size /\ x.sec = ent[g].sec
        /\ x.next = ent[g].next /\ x.position = ent[s].position
        /\ Off(ent[g]) \in Entry /\ Off(ent[g]).used = FALSE
        /\ Off(ent[g]).key = ent[g].key
    <3>1. /\ ent[s] \in Entry /\ ent[g] \in Entry
          /\ ent[s].next \in NIL..N-1 /\ ent[s].position \in Primary
      BY <1>0, <1>1, <1>4, <2>1
    <3> HIDE DEF g
    <3>2. /\ Off(ent[g]) \in Entry /\ Off(ent[g]).used = FALSE
          /\ Off(ent[g]).key = ent[g].key
      BY <3>1, OffEntry
    <3> QED
      BY <3>1, <3>2, PlacedEntry
  <2>s. ent[s].next # NIL /\ N + ent[s].next = g
    BY <1>7
  <2>h. Unlink(ent, k) = f
    BY <1>1, <1>2, <1>7
  <2> HIDE DEF f, g, x
  <2>3. \A t \in Slots : f[t] = IF t = g THEN Off(ent[g])
                               ELSE IF t = s THEN x ELSE ent[t]
    BY <1>1, <1>3, <1>4, <2>0, <2>1
  <2>4. f \in [Slots -> Entry]
    BY <1>1, <1>3, <1>4, <2>0, <2>1, <2>2
  <2>5. \A t \in Slots : f[t].used <=> ent[t].used /\ t # g
    BY <1>1, <1>4, <2>1, <2>2, <2>3
  <2>6. \A t \in UsedIn(ent) : ent[t].next # NIL /\ N + ent[t].next = g <=> t = s
    BY <1>1, <1>l, <2>s
  <2>7. \A t \in UsedIn(ent) \ {g} :
          /\ f[t].bucket = IF t = s THEN ent[g].bucket ELSE ent[t].bucket
          /\ f[t].position = ent[t].position
          /\ f[t].next = IF t = s THEN ent[g].next ELSE ent[t].next
    BY <1>4, <2>2, <2>3
  <2>8. FreesIn(ent, f, s, g)
    BY <2>1, <2>4, <2>5, <2>6, <2>7 DEF FreesIn
  <2>k. \A t \in Slots \ {s} : f[t].key = ent[t].key
    BY <2>2, <2>3
  <2>9. FreesChainIn(ent, f, s, g)
    BY <1>1, <1>4, <1>c, <2>1, <2>2, <2>3, <2>s, <2>k DEF FreesChainIn
  <2> QED
    BY <1>4, <2>1, <2>8, <2>9, <2>h DEF s
<1> QED
  BY <1>1, <1>5, <1>6, <1>7, Sizes

-------------------------------------------------------------------------------
(* The chain of a used primary entry ends: its slots are distinct, for two *)
(* equal ones would have equal predecessors back to the primary slot, to   *)
(* which nothing links; and there are only N collision slots.              *)
LEMMA ChainEnds ==
  ASSUME TypeOK, LinksOwned, NEW i \in Primary, entries[i].used
  PROVE  /\ LastOf(entries, i) \in UsedSlots
         /\ entries[LastOf(entries, i)].next = NIL
         /\ \E n \in 0..N+1 : LastOf(entries, i) = Walk(entries, i)[n]
<1> DEFINE w == Walk(entries, i)
<1>1. entries \in [Slots -> Entry] /\ i \in Slots /\ i \in UsedSlots
  BY Sizes DEF TypeOK, UsedSlots
<1>2. /\ w[0] = i
      /\ \A n \in 0..N+1 : w[n] \in Slots \cup {NIL}
      /\ \A n \in 1..N+1 : w[n] = Follow(entries, w[n-1])
  BY <1>1, WalkFollows
<1>3. LastOf(entries, i) = w[CHOOSE n \in 0..N+1 : w[n] # NIL /\ Follow(entries, w[n]) = NIL]
  BY DEF LastOf
<1> HIDE DEF w
<1>t. \A t \in UsedSlots : entries[t].next \in NIL..N-1 /\ entries[t].next \in Int
  BY <1>1, EntryFields DEF UsedSlots
<1>u. \A t \in UsedSlots : t # NIL /\ t \in Slots
  BY Sizes DEF UsedSlots
(* The chain passes through used entries only.                             *)
<1>v. \A n \in 0..N+1 : w[n] \in UsedSlots \cup {NIL}
  <2> DEFINE T == {m \in 0..N+1 : w[m] \notin UsedSlots \cup {NIL}}
  <2>1. SUFFICES ASSUME T # {} PROVE FALSE
    OBVIOUS
  <2>2. PICK m \in T : \A j \in T : m <= j
    <3>1. T \in SUBSET Nat
      BY Sizes
    <3> HIDE DEF T
    <3> QED
      BY <2>1, <3>1, LeastExists
  <2>3. m # 0
    BY <1>1, <1>2, <2>2
  <2>4. m \in 1..N+1 /\ m - 1 \in 0..N+1 /\ m - 1 \notin T
    BY <2>2, <2>3, Sizes
  <2>5. w[m-1] \in UsedSlots \cup {NIL} /\ w[m] = Follow(entries, w[m-1])
    BY <1>2, <2>4
  <2>6. w[m] \in UsedSlots \cup {NIL}
    BY <2>5 DEF Follow, LinksOwned
  <2> QED
    BY <2>2, <2>6
(* Up to the end, the chain passes through used entries.                   *)
<1>4. ASSUME NEW n \in 0..N+1, w[n] \notin UsedSlots
      PROVE  \E m \in 0..N+1 : w[m] \in UsedSlots /\ Follow(entries, w[m]) = NIL
  <2> DEFINE T == {m \in 0..N+1 : w[m] \notin UsedSlots}
  <2>1. T \in SUBSET Nat /\ T # {}
    BY <1>4, Sizes
  <2>2. PICK m \in T : \A j \in T : m <= j
    <3> HIDE DEF T
    <3> QED
      BY <2>1, LeastExists
  <2>3. m # 0
    BY <1>1, <1>2, <2>2
  <2>4. m \in 1..N+1 /\ m - 1 \in 0..N+1 /\ m - 1 \notin T
    BY <2>2, <2>3, Sizes
  <2>5. w[m-1] \in UsedSlots
    BY <2>4
  <2>6. w[m] = Follow(entries, w[m-1])
    BY <1>2, <2>4
  <2>7. entries[w[m-1]].next = NIL
    BY <2>2, <2>5, <2>6, <1>u DEF Follow, LinksOwned
  <2> QED
    BY <1>u, <2>4, <2>5, <2>7 DEF Follow
(* It cannot go on through N + 1 collision slots.                          *)
<1>5. ASSUME \A n \in 0..N+1 : w[n] \in UsedSlots
      PROVE  FALSE
  <2>1. \A n \in 1..N+1 : /\ n - 1 \in 0..N+1
                          /\ w[n-1] \in UsedSlots /\ w[n] \in UsedSlots
                          /\ entries[w[n-1]].next # NIL
                          /\ w[n] = N + entries[w[n-1]].next
    <3>1. TAKE n \in 1..N+1
    <3>2. n - 1 \in 0..N+1 /\ n \in 0..N+1
      BY <3>1, Sizes
    <3>3. w[n-1] \in UsedSlots /\ w[n] \in UsedSlots
      BY <1>5, <3>2
    <3>4. w[n] = Follow(entries, w[n-1]) /\ w[n] # NIL /\ w[n-1] # NIL
      BY <1>2, <1>u, <3>1, <3>3
    <3> QED
      BY <3>2, <3>3, <3>4 DEF Follow
  <2>2. \A n \in 1..N+1 : w[n] \in Collision
    <3>1. TAKE n \in 1..N+1
    <3>2. entries[w[n-1]].next \in 0..N-1 /\ w[n] = N + entries[w[n-1]].next
      BY <1>t, <2>1, Sizes DEF NIL
    <3> QED
      BY <3>2, Sizes DEF Collision
  <2> DEFINE v == [n \in 1..N+1 |-> w[n]]
  <2>3. v \in [1..N+1 -> Collision]
    BY <2>2
  <2>4. /\ IsFiniteSet(1..N+1) /\ Cardinality(1..N+1) = N + 1
        /\ IsFiniteSet(Collision) /\ Cardinality(Collision) = N /\ N < N + 1
    BY FS_Interval, Sizes
  <2>5. \E x, y \in 1..N+1 : x # y /\ v[x] = v[y]
    <3> DEFINE D == 1..N+1
    <3>1. Cardinality(Collision) < Cardinality(D)
      BY <2>4
    <3> HIDE DEF v, D
    <3>2. v \in [D -> Collision] /\ IsFiniteSet(D) /\ IsFiniteSet(Collision)
      BY <2>3, <2>4 DEF D
    <3>3. \E x, y \in D : x # y /\ v[x] = v[y]
      BY <3>1, <3>2, FS_PigeonHole
    <3> QED
      BY <3>3 DEF D
  <2> DEFINE T == {x \in 1..N+1 : \E y \in 1..N+1 : x < y /\ w[x] = w[y]}
  <2>6. T \in SUBSET Nat /\ T # {}
    BY <2>5, Sizes
  <2>7. PICK x \in T : \A z \in T : x <= z
    <3> HIDE DEF T
    <3> QED
      BY <2>6, LeastExists
  <2>8. PICK y \in 1..N+1 : x < y /\ w[x] = w[y]
    BY <2>7
  <2>9. w[x-1] = w[y-1]
    <3>1. x \in 1..N+1
      BY <2>7
    <3>2. /\ w[x-1] \in UsedSlots /\ w[x] = N + entries[w[x-1]].next
          /\ entries[w[x-1]].next # NIL
          /\ w[y-1] \in UsedSlots /\ w[y] = N + entries[w[y-1]].next
          /\ entries[w[y-1]].next # NIL
      BY <2>1, <2>8, <3>1
    <3>3. N + entries[w[x-1]].next = N + entries[w[y-1]].next
      BY <2>8, <3>2
    <3>4. entries[w[x-1]].next \in Int /\ entries[w[y-1]].next \in Int
      BY <1>t, <3>2
    <3>5. entries[w[x-1]].next = entries[w[y-1]].next
      BY <3>3, <3>4, Sizes
    <3> QED
      BY <3>2, <3>5 DEF LinksOwned
  <2>10. CASE x = 1
    <3>1. w[0] = w[y-1] /\ y - 1 \in 1..N+1
      BY <2>8, <2>9, <2>10, Sizes
    <3>2. i \in Collision
      BY <1>2, <2>2, <3>1
    <3> QED
      BY <3>2, Sizes
  <2>11. CASE x # 1
    <3>1. x - 1 \in 1..N+1 /\ y - 1 \in 1..N+1 /\ x - 1 < y - 1
      BY <2>7, <2>8, <2>11, Sizes
    <3>2. x - 1 \in T
      BY <2>9, <3>1
    <3>3. x <= x - 1 /\ x \in Nat
      BY <2>6, <2>7, <3>2
    <3> QED
      BY <3>3
  <2> QED
    BY <2>10, <2>11
<1>6. PICK m \in 0..N+1 : w[m] \in UsedSlots /\ Follow(entries, w[m]) = NIL
  BY <1>4, <1>5
<1> DEFINE l == CHOOSE n \in 0..N+1 : w[n] # NIL /\ Follow(entries, w[n]) = NIL
<1>7. l \in 0..N+1 /\ w[l] # NIL /\ Follow(entries, w[l]) = NIL
  BY <1>6, <1>u
<1> HIDE DEF l
<1>8. entries[w[l]].next = NIL
  <2>1. w[l] \in Slots
    BY <1>2, <1>7
  <2>2. N + entries[w[l]].next = NIL => entries[w[l]].next = NIL
    BY <1>1, <2>1, EntryFields, Sizes DEF NIL
  <2> QED
    BY <1>7, <2>2 DEF Follow
<1>9. w[l] \in UsedSlots
  BY <1>7, <1>v
<1> QED
  BY <1>3, <1>7, <1>8, <1>9 DEF l, w

-------------------------------------------------------------------------------
(* Link marks one unused slot x as used, with bucket b and no successor; l *)
(* is the only entry whose link may change, and then it leads to x.        *)
Grows(f, x, l, b) ==
  /\ f \in [Slots -> Entry]
  /\ x \in Slots \ UsedSlots
  /\ f[x].used /\ f[x].bucket = b /\ f[x].next = NIL
  /\ f[x].position = IF x \in Primary THEN x ELSE x - N
  /\ \A t \in Slots \ {x} : f[t].used = entries[t].used
  /\ \A t \in UsedSlots : /\ f[t].bucket = entries[t].bucket
                          /\ f[t].position = entries[t].position
                          /\ t # l => f[t].next = entries[t].next
  /\ l \in UsedSlots => N + f[l].next = x

\* A new entry goes to the place of its key, or to the end of the chain that
\* begins there.
GrowsInChain(f, x, l, k, v) ==
  /\ f[x].key = k /\ f[x].size = v /\ f[x].sec = clock
  /\ \A t \in UsedSlots : /\ f[t].key = entries[t].key /\ f[t].size = entries[t].size
                          /\ f[t].sec = entries[t].sec
  /\ x \in Primary => x = Index[k] /\ l = NIL
  /\ x \in Collision =>
       /\ Index[k] \in UsedSlots /\ l = LastOf(entries, Index[k])
       /\ l \in UsedSlots /\ entries[l].next = NIL

LEMMA NewEntryFields ==
  ASSUME clock \in Nat, NEW x \in Slots, NEW k \in Keys, NEW v \in Nat, NEW b \in Primary
  PROVE  /\ NewEntry(x, k, v, b) \in Entry
         /\ NewEntry(x, k, v, b).used /\ NewEntry(x, k, v, b).bucket = b
         /\ NewEntry(x, k, v, b).key = k /\ NewEntry(x, k, v, b).size = v
         /\ NewEntry(x, k, v, b).next = NIL /\ NewEntry(x, k, v, b).sec = clock
         /\ NewEntry(x, k, v, b).position = IF x \in Primary THEN x ELSE x - N
<1> DEFINE p == IF x \in Primary THEN x ELSE x - N
<1>1. p \in 0..N-1
  BY Sizes DEF Primary, Collision
<1>2. NIL \in NIL..N-1
  BY Sizes DEF NIL
<1>3. NewEntry(x, k, v, b) = [used |-> TRUE, key |-> k, next |-> NIL, bucket |-> b,
                              position |-> p, size |-> v, sec |-> clock]
  BY DEF NewEntry
<1> HIDE DEF p
<1>4. NewEntry(x, k, v, b) \in Entry
  BY <1>1, <1>2, <1>3 DEF Entry, Primary
<1> QED
  BY <1>3, <1>4 DEF p

LEMMA LinkAdds ==
  ASSUME TypeOK, LinksOwned, FreeCollisions # {},
         NEW k \in Keys, NEW v \in Nat, NEW b \in Primary
  PROVE  \E x \in Slots, l \in Slots \cup {NIL} :
           Grows(Link(k, v, b), x, l, b) /\ GrowsInChain(Link(k, v, b), x, l, k, v)
<1> DEFINE i == Index[k]
           c == Lowest(FreeCollisions)
           l == LastOf(entries, i)
<1>1. entries \in [Slots -> Entry] /\ clock \in Nat /\ i \in Primary /\ i \in Slots
  BY TableAssumption, Sizes DEF TypeOK, Primary
<1>2. Link(k, v, b) =
        IF ~entries[i].used THEN [entries EXCEPT ![i] = NewEntry(i, k, v, b)]
        ELSE [entries EXCEPT ![c] = NewEntry(c, k, v, b), ![l].next = c - N]
  BY DEF Link
<1> HIDE DEF i, c, l
<1>3. CASE ~entries[i].used
  <2> DEFINE f == [entries EXCEPT ![i] = NewEntry(i, k, v, b)]
             e == NewEntry(i, k, v, b)
  <2>1. /\ e \in Entry /\ e.used /\ e.bucket = b /\ e.next = NIL /\ e.key = k /\ e.size = v
        /\ e.sec = clock
        /\ e.position = IF i \in Primary THEN i ELSE i - N
    BY <1>1, NewEntryFields
  <2> HIDE DEF e
  <2>2. f = [entries EXCEPT ![i] = e]
    BY DEF e
  <2> HIDE DEF f
  <2>3. f \in [Slots -> Entry] /\ f[i] = e /\ \A t \in Slots \ {i} : f[t] = entries[t]
    BY <1>1, <2>1, <2>2
  <2>4. i \in Slots \ UsedSlots /\ NIL \notin UsedSlots /\ UsedSlots \subseteq Slots \ {i}
    BY <1>1, <1>3, Sizes DEF UsedSlots
  <2>5. Grows(f, i, NIL, b)
    BY <2>1, <2>3, <2>4 DEF Grows
  <2>6. GrowsInChain(f, i, NIL, k, v)
    BY <1>1, <2>1, <2>3, <2>4, Sizes DEF GrowsInChain, i
  <2> QED
    BY <1>1, <1>2, <1>3, <2>5, <2>6 DEF f
<1>4. CASE entries[i].used
  <2> DEFINE e == NewEntry(c, k, v, b)
             d == [entries EXCEPT ![c] = e]
             f == [entries EXCEPT ![c] = NewEntry(c, k, v, b), ![l].next = c - N]
  <2>1. l \in UsedSlots /\ entries[l].next = NIL /\ l \in Slots
    BY <1>1, <1>4, ChainEnds DEF l, UsedSlots
  <2>2. c \in Collision /\ ~entries[c].used /\ c \in Slots /\ c - N \in NIL..N-1
        /\ N + (c - N) = c
    <3>1. FreeCollisions \in SUBSET Nat
      BY Sizes DEF FreeCollisions, Collision
    <3>2. \E j \in FreeCollisions : \A m \in FreeCollisions : j <= m
      BY <3>1, LeastExists
    <3>3. c \in FreeCollisions
      BY <3>2 DEF c, Lowest
    <3>4. c \in Collision /\ ~entries[c].used
      BY <3>3 DEF FreeCollisions
    <3> QED
      BY <3>4, Sizes DEF Collision, NIL
  <2>3. /\ e \in Entry /\ e.used /\ e.bucket = b /\ e.next = NIL /\ e.key = k /\ e.size = v
        /\ e.sec = clock
        /\ e.position = IF c \in Primary THEN c ELSE c - N
    BY <1>1, <2>2, NewEntryFields
  <2>4. f = [d EXCEPT ![l] = Linked(d[l], c - N)]
    <3>1. f = [d EXCEPT ![l].next = c - N]
      OBVIOUS
    <3> HIDE DEF d, f
    <3> QED
      BY <3>1 DEF Linked
  <2> HIDE DEF e
  <2>5. d \in [Slots -> Entry] /\ d[c] = e /\ \A t \in Slots \ {c} : d[t] = entries[t]
    BY <1>1, <2>2, <2>3
  <2>6. l # c /\ d[l] = entries[l] /\ entries[l] \in Entry
    BY <1>1, <2>1, <2>2, <2>5 DEF UsedSlots
  <2> HIDE DEF d, f
  <2> DEFINE y == Linked(entries[l], c - N)
  <2>7. /\ y \in Entry /\ y.used = entries[l].used /\ y.next = c - N
        /\ y.key = entries[l].key /\ y.size = entries[l].size /\ y.sec = entries[l].sec
        /\ y.bucket = entries[l].bucket /\ y.position = entries[l].position
    BY <2>2, <2>6, LinkedEntry
  <2>8. f = [d EXCEPT ![l] = y]
    BY <2>4, <2>6
  <2> HIDE DEF y
  <2>9. f \in [Slots -> Entry] /\ f[l] = y /\ \A t \in Slots \ {l} : f[t] = d[t]
    BY <2>1, <2>5, <2>7, <2>8
  <2>10. f[c] = e /\ \A t \in Slots \ {c, l} : f[t] = entries[t]
    BY <2>2, <2>5, <2>6, <2>9
  <2>11. c \in Slots \ UsedSlots /\ UsedSlots \subseteq Slots \ {c}
    BY <2>2 DEF UsedSlots
  <2>12. \A t \in Slots \ {c} : f[t].used = entries[t].used
    BY <2>7, <2>9, <2>10
  <2>13. \A t \in UsedSlots : /\ f[t].bucket = entries[t].bucket
                              /\ f[t].position = entries[t].position
                              /\ t # l => f[t].next = entries[t].next
    BY <2>7, <2>9, <2>10, <2>11
  <2>14. N + f[l].next = c
    BY <2>2, <2>7, <2>9
  <2>15. /\ f[c].used /\ f[c].bucket = b /\ f[c].next = NIL
         /\ f[c].position = IF c \in Primary THEN c ELSE c - N
    BY <2>3, <2>10
  <2>16. Grows(f, c, l, b)
    BY <2>9, <2>11, <2>12, <2>13, <2>14, <2>15 DEF Grows
  <2>17. GrowsInChain(f, c, l, k, v)
    <3>1. \A t \in UsedSlots : /\ f[t].key = entries[t].key /\ f[t].size = entries[t].size
                               /\ f[t].sec = entries[t].sec
      BY <2>7, <2>9, <2>10, <2>11
    <3>2. c \in Collision /\ c \notin Primary /\ i \in UsedSlots
      BY <1>1, <1>4, <2>2, Sizes DEF UsedSlots
    <3> QED
      BY <2>1, <2>3, <2>10, <3>1, <3>2 DEF GrowsInChain, i, l
  <2> QED
    BY <1>2, <1>4, <2>1, <2>2, <2>16, <2>17 DEF f
<1> QED
  BY <1>3, <1>4

(* While the counter is below N there are a bucket and a collision slot.   *)
LEMMA Room ==
  ASSUME TypeOK, BucketsOwned, CountExact
  PROVE  RoomForInsert
<1>1. SUFFICES ASSUME entrycount < N PROVE FreeBuckets # {} /\ FreeCollisions # {}
  BY DEF RoomForInsert
<1>2. IsFiniteSet(UsedSlots) /\ Cardinality(UsedSlots) = entrycount /\ entrycount \in Int
  <2>1. UsedSlots \in SUBSET Slots
    BY DEF UsedSlots
  <2> QED
    BY <2>1, FS_Subset, Sizes DEF CountExact, TypeOK
<1>3. FreeBuckets # {}
  <2>1. SUFFICES ASSUME FreeBuckets = {} PROVE FALSE
    OBVIOUS
  <2>2. \A b \in Primary : \E s \in UsedSlots : entries[s].bucket = b
    BY <2>1 DEF BucketsOwned, FreeBuckets
  <2> DEFINE owner == [b \in Primary |-> CHOOSE s \in UsedSlots : entries[s].bucket = b]
  <2>3. \A b \in Primary : owner[b] \in UsedSlots /\ entries[owner[b]].bucket = b
    BY <2>2
  <2>4. owner \in [Primary -> UsedSlots]
    BY <2>3
  <2>5. N \in Int /\ entrycount < N
    BY <1>1, Sizes
  <2> HIDE DEF owner
  <2>6. \E x, y \in Primary : x # y /\ owner[x] = owner[y]
    BY <1>2, <2>4, <2>5, Sizes, FS_PigeonHole
  <2> QED
    BY <2>3, <2>6
<1>4. FreeCollisions # {}
  <2>1. SUFFICES ASSUME FreeCollisions = {} PROVE FALSE
    OBVIOUS
  <2>2. Collision \in SUBSET UsedSlots
    BY <2>1, Sizes DEF FreeCollisions, UsedSlots
  <2>3. Cardinality(Collision) <= Cardinality(UsedSlots)
    BY <1>2, <2>2, FS_Subset
  <2> QED
    BY <1>1, <1>2, <2>3, Sizes
<1> QED
  BY <1>3, <1>4

-------------------------------------------------------------------------------
(* A step that adds an entry preserves the invariant.                      *)
LEMMA GrowStep ==
  ASSUME TInv, entrycount < N, NEW x, NEW l, NEW b \in Primary, NEW v \in Nat,
         ~buckets[b].used, Grows(entries', x, l, b),
         buckets' = [buckets EXCEPT ![b] = [used |-> TRUE, val |-> v]],
         entrycount' = entrycount + 1, clock' = clock
  PROVE  TInv'
<1>1. TypeOK /\ BucketsOwned /\ CountExact /\ PositionsRight /\ LinksOwned
  BY DEF TInv
<1>2. x \in Slots \ UsedSlots /\ x \in Slots /\ x \notin UsedSlots
  BY DEF Grows
<1>3. UsedSlots' = UsedSlots \cup {x}
  BY <1>2 DEF Grows, UsedSlots
<1>4. \A t \in UsedSlots : /\ entries'[t].bucket = entries[t].bucket
                          /\ entries'[t].position = entries[t].position
  BY DEF Grows
<1>n. \A t \in UsedSlots \ {l} : entries'[t].next = entries[t].next
  BY DEF Grows
<1>5. /\ entries'[x].bucket = b /\ entries'[x].next = NIL
      /\ entries' \in [Slots -> Entry]
  BY DEF Grows
<1>p. entries'[x].position = IF x \in Primary THEN x ELSE x - N
  BY DEF Grows
<1>l. l \in UsedSlots => N + entries'[l].next = x
  BY DEF Grows
<1>6. /\ buckets'[b].used
      /\ \A c \in Primary \ {b} : buckets'[c].used = buckets[c].used
      /\ buckets' \in [Primary -> [used : BOOLEAN, val : Nat]]
  BY <1>1 DEF TypeOK
<1>u. \A t \in UsedSlots : entries[t].bucket \in Primary /\ entries[t].next \in Int
  BY <1>1, EntryFields DEF TypeOK, UsedSlots
<1>7. TypeOK'
  <2>1. entrycount' \in 0..N
    BY <1>1, Sizes DEF TypeOK
  <2> QED
    BY <1>1, <1>5, <1>6, <2>1 DEF TypeOK
<1>8. BucketsOwned'
  <2>1. \A t \in UsedSlots : entries[t].bucket # b
    BY <1>1 DEF BucketsOwned
  <2>2. \A s \in UsedSlots' : buckets'[entries'[s].bucket].used
    <3>1. buckets'[entries'[x].bucket].used
      BY <1>5, <1>6
    <3>2. ASSUME NEW s \in UsedSlots PROVE buckets'[entries'[s].bucket].used
      <4>1. entries[s].bucket \in Primary \ {b} /\ buckets[entries[s].bucket].used
        BY <1>1, <1>u, <2>1 DEF BucketsOwned
      <4> QED
        BY <1>4, <1>6, <4>1
    <3> QED
      BY <1>3, <3>1, <3>2
  <2>3. \A s, t \in UsedSlots' : entries'[s].bucket = entries'[t].bucket => s = t
    <3>1. \A s, t \in UsedSlots : entries[s].bucket = entries[t].bucket => s = t
      BY <1>1 DEF BucketsOwned
    <3>2. \A s \in UsedSlots : entries'[s].bucket = entries[s].bucket
      BY <1>4
    <3> QED
      BY <1>3, <1>5, <2>1, <3>1, <3>2
  <2>4. \A c \in Primary : buckets'[c].used => \E s \in UsedSlots' : entries'[s].bucket = c
    <3>1. TAKE c \in Primary
    <3>2. HAVE buckets'[c].used
    <3>3. CASE c = b
      BY <1>3, <1>5, <3>3
    <3>4. CASE c # b
      <4>1. PICK s \in UsedSlots : entries[s].bucket = c
        BY <1>1, <1>6, <3>1, <3>2, <3>4 DEF BucketsOwned
      <4> QED
        BY <1>3, <1>4, <4>1
    <3> QED
      BY <3>3, <3>4
  <2> QED
    BY <2>2, <2>3, <2>4 DEF BucketsOwned
<1>9. CountExact'
  <2>1. IsFiniteSet(UsedSlots)
    <3>1. UsedSlots \in SUBSET Slots
      BY DEF UsedSlots
    <3> QED
      BY <3>1, FS_Subset, Sizes
  <2>2. Cardinality(UsedSlots \cup {x}) = Cardinality(UsedSlots) + 1
    BY <1>2, <2>1, FS_AddElement
  <2> QED
    BY <1>1, <1>3, <2>2 DEF CountExact
<1>10. PositionsRight'
  <2>1. SUFFICES ASSUME NEW s \in UsedSlots'
                 PROVE  entries'[s].position = IF s \in Primary THEN s ELSE s - N
    BY DEF PositionsRight
  <2>2. CASE s = x
    BY <1>p, <2>2
  <2>3. CASE s \in UsedSlots
    BY <1>1, <1>4, <2>3 DEF PositionsRight
  <2> QED
    BY <1>3, <2>2, <2>3
<1>11. LinksOwned'
  <2>1. ASSUME NEW s \in UsedSlots', entries'[s].next # NIL
        PROVE  N + entries'[s].next \in UsedSlots'
    <3>1. CASE s = x
      BY <1>5, <2>1, <3>1
    <3>2. CASE s \in UsedSlots /\ s = l
      BY <1>3, <1>l, <3>2
    <3>3. CASE s \in UsedSlots /\ s # l
      <4>1. entries'[s].next = entries[s].next
        BY <1>n, <3>3
      <4> QED
        BY <1>1, <1>3, <2>1, <3>3, <4>1 DEF LinksOwned
    <3> QED
      BY <1>3, <3>1, <3>2, <3>3
  <2>2. \A t \in UsedSlots : t # l /\ entries'[t].next # NIL
                            => N + entries'[t].next \in UsedSlots
    <3>1. TAKE t \in UsedSlots
    <3>2. HAVE t # l /\ entries'[t].next # NIL
    <3>3. entries'[t].next = entries[t].next
      BY <1>n, <3>1, <3>2
    <3> QED
      BY <1>1, <3>1, <3>2, <3>3 DEF LinksOwned
  <2>3. ASSUME NEW s \in UsedSlots', NEW t \in UsedSlots',
               entries'[s].next # NIL, entries'[s].next = entries'[t].next
        PROVE  s = t
    <3>1. s \in UsedSlots /\ t \in UsedSlots
      BY <1>3, <1>5, <2>3
    <3>2. N + entries'[s].next = N + entries'[t].next
      BY <2>3
    <3>3. CASE s # l /\ t # l
      <4>1. entries'[s].next = entries[s].next /\ entries'[t].next = entries[t].next
        BY <1>n, <3>1, <3>3
      <4> QED
        BY <1>1, <2>3, <3>1, <4>1 DEF LinksOwned
    <3>4. CASE s # l /\ t = l
      BY <1>2, <1>l, <2>2, <2>3, <3>1, <3>2, <3>4
    <3>5. CASE s = l /\ t # l
      BY <1>2, <1>l, <2>2, <2>3, <3>1, <3>2, <3>5
    <3> QED
      BY <3>3, <3>4, <3>5
  <2> QED
    BY <2>1, <2>3 DEF LinksOwned
<1> QED
  BY <1>7, <1>8, <1>9, <1>10, <1>11 DEF TInv

(* A step that frees an entry preserves the invariant.                     *)
LEMMA FreeStep ==
  ASSUME NEW ent, NEW bkt, NEW cnt, NEW ent1, NEW bkt1, NEW cnt1,
         TIn(ent, bkt, cnt), NEW s \in UsedIn(ent), NEW g, FreesIn(ent, ent1, s, g),
         bkt1 = [bkt EXCEPT ![ent[s].bucket].used = FALSE],
         cnt1 = cnt - 1
  PROVE  TIn(ent1, bkt1, cnt1)
<1>1. /\ TypedIn(ent, bkt, cnt) /\ OwnedIn(ent, bkt) /\ ExactIn(ent, cnt)
      /\ PlacedIn(ent) /\ LinksIn(ent)
  BY DEF TIn
<1>2. g \in UsedIn(ent) /\ ent1 \in [Slots -> Entry]
  BY DEF FreesIn
<1>3. UsedIn(ent1) = UsedIn(ent) \ {g}
  BY DEF FreesIn, UsedIn
<1>4. \A t \in UsedIn(ent) \ {g} :
        /\ ent1[t].bucket = IF t = s THEN ent[g].bucket ELSE ent[t].bucket
        /\ ent1[t].position = ent[t].position
        /\ ent1[t].next = IF ent[t].next # NIL /\ N + ent[t].next = g
                             THEN ent[g].next ELSE ent[t].next
  BY DEF FreesIn
<1>u. \A t \in UsedIn(ent) : ent[t].bucket \in Primary /\ ent[t].next \in Int
  BY <1>1, EntryFields DEF TypedIn, UsedIn
<1> DEFINE b == ent[s].bucket
<1>5. b \in Primary
  BY <1>u
<1> HIDE DEF b
<1>6. bkt1 = [bkt EXCEPT ![b] = [bkt[b] EXCEPT !.used = FALSE]]
  BY DEF b
<1>7. /\ ~bkt1[b].used
      /\ \A c \in Primary \ {b} : bkt1[c].used = bkt[c].used
      /\ bkt1 \in [Primary -> [used : BOOLEAN, val : Nat]]
  <2>1. bkt \in [Primary -> [used : BOOLEAN, val : Nat]]
    BY <1>1 DEF TypedIn
  <2> DEFINE y == [bkt[b] EXCEPT !.used = FALSE]
  <2>2. y \in [used : BOOLEAN, val : Nat] /\ ~y.used
    BY <1>5, <2>1
  <2> HIDE DEF y
  <2>3. bkt1 = [bkt EXCEPT ![b] = y]
    BY <1>6 DEF y
  <2> QED
    BY <1>5, <2>1, <2>2, <2>3
<1>8. /\ IsFiniteSet(UsedIn(ent))
      /\ Cardinality(UsedIn(ent) \ {g}) = Cardinality(UsedIn(ent)) - 1
      /\ Cardinality(UsedIn(ent) \ {g}) \in Nat
  <2>1. UsedIn(ent) \in SUBSET Slots
    BY DEF UsedIn
  <2>2. IsFiniteSet(UsedIn(ent))
    BY <2>1, FS_Subset, Sizes
  <2>3. /\ IsFiniteSet(UsedIn(ent) \ {g})
        /\ Cardinality(UsedIn(ent) \ {g}) = Cardinality(UsedIn(ent)) - 1
    BY <1>2, <2>2, FS_RemoveElement
  <2> QED
    BY <2>2, <2>3, FS_CardinalityType
<1>9. ExactIn(ent1, cnt1)
  BY <1>1, <1>3, <1>8 DEF ExactIn
<1>10. TypedIn(ent1, bkt1, cnt1)
  <2>1. cnt1 \in 0..N
    BY <1>1, <1>8, Sizes DEF TypedIn, ExactIn
  <2> QED
    BY <1>1, <1>2, <1>7, <2>1 DEF TypedIn
<1>11. OwnedIn(ent1, bkt1)
  <2>1. \A t, u \in UsedIn(ent) : ent[t].bucket = ent[u].bucket => t = u
    BY <1>1 DEF OwnedIn
  <2>2. \A t \in UsedIn(ent1) :
          /\ t \in UsedIn(ent) /\ t # g
          /\ ent1[t].bucket = IF t = s THEN ent[g].bucket ELSE ent[t].bucket
    BY <1>3, <1>4
  <2>3. \A t \in UsedIn(ent1) : ent1[t].bucket # b /\ ent1[t].bucket \in Primary
    BY <1>2, <1>u, <2>1, <2>2 DEF b
  <2>4. \A t \in UsedIn(ent1) : bkt1[ent1[t].bucket].used
    BY <1>1, <1>2, <1>7, <2>2, <2>3 DEF OwnedIn
  <2>5. \A t, u \in UsedIn(ent1) : ent1[t].bucket = ent1[u].bucket => t = u
    BY <1>2, <2>1, <2>2
  <2>6. ASSUME NEW c \in Primary, bkt1[c].used
        PROVE  \E t \in UsedIn(ent1) : ent1[t].bucket = c
    <3>1. c # b /\ bkt[c].used
      BY <1>7, <2>6
    <3>2. PICK t \in UsedIn(ent) : ent[t].bucket = c
      BY <1>1, <2>6, <3>1 DEF OwnedIn
    <3>3. t # s
      BY <3>1, <3>2 DEF b
    <3>4. CASE t = g
      BY <1>3, <1>4, <3>2, <3>3, <3>4
    <3>5. CASE t # g
      BY <1>3, <1>4, <3>2, <3>3, <3>5
    <3> QED
      BY <3>4, <3>5
  <2> QED
    BY <2>4, <2>5, <2>6 DEF OwnedIn
<1>12. PlacedIn(ent1)
  BY <1>1, <1>3, <1>4 DEF PlacedIn
<1>13. LinksIn(ent1)
  <2>1. \A t, u \in UsedIn(ent) :
          /\ ent[t].next # NIL => N + ent[t].next \in UsedIn(ent)
          /\ ent[t].next # NIL /\ N + ent[t].next = N + ent[u].next => t = u
    BY <1>1, <1>u, Sizes DEF LinksIn
  <2>2. ASSUME NEW t \in UsedIn(ent1), ent1[t].next # NIL
        PROVE  /\ N + ent1[t].next \in UsedIn(ent1)
               /\ \E p \in UsedIn(ent) : /\ ent[p].next # NIL
                                         /\ ent1[t].next = ent[p].next
                                         /\ ent[t].next # NIL
                                         /\ p = g <=> N + ent[t].next = g
                                         /\ p # g => p = t
    <3>1. t \in UsedIn(ent) /\ t # g
      BY <1>3
    <3>2. CASE ent[t].next # NIL /\ N + ent[t].next = g
      <4>1. ent1[t].next = ent[g].next
        BY <1>4, <3>1, <3>2
      <4>2. N + ent[g].next # g
        BY <1>2, <2>1, <3>1, <3>2
      <4>3. N + ent1[t].next \in UsedIn(ent1)
        BY <1>2, <1>3, <2>1, <2>2, <4>1, <4>2
      <4> QED
        BY <1>2, <2>2, <3>2, <4>1, <4>3
    <3>3. CASE ~(ent[t].next # NIL /\ N + ent[t].next = g)
      <4>1. ent1[t].next = ent[t].next
        BY <1>4, <3>1, <3>3
      <4>2. N + ent1[t].next \in UsedIn(ent1)
        BY <1>3, <2>1, <2>2, <3>1, <3>3, <4>1
      <4> QED
        BY <2>2, <3>1, <3>3, <4>1, <4>2
    <3> QED
      BY <3>2, <3>3
  <2>3. ASSUME NEW t \in UsedIn(ent1), NEW u \in UsedIn(ent1),
               ent1[t].next # NIL, ent1[t].next = ent1[u].next
        PROVE  t = u
    <3>1. t \in UsedIn(ent) /\ u \in UsedIn(ent)
      BY <1>3
    <3>2. PICK p \in UsedIn(ent) : /\ ent[p].next # NIL
                                   /\ ent1[t].next = ent[p].next
                                   /\ ent[t].next # NIL
                                   /\ p = g <=> N + ent[t].next = g
                                   /\ p # g => p = t
      BY <2>2, <2>3
    <3>3. PICK r \in UsedIn(ent) : /\ ent[r].next # NIL
                                   /\ ent1[u].next = ent[r].next
                                   /\ ent[u].next # NIL
                                   /\ r = g <=> N + ent[u].next = g
                                   /\ r # g => r = u
      BY <2>2, <2>3
    <3>4. p = r
      BY <2>1, <2>3, <3>2, <3>3
    <3>5. CASE p = g
      BY <2>1, <3>1, <3>2, <3>3, <3>4, <3>5
    <3>6. CASE p # g
      BY <3>2, <3>3, <3>4, <3>6
    <3> QED
      BY <3>5, <3>6
  <2> QED
    BY <2>2, <2>3 DEF LinksIn
<1> QED
  BY <1>9, <1>10, <1>11, <1>12, <1>13 DEF TIn

-------------------------------------------------------------------------------
LEMMA InitInv ==
  Init => TInv
<1> SUFFICES ASSUME Init PROVE TInv
  OBVIOUS
<1>1. EmptyEntry \in Entry /\ ~EmptyEntry.used
  BY Sizes DEF EmptyEntry, Entry, NIL
<1>2. UsedSlots = {}
  BY <1>1 DEF Init, UsedSlots
<1>3. [used |-> FALSE, val |-> 0] \in [used : BOOLEAN, val : Nat]
  OBVIOUS
<1>4. \A b \in Primary : ~buckets[b].used
  BY DEF Init
<1>5. TypeOK
  BY <1>1, <1>3, Sizes DEF Init, TypeOK
<1>6. CountExact
  BY <1>2, FS_EmptySet DEF Init, CountExact
<1> QED
  BY <1>2, <1>4, <1>5, <1>6 DEF TInv, BucketsOwned, PositionsRight, LinksOwned

LEMMA InsertInv ==
  ASSUME TInv, NEW k \in Keys, NEW v \in Values, Insert(k, v)
  PROVE  TInv'
<1> DEFINE b == Lowest(FreeBuckets)
<1>1. TypeOK /\ BucketsOwned /\ CountExact /\ LinksOwned /\ v \in Nat
  BY TableAssumption DEF TInv
<1>2. /\ entrycount < N /\ FreeBuckets # {}
      /\ buckets' = [buckets EXCEPT ![b] = [used |-> TRUE, val |-> v]]
      /\ entries' = Link(k, v, b) /\ entrycount' = entrycount + 1 /\ clock' = clock
  BY DEF Insert
<1>3. FreeCollisions # {}
  BY <1>1, <1>2, Room DEF RoomForInsert
<1>4. b \in Primary /\ ~buckets[b].used
  <2>1. FreeBuckets \in SUBSET Nat
    BY Sizes DEF FreeBuckets, Primary
  <2>2. \E j \in FreeBuckets : \A m \in FreeBuckets : j <= m
    BY <1>2, <2>1, LeastExists
  <2>3. b \in FreeBuckets
    BY <2>2 DEF Lowest
  <2> QED
    BY <2>3 DEF FreeBuckets
<1> HIDE DEF b
<1>5. PICK x \in Slots, l \in Slots \cup {NIL} : Grows(entries', x, l, b)
  BY <1>1, <1>2, <1>3, <1>4, LinkAdds
<1> QED
  BY <1>1, <1>2, <1>4, <1>5, GrowStep

LEMMA RemoveInv ==
  ASSUME TInv, NEW k \in Keys, Remove(k)
  PROVE  TInv'
<1> DEFINE h == RemoveFrom(Segment, k)
<1>1. /\ TIn(entries, buckets, entrycount) /\ clock \in Nat
      /\ TypedIn(entries, buckets, entrycount) /\ LinksIn(entries)
  BY InvIsTIn DEF TIn
<1>2. entries' = h.entries /\ buckets' = h.buckets /\ entrycount' = h.entrycount /\ clock' = clock
  BY DEF Remove
<1>3. CASE Matches(entries, k) = {}
  <2>1. h = Segment
    BY <1>3 DEF RemoveFrom, Segment
  <2>2. entries' = entries /\ buckets' = buckets /\ entrycount' = entrycount
    BY <1>2, <2>1 DEF Segment
  <2> QED
    BY <1>2, <2>2 DEF TInv, TypeOK, BucketsOwned, CountExact, PositionsRight, LinksOwned, UsedSlots
<1>4. CASE Matches(entries, k) # {}
  <2>1. /\ entries' = Unlink(entries, k)
        /\ buckets' = [buckets EXCEPT ![entries[Found(entries, k)].bucket].used = FALSE]
        /\ entrycount' = entrycount - 1
    BY <1>2, <1>4 DEF RemoveFrom, Segment
  <2>2. Found(entries, k) \in UsedIn(entries)
    BY <1>1, <1>4, FoundFacts
  <2>3. PICK g \in Slots : FreesIn(entries, entries', Found(entries, k), g)
    BY <1>1, <1>4, <2>1, UnlinkFrees
  <2>4. TIn(entries', buckets', entrycount')
    BY <1>1, <2>1, <2>2, <2>3, FreeStep
  <2> QED
    BY <1>1, <1>2, <2>4, InvIsTInNext
<1> QED
  BY <1>3, <1>4

\* a flush needs no more than the types
LEMMA FlushInv ==
  ASSUME entries \in [Slots -> Entry], buckets \in [Primary -> [used : BOOLEAN, val : Nat]],
         clock \in Nat, Flush
  PROVE  TInv'
<1>1. \A x \in Entry : Off(x) \in Entry /\ ~Off(x).used
  BY OffEntry
<1>2. entries' = [s \in Slots |-> Off(entries[s])]
  BY DEF Flush, Off
<1>4. UsedSlots' = {} /\ entries' \in [Slots -> Entry]
  BY <1>1, <1>2 DEF UsedSlots
<1>5. /\ buckets' \in [Primary -> [used : BOOLEAN, val : Nat]]
      /\ \A b \in Primary : ~buckets'[b].used
  BY DEF Flush
<1>6. TypeOK'
  BY <1>4, <1>5, Sizes DEF Flush, TypeOK
<1>7. CountExact'
  BY <1>4, FS_EmptySet DEF Flush, CountExact
<1> QED
  BY <1>4, <1>5, <1>6, <1>7 DEF TInv, BucketsOwned, PositionsRight, LinksOwned

LEMMA NextInv ==
  TInv /\ [Next]_vars => TInv'
<1> SUFFICES ASSUME TInv, [Next]_vars PROVE TInv'
  OBVIOUS
<1>1. ASSUME UNCHANGED <<entries, buckets, entrycount>>, clock' \in Nat
      PROVE  TInv'
  BY <1>1 DEF TInv, TypeOK, BucketsOwned, CountExact, PositionsRight, LinksOwned, UsedSlots
<1>0. clock \in Nat
  BY DEF TInv, TypeOK
<1>2. CASE Tick
  BY <1>0, <1>1, <1>2 DEF Tick
<1>3. ASSUME NEW k \in Keys, Search(k)
      PROVE  TInv'
  BY <1>0, <1>1, <1>3 DEF Search
<1>4. ASSUME NEW k \in Keys, Remove(k)
      PROVE  TInv'
  BY <1>4, RemoveInv
<1>5. ASSUME NEW k \in Keys, NEW v \in Values, Insert(k, v)
      PROVE  TInv'
  BY <1>5, InsertInv
<1>6. ASSUME NEW k \in Keys, NEW v \in Values, InsertRefused(k, v)
      PROVE  TInv'
  BY <1>0, <1>1, <1>6 DEF InsertRefused
<1>7. CASE Count
  BY <1>0, <1>1, <1>7 DEF Count
<1>8. CASE Flush
  BY <1>8, FlushInv DEF TInv, TypeOK
<1>9. CASE UNCHANGED vars
  BY <1>0, <1>1, <1>9 DEF vars
<1> QED
  BY <1>2, <1>3, <1>4, <1>5, <1>6, <1>7, <1>8, <1>9 DEF Next

LEMMA InvAlways ==
  Spec => []TInv
BY InitInv, NextInv, PTL DEF Spec

-------------------------------------------------------------------------------
(* The chains.  That each used entry is on exactly one of them is not said *)
(* of walks, which every removal and copy changes, but link by link: the   *)
(* links lead to keys of the same index, every used collision entry is led *)
(* to, and there are no cycles, since some rank rises along every link.    *)
HeadsAtHome == \A s \in UsedSlots : s \in Primary => Index[entries[s].key] = s
LinksKeepIndex ==
  \A s \in UsedSlots : entries[s].next # NIL =>
    Index[entries[N + entries[s].next].key] = Index[entries[s].key]
AllLinked ==
  \A s \in UsedSlots : s \in Collision =>
    \E q \in UsedSlots : entries[q].next # NIL /\ N + entries[q].next = s
Rises(rank) ==
  \A s \in UsedSlots : entries[s].next # NIL => rank[s] < rank[N + entries[s].next]
Acyclic == \E rank \in [Slots -> Nat] : Rises(rank)

CInv == HeadsAtHome /\ LinksKeepIndex /\ AllLinked /\ Acyclic

HeadsIn(ent) == \A s \in UsedIn(ent) : s \in Primary => Index[ent[s].key] = s
KeepIn(ent) ==
  \A s \in UsedIn(ent) : ent[s].next # NIL =>
    Index[ent[N + ent[s].next].key] = Index[ent[s].key]
LinkedIn(ent) ==
  \A s \in UsedIn(ent) : s \in Collision =>
    \E q \in UsedIn(ent) : ent[q].next # NIL /\ N + ent[q].next = s
RisesIn(ent, rank) ==
  \A s \in UsedIn(ent) : ent[s].next # NIL => rank[s] < rank[N + ent[s].next]
AcyclicIn(ent) == \E rank \in [Slots -> Nat] : RisesIn(ent, rank)

CIn(ent) == HeadsIn(ent) /\ KeepIn(ent) /\ LinkedIn(ent) /\ AcyclicIn(ent)

LEMMA InvIsCIn ==
  /\ HeadsAtHome <=> HeadsIn(entries)
  /\ LinksKeepIndex <=> KeepIn(entries)
  /\ CInv <=> CIn(entries)
<1>1. UsedSlots = UsedIn(entries)
  BY DEF UsedSlots, UsedIn
<1>2. HeadsAtHome <=> HeadsIn(entries)
  BY <1>1 DEF HeadsAtHome, HeadsIn
<1>3. LinksKeepIndex <=> KeepIn(entries)
  BY <1>1 DEF LinksKeepIndex, KeepIn
<1>4. AllLinked <=> LinkedIn(entries)
  BY <1>1 DEF AllLinked, LinkedIn
<1>5. Acyclic <=> AcyclicIn(entries)
  BY <1>1 DEF Acyclic, AcyclicIn, Rises, RisesIn
<1> QED
  BY <1>2, <1>3, <1>4, <1>5 DEF CInv, CIn

LEMMA InvIsCInNext ==
  CInv' <=> CIn(entries')
<1>1. UsedSlots' = UsedIn(entries')
  BY DEF UsedSlots, UsedIn
<1>2. HeadsAtHome' <=> HeadsIn(entries')
  BY <1>1 DEF HeadsAtHome, HeadsIn
<1>3. LinksKeepIndex' <=> KeepIn(entries')
  BY <1>1 DEF LinksKeepIndex, KeepIn
<1>4. AllLinked' <=> LinkedIn(entries')
  BY <1>1 DEF AllLinked, LinkedIn
<1>5. Acyclic' <=> AcyclicIn(entries')
  BY <1>1 DEF Acyclic, AcyclicIn, Rises, RisesIn
<1> QED
  BY <1>2, <1>3, <1>4, <1>5 DEF CInv, CIn

\* where a link of a used entry leads
LEMMA LinkFactsIn ==
  ASSUME NEW ent, NEW bkt, NEW cnt,
         TypedIn(ent, bkt, cnt), LinksIn(ent)
  PROVE  /\ \A s \in UsedIn(ent) : /\ s \in Slots /\ s # NIL /\ ent[s].used
                                   /\ ent[s].next \in Int
                                   /\ ent[s].key \in Keys \cup {NoKey}
         /\ \A s \in UsedIn(ent) : ent[s].next # NIL =>
              N + ent[s].next \in UsedIn(ent) /\ N + ent[s].next \in Collision
         /\ \A s, t \in UsedIn(ent) : ent[s].next # NIL /\ ent[t].next # NIL =>
              (N + ent[s].next = N + ent[t].next => s = t)
<1>1. \A s \in UsedIn(ent) : s \in Slots /\ ent[s] \in Entry /\ ent[s].used
  BY DEF TypedIn, UsedIn
<1>2. \A s \in UsedIn(ent) : /\ ent[s].next \in NIL..N-1 /\ ent[s].next \in Int
                             /\ ent[s].key \in Keys \cup {NoKey}
  BY <1>1, EntryFields DEF Entry
<1>3. \A s \in UsedIn(ent) : ent[s].next # NIL => N + ent[s].next \in Collision
  BY <1>2, Sizes DEF Collision, NIL
<1>4. \A s, t \in UsedIn(ent) : N + ent[s].next = N + ent[t].next =>
        ent[s].next = ent[t].next
  BY <1>2, Sizes
<1>5. \A s, t \in UsedIn(ent) : ent[s].next # NIL /\ ent[t].next # NIL =>
        (N + ent[s].next = N + ent[t].next => s = t)
  BY <1>4 DEF LinksIn
<1> QED
  BY <1>1, <1>2, <1>3, <1>5, Sizes DEF LinksIn

\* the same of the current arrays
LEMMA LinkFacts ==
  ASSUME TypeOK, LinksOwned
  PROVE  /\ \A s \in UsedSlots : /\ s \in Slots /\ s # NIL /\ entries[s].used
                                 /\ entries[s].next \in Int
                                 /\ entries[s].key \in Keys \cup {NoKey}
         /\ \A s \in UsedSlots : entries[s].next # NIL =>
              N + entries[s].next \in UsedSlots /\ N + entries[s].next \in Collision
         /\ \A s, t \in UsedSlots : entries[s].next # NIL /\ entries[t].next # NIL =>
              (N + entries[s].next = N + entries[t].next => s = t)
<1>1. TypedIn(entries, buckets, entrycount) /\ LinksIn(entries) /\ UsedSlots = UsedIn(entries)
  BY InvIsTIn
<1> QED
  BY <1>1, LinkFactsIn

\* one step of a walk along a chain
LEMMA WalkStepsIn ==
  ASSUME NEW ent, NEW bkt, NEW cnt,
         TypedIn(ent, bkt, cnt), LinksIn(ent), NEW i \in Primary, ent[i].used
  PROVE  LET w == Walk(ent, i)
         IN /\ w[0] = i /\ i \in UsedIn(ent)
            /\ \A n \in 0..N+1 : w[n] \in UsedIn(ent) \cup {NIL}
            /\ \A n \in 1..N+1 : w[n] # NIL =>
                 /\ n - 1 \in 0..N+1 /\ w[n-1] \in UsedIn(ent)
                 /\ ent[w[n-1]].next # NIL /\ w[n] = N + ent[w[n-1]].next
                 /\ w[n] \in Collision
            /\ \A n \in 0..N : w[n] \in UsedIn(ent) =>
                 w[n+1] = IF ent[w[n]].next = NIL THEN NIL ELSE N + ent[w[n]].next
<1> DEFINE w == Walk(ent, i)
<1>1. ent \in [Slots -> Entry] /\ i \in Slots /\ i \in UsedIn(ent)
  BY Sizes DEF TypedIn, UsedIn
<1>2. /\ w[0] = i
      /\ \A n \in 0..N+1 : w[n] \in Slots \cup {NIL}
      /\ \A n \in 1..N+1 : w[n] = Follow(ent, w[n-1])
  BY <1>1, WalkFollows
<1> HIDE DEF w
<1>3. \A s \in UsedIn(ent) : s # NIL
  BY LinkFactsIn
<1>4. \A n \in 0..N+1 : w[n] \in UsedIn(ent) \cup {NIL}
  <2> DEFINE T == {m \in 0..N+1 : w[m] \notin UsedIn(ent) \cup {NIL}}
  <2>1. SUFFICES ASSUME T # {} PROVE FALSE
    OBVIOUS
  <2>2. PICK m \in T : \A j \in T : m <= j
    <3>1. T \in SUBSET Nat
      BY Sizes
    <3> HIDE DEF T
    <3> QED
      BY <2>1, <3>1, LeastExists
  <2>3. m # 0
    BY <1>1, <1>2, <2>2
  <2>4. m \in 1..N+1 /\ m - 1 \in 0..N+1 /\ m - 1 \notin T
    BY <2>2, <2>3, Sizes
  <2>5. w[m-1] \in UsedIn(ent) \cup {NIL} /\ w[m] = Follow(ent, w[m-1])
    BY <1>2, <2>4
  <2>6. w[m] \in UsedIn(ent) \cup {NIL}
    BY <2>5, LinkFactsIn DEF Follow
  <2> QED
    BY <2>2, <2>6
<1>5. ASSUME NEW n \in 1..N+1, w[n] # NIL
      PROVE  /\ n - 1 \in 0..N+1 /\ w[n-1] \in UsedIn(ent)
             /\ ent[w[n-1]].next # NIL /\ w[n] = N + ent[w[n-1]].next
             /\ w[n] \in Collision
  <2>1. n - 1 \in 0..N+1
    BY Sizes
  <2>2. w[n] = Follow(ent, w[n-1]) /\ w[n-1] \in UsedIn(ent) \cup {NIL}
    BY <1>2, <1>4, <2>1
  <2>3. w[n-1] \in UsedIn(ent) /\ ent[w[n-1]].next # NIL /\ w[n] = N + ent[w[n-1]].next
    BY <1>5, <2>2 DEF Follow
  <2> QED
    BY <2>1, <2>3, LinkFactsIn
<1>6. ASSUME NEW n \in 0..N, w[n] \in UsedIn(ent)
      PROVE  w[n+1] = IF ent[w[n]].next = NIL THEN NIL ELSE N + ent[w[n]].next
  <2>1. n + 1 \in 1..N+1 /\ (n + 1) - 1 = n
    BY Sizes
  <2>2. w[n+1] = Follow(ent, w[n])
    BY <1>2, <2>1
  <2> QED
    BY <1>3, <1>6, <2>2 DEF Follow
<1> QED
  BY <1>1, <1>2, <1>4, <1>5, <1>6 DEF w

\* the same of the current arrays
LEMMA WalkSteps ==
  ASSUME TypeOK, LinksOwned, NEW i \in Primary, entries[i].used
  PROVE  LET w == Walk(entries, i)
         IN /\ w[0] = i /\ i \in UsedSlots
            /\ \A n \in 0..N+1 : w[n] \in UsedSlots \cup {NIL}
            /\ \A n \in 1..N+1 : w[n] # NIL =>
                 /\ n - 1 \in 0..N+1 /\ w[n-1] \in UsedSlots
                 /\ entries[w[n-1]].next # NIL /\ w[n] = N + entries[w[n-1]].next
                 /\ w[n] \in Collision
            /\ \A n \in 0..N : w[n] \in UsedSlots =>
                 w[n+1] = IF entries[w[n]].next = NIL THEN NIL ELSE N + entries[w[n]].next
<1>1. TypedIn(entries, buckets, entrycount) /\ LinksIn(entries) /\ UsedSlots = UsedIn(entries)
  BY InvIsTIn
<1> QED
  BY <1>1, WalkStepsIn

\* all entries of a chain have keys of the index it begins at
LEMMA WalkKeepsIndexIn ==
  ASSUME NEW ent, NEW bkt, NEW cnt,
         TypedIn(ent, bkt, cnt), LinksIn(ent), HeadsIn(ent), KeepIn(ent),
         NEW i \in Primary, ent[i].used
  PROVE  \A n \in 0..N+1 : Walk(ent, i)[n] # NIL =>
           Index[ent[Walk(ent, i)[n]].key] = i
<1> DEFINE w == Walk(ent, i)
           T == {n \in 0..N+1 : w[n] # NIL /\ Index[ent[w[n]].key] # i}
<1>1. /\ w[0] = i /\ i \in UsedIn(ent)
      /\ \A n \in 1..N+1 : w[n] # NIL =>
           /\ n - 1 \in 0..N+1 /\ w[n-1] \in UsedIn(ent)
           /\ ent[w[n-1]].next # NIL /\ w[n] = N + ent[w[n-1]].next
  BY WalkStepsIn
<1> HIDE DEF w
<1>2. SUFFICES ASSUME T # {} PROVE FALSE
  BY DEF w
<1>3. PICK n \in T : \A m \in T : n <= m
  <2>1. T \in SUBSET Nat
    BY Sizes
  <2> HIDE DEF T
  <2> QED
    BY <1>2, <2>1, LeastExists
<1>4. n # 0
  BY <1>1, <1>3 DEF HeadsIn
<1>5. n \in 1..N+1 /\ w[n] # NIL
  BY <1>3, <1>4, Sizes
<1>6. n - 1 \notin T
  BY <1>3, <1>5, Sizes
<1>7. w[n-1] \in UsedIn(ent) /\ w[n-1] # NIL /\ n - 1 \in 0..N+1
  BY <1>1, <1>5, LinkFactsIn
<1>8. Index[ent[w[n-1]].key] = i
  BY <1>6, <1>7
<1>9. Index[ent[w[n]].key] = Index[ent[w[n-1]].key]
  BY <1>1, <1>5, <1>7 DEF KeepIn
<1> QED
  BY <1>3, <1>8, <1>9

\* the same of the current arrays
LEMMA WalkKeepsIndex ==
  ASSUME TypeOK, LinksOwned, HeadsAtHome, LinksKeepIndex, NEW i \in Primary, entries[i].used
  PROVE  \A n \in 0..N+1 : Walk(entries, i)[n] # NIL =>
           Index[entries[Walk(entries, i)[n]].key] = i
<1>1. TypedIn(entries, buckets, entrycount) /\ LinksIn(entries)
  BY InvIsTIn
<1>2. HeadsIn(entries) /\ KeepIn(entries)
  BY InvIsCIn
<1> QED
  BY <1>1, <1>2, WalkKeepsIndexIn

\* A step that adds an entry keeps the chains: it is the head of a new one,
\* or comes after the last of the chain of its index.
LEMMA GrowChains ==
  ASSUME TInv, CInv, NEW k \in Keys, NEW x \in Slots, NEW l \in Slots \cup {NIL},
         NEW b \in Primary, NEW v \in Nat,
         Grows(entries', x, l, b), GrowsInChain(entries', x, l, k, v)
  PROVE  CInv'
<1>1. TypeOK /\ LinksOwned /\ HeadsAtHome /\ LinksKeepIndex /\ AllLinked /\ Acyclic
  BY DEF TInv, CInv
<1>2. x \notin UsedSlots /\ UsedSlots' = UsedSlots \cup {x}
  BY DEF Grows, UsedSlots
<1>3. /\ entries'[x].next = NIL /\ entries'[x].key = k
      /\ \A t \in UsedSlots : entries'[t].key = entries[t].key
      /\ \A t \in UsedSlots : t # l => entries'[t].next = entries[t].next
      /\ l \in UsedSlots => N + entries'[l].next = x /\ entries[l].next = NIL
  <2>1. x \in Primary \/ x \in Collision
    BY Sizes
  <2>2. NIL \notin UsedSlots
    BY Sizes DEF UsedSlots
  <2> QED
    BY <2>1, <2>2 DEF Grows, GrowsInChain
<1>4. /\ x \in Primary => x = Index[k] /\ l \notin UsedSlots
      /\ x \in Collision => l \in UsedSlots /\ Index[entries[l].key] = Index[k]
  <2>1. Index[k] \in Primary
    BY TableAssumption DEF Primary
  <2>2. ASSUME x \in Collision
        PROVE  Index[entries[l].key] = Index[k]
    <3>1. l = LastOf(entries, Index[k]) /\ entries[Index[k]].used
          /\ l \in UsedSlots
      BY <2>2 DEF GrowsInChain, UsedSlots
    <3>2. PICK n \in 0..N+1 : l = Walk(entries, Index[k])[n]
      BY <1>1, <2>1, <3>1, ChainEnds
    <3>3. l # NIL
      BY <1>1, <3>1, LinkFacts
    <3> QED
      BY <1>1, <2>1, <3>1, <3>2, <3>3, WalkKeepsIndex
  <2>3. NIL \notin UsedSlots
    BY Sizes DEF UsedSlots
  <2> QED
    BY <2>2, <2>3 DEF GrowsInChain
<1>5. \A t \in UsedSlots : t # x /\ t \in Slots
  BY <1>2 DEF UsedSlots
<1>6. \A t \in UsedSlots : entries[t].next # NIL => N + entries[t].next \in UsedSlots
  BY <1>1, LinkFacts
<1>7. HeadsAtHome'
  <2>1. SUFFICES ASSUME NEW s \in UsedSlots', s \in Primary
                 PROVE  Index[entries'[s].key] = s
    BY DEF HeadsAtHome
  <2>2. CASE s = x
    BY <1>3, <1>4, <2>1, <2>2
  <2>3. CASE s \in UsedSlots
    BY <1>1, <1>3, <2>1, <2>3 DEF HeadsAtHome
  <2> QED
    BY <1>2, <2>2, <2>3
<1>8. LinksKeepIndex'
  <2>1. SUFFICES ASSUME NEW s \in UsedSlots', entries'[s].next # NIL
                 PROVE  Index[entries'[N + entries'[s].next].key] = Index[entries'[s].key]
    BY DEF LinksKeepIndex
  <2>2. s \in UsedSlots
    BY <1>2, <1>3, <2>1
  <2>3. CASE s = l
    <3>1. x \in Collision
      BY <1>4, <2>2, <2>3, Sizes
    <3>2. N + entries'[s].next = x /\ entries'[s].key = entries[s].key
      BY <1>3, <2>2, <2>3
    <3> QED
      BY <1>3, <1>4, <2>3, <3>1, <3>2
  <2>4. CASE s # l
    <3>1. entries'[s].next = entries[s].next /\ N + entries[s].next \in UsedSlots
      BY <1>3, <1>6, <2>1, <2>2, <2>4
    <3>2. Index[entries[N + entries[s].next].key] = Index[entries[s].key]
      BY <1>1, <2>1, <2>2, <3>1 DEF LinksKeepIndex
    <3> QED
      BY <1>3, <2>2, <3>1, <3>2
  <2> QED
    BY <2>3, <2>4
<1>n. l \in UsedSlots => entries'[l].next # NIL
  <2>1. N + NIL \notin Collision
    BY Sizes DEF Collision, NIL
  <2> QED
    BY <1>3, <1>4, <2>1, Sizes
<1>9. AllLinked'
  <2>1. SUFFICES ASSUME NEW s \in UsedSlots', s \in Collision
                 PROVE  \E q \in UsedSlots' : entries'[q].next # NIL /\ N + entries'[q].next = s
    BY DEF AllLinked
  <2>2. CASE s = x
    BY <1>2, <1>3, <1>4, <1>n, <2>1, <2>2
  <2>3. CASE s \in UsedSlots
    <3>1. PICK q \in UsedSlots : entries[q].next # NIL /\ N + entries[q].next = s
      BY <1>1, <2>1, <2>3 DEF AllLinked
    <3>2. q # l
      BY <1>3, <3>1
    <3> QED
      BY <1>2, <1>3, <3>1, <3>2
  <2> QED
    BY <1>2, <2>2, <2>3
<1>10. Acyclic'
  <2>1. PICK rank \in [Slots -> Nat] : Rises(rank)
    BY <1>1 DEF Acyclic
  <2>2. \A s \in UsedSlots : rank[s] \in Nat
    BY <1>5
  <2>3. PICK new \in [Slots -> Nat] :
          /\ \A s \in UsedSlots : new[s] = rank[s]
          /\ l \in UsedSlots => new[x] = rank[l] + 1
    <3> DEFINE r == [s \in Slots |-> IF s = x /\ l \in UsedSlots THEN rank[l] + 1 ELSE rank[s]]
    <3>1. r \in [Slots -> Nat]
      BY <2>2
    <3>2. /\ \A s \in UsedSlots : r[s] = rank[s]
          /\ l \in UsedSlots => r[x] = rank[l] + 1
      BY <1>5
    <3> QED
      BY <3>1, <3>2
  <2>5. ASSUME NEW s \in UsedSlots', entries'[s].next # NIL
        PROVE  new[s] < new[N + entries'[s].next]
    <3>1. s \in UsedSlots
      BY <1>2, <1>3, <2>5
    <3>2. CASE s = l
      <4>1. N + entries'[s].next = x /\ new[s] = rank[l] /\ new[x] = rank[l] + 1
            /\ rank[l] \in Nat
        BY <1>3, <2>2, <2>3, <3>1, <3>2
      <4>2. new[s] < new[x]
        BY <4>1
      <4> QED
        BY <4>1, <4>2
    <3>3. CASE s # l
      <4>1. entries'[s].next = entries[s].next /\ N + entries[s].next \in UsedSlots
        BY <1>3, <1>6, <2>5, <3>1, <3>3
      <4>2. rank[s] < rank[N + entries[s].next]
        BY <2>1, <2>5, <3>1, <4>1 DEF Rises
      <4> QED
        BY <2>3, <3>1, <4>1, <4>2
    <3> QED
      BY <3>2, <3>3
  <2>6. Rises(new)'
    BY <2>5 DEF Rises
  <2> QED
    BY <2>6 DEF Acyclic
<1> QED
  BY <1>7, <1>8, <1>9, <1>10 DEF CInv

\* A step that frees an entry keeps the chains: what led to it leads on.
LEMMA FreeChains ==
  ASSUME NEW ent, NEW bkt, NEW cnt, NEW ent1,
         TIn(ent, bkt, cnt), CIn(ent), NEW s \in UsedIn(ent), NEW g \in Slots,
         FreesIn(ent, ent1, s, g), FreesChainIn(ent, ent1, s, g)
  PROVE  CIn(ent1)
<1>1. /\ TypedIn(ent, bkt, cnt) /\ LinksIn(ent)
      /\ HeadsIn(ent) /\ KeepIn(ent) /\ LinkedIn(ent) /\ AcyclicIn(ent)
  BY DEF TIn, CIn
<1>2. g \in UsedIn(ent) /\ UsedIn(ent1) = UsedIn(ent) \ {g}
  BY DEF FreesIn, UsedIn
<1>3. \A t \in UsedIn(ent) \ {g} :
        /\ ent1[t].key = IF t = s THEN ent[g].key ELSE ent[t].key
        /\ ent1[t].next = IF ent[t].next # NIL /\ N + ent[t].next = g
                          THEN ent[g].next ELSE ent[t].next
  BY DEF FreesIn, FreesChainIn
<1>4. /\ g # s => ent[s].next # NIL /\ N + ent[s].next = g
      /\ g \in Collision \/ ent[g].next = NIL
  BY DEF FreesChainIn
<1>5. /\ \A t \in UsedIn(ent) : ent[t].next # NIL => N + ent[t].next \in UsedIn(ent)
      /\ \A t, u \in UsedIn(ent) : ent[t].next # NIL /\ ent[u].next # NIL =>
           (N + ent[t].next = N + ent[u].next => t = u)
  BY <1>1, LinkFactsIn
<1>6. \A t \in UsedIn(ent) : Index[ent[t].key] =
                           IF ent[t].next = NIL THEN Index[ent[t].key]
                           ELSE Index[ent[N + ent[t].next].key]
  BY <1>1 DEF KeepIn
<1>7. \A t \in UsedIn(ent) \ {g} : Index[ent1[t].key] = Index[ent[t].key]
  <2>1. TAKE t \in UsedIn(ent) \ {g}
  <2>2. CASE t = s
    <3>1. ent[s].next # NIL /\ N + ent[s].next = g /\ ent1[t].key = ent[g].key
      BY <1>3, <1>4, <2>1, <2>2
    <3>2. Index[ent[g].key] = Index[ent[s].key]
      BY <1>1, <3>1 DEF KeepIn
    <3> QED
      BY <2>2, <3>1, <3>2
  <2>3. CASE t # s
    BY <1>3, <2>1, <2>3
  <2> QED
    BY <2>2, <2>3
<1>8. HeadsIn(ent1)
  BY <1>1, <1>2, <1>7 DEF HeadsIn
\* the link of a used entry afterwards: its own of before, or that of g
<1>9. ASSUME NEW t \in UsedIn(ent) \ {g}, ent1[t].next # NIL
      PROVE  LET u == N + ent1[t].next
             IN /\ u \in UsedIn(ent) \ {g} /\ ent[t].next # NIL
                /\ \/ u = N + ent[t].next
                   \/ /\ N + ent[t].next = g
                      /\ ent[g].next # NIL /\ u = N + ent[g].next
  <2>1. CASE ent[t].next # NIL /\ N + ent[t].next = g
    <3>1. ent1[t].next = ent[g].next
      BY <1>3, <1>9, <2>1
    <3>2. N + ent[g].next # g
      BY <1>2, <1>5, <1>9, <2>1, <3>1
    <3> QED
      BY <1>2, <1>5, <1>9, <2>1, <3>1, <3>2
  <2>2. CASE ~(ent[t].next # NIL /\ N + ent[t].next = g)
    <3>1. ent1[t].next = ent[t].next
      BY <1>3, <1>9, <2>2
    <3> QED
      BY <1>5, <1>9, <2>2, <3>1
  <2> QED
    BY <2>1, <2>2
<1>10. KeepIn(ent1)
  <2>1. SUFFICES ASSUME NEW t \in UsedIn(ent) \ {g}, ent1[t].next # NIL
                 PROVE  Index[ent1[N + ent1[t].next].key] = Index[ent1[t].key]
    BY <1>2 DEF KeepIn
  <2> DEFINE u == N + ent1[t].next
  <2>2. /\ u \in UsedIn(ent) \ {g} /\ ent[t].next # NIL
        /\ \/ u = N + ent[t].next
           \/ N + ent[t].next = g /\ ent[g].next # NIL /\ u = N + ent[g].next
    BY <1>9, <2>1
  <2> HIDE DEF u
  <2>3. Index[ent[u].key] = Index[ent[t].key]
    <3>1. CASE u = N + ent[t].next
      BY <1>1, <2>1, <2>2, <3>1 DEF KeepIn
    <3>2. CASE N + ent[t].next = g /\ ent[g].next # NIL /\ u = N + ent[g].next
      BY <1>1, <1>2, <2>1, <2>2, <3>2 DEF KeepIn
    <3> QED
      BY <2>2, <3>1, <3>2
  <2>4. Index[ent1[u].key] = Index[ent1[t].key]
    BY <1>7, <2>1, <2>2, <2>3
  <2> QED
    BY <2>4 DEF u
<1>11. LinkedIn(ent1)
  <2>1. SUFFICES ASSUME NEW t \in UsedIn(ent) \ {g}, t \in Collision
                 PROVE  \E q \in UsedIn(ent) \ {g} :
                          ent1[q].next # NIL /\ N + ent1[q].next = t
    BY <1>2 DEF LinkedIn
  <2>2. PICK q \in UsedIn(ent) : ent[q].next # NIL /\ N + ent[q].next = t
    BY <1>1, <2>1 DEF LinkedIn
  <2>3. CASE q # g
    <3>1. ent1[q].next = ent[q].next
      BY <1>3, <2>1, <2>2, <2>3
    <3> QED
      BY <2>2, <2>3, <3>1
  <2>4. CASE q = g
    <3>1. PICK p \in UsedIn(ent) : ent[p].next # NIL /\ N + ent[p].next = g
      BY <1>1, <1>2, <1>4, <2>2, <2>4 DEF LinkedIn
    <3>2. p # g
      BY <2>1, <2>2, <2>4, <3>1
    <3>3. ent1[p].next = ent[g].next
      BY <1>3, <3>1, <3>2
    <3> QED
      BY <2>2, <2>4, <3>1, <3>2, <3>3
  <2> QED
    BY <2>3, <2>4
<1>12. AcyclicIn(ent1)
  <2>1. PICK rank \in [Slots -> Nat] : RisesIn(ent, rank)
    BY <1>1 DEF AcyclicIn
  <2>2. \A t \in UsedIn(ent) : rank[t] \in Nat
    BY DEF UsedIn
  <2>3. ASSUME NEW t \in UsedIn(ent) \ {g}, ent1[t].next # NIL
        PROVE  rank[t] < rank[N + ent1[t].next]
    <3> DEFINE u == N + ent1[t].next
    <3>1. /\ u \in UsedIn(ent) \ {g} /\ ent[t].next # NIL
          /\ \/ u = N + ent[t].next
             \/ N + ent[t].next = g /\ ent[g].next # NIL /\ u = N + ent[g].next
      BY <1>9, <2>3
    <3> HIDE DEF u
    <3>2. rank[t] < rank[N + ent[t].next]
      BY <2>1, <2>3, <3>1 DEF RisesIn
    <3>3. ent[g].next # NIL => rank[g] < rank[N + ent[g].next]
      BY <1>2, <2>1 DEF RisesIn
    <3>4. rank[t] \in Nat /\ rank[g] \in Nat /\ rank[u] \in Nat
      BY <1>2, <2>2, <2>3, <3>1
    <3>5. rank[t] < rank[u]
      <4>1. CASE u = N + ent[t].next
        BY <3>2, <4>1
      <4>2. CASE N + ent[t].next = g /\ ent[g].next # NIL /\ u = N + ent[g].next
        <5>1. rank[t] < rank[g] /\ rank[g] < rank[u]
          BY <3>2, <3>3, <4>2
        <5> QED
          BY <3>4, <5>1
      <4> QED
        BY <3>1, <4>1, <4>2
    <3> QED
      BY <3>5 DEF u
  <2>4. RisesIn(ent1, rank)
    BY <1>2, <2>3 DEF RisesIn
  <2> QED
    BY <2>1, <2>4 DEF AcyclicIn
<1> QED
  BY <1>8, <1>10, <1>11, <1>12 DEF CIn

LEMMA ChainsUntouched ==
  ASSUME CInv, entries' = entries
  PROVE  CInv'
BY DEF CInv, HeadsAtHome, LinksKeepIndex, AllLinked, Acyclic, Rises, UsedSlots

LEMMA FlushChains ==
  ASSUME entries \in [Slots -> Entry], Flush
  PROVE  CInv'
<1>1. UsedSlots' = {}
  <2>1. \A s \in Slots : ~entries'[s].used
    BY OffEntry DEF Flush, Off
  <2> QED
    BY <2>1 DEF UsedSlots
<1>2. [s \in Slots |-> 0] \in [Slots -> Nat]
  OBVIOUS
<1> QED
  BY <1>1, <1>2 DEF CInv, HeadsAtHome, LinksKeepIndex, AllLinked, Acyclic, Rises

LEMMA NextChains ==
  TInv /\ CInv /\ [Next]_vars => CInv'
<1> SUFFICES ASSUME TInv, CInv, [Next]_vars PROVE CInv'
  OBVIOUS
<1>1. TypeOK /\ BucketsOwned /\ CountExact /\ LinksOwned
  BY DEF TInv
<1>2. ASSUME NEW k \in Keys, NEW v \in Values, Insert(k, v)
      PROVE  CInv'
  <2> DEFINE b == Lowest(FreeBuckets)
  <2>1. entrycount < N /\ FreeBuckets # {} /\ entries' = Link(k, v, b)
    BY <1>2 DEF Insert
  <2>2. FreeCollisions # {} /\ v \in Nat
    BY <1>1, <2>1, Room, TableAssumption DEF RoomForInsert
  <2>3. b \in Primary
    <3>1. FreeBuckets \in SUBSET Nat
      BY Sizes DEF FreeBuckets, Primary
    <3>2. \E j \in FreeBuckets : \A m \in FreeBuckets : j <= m
      BY <2>1, <3>1, LeastExists
    <3> QED
      BY <3>2 DEF Lowest, FreeBuckets
  <2> HIDE DEF b
  <2>4. PICK x \in Slots, l \in Slots \cup {NIL} :
          Grows(entries', x, l, b) /\ GrowsInChain(entries', x, l, k, v)
    BY <1>1, <2>1, <2>2, <2>3, LinkAdds
  <2> QED
    BY <2>2, <2>3, <2>4, GrowChains
<1>3. ASSUME NEW k \in Keys, Remove(k)
      PROVE  CInv'
  <2>1. entries' = RemoveFrom(Segment, k).entries
    BY <1>3 DEF Remove
  <2>2. CASE Matches(entries, k) = {}
    <3>1. entries' = entries
      BY <2>1, <2>2 DEF RemoveFrom, Segment
    <3> QED
      BY <3>1, ChainsUntouched
  <2>3. CASE Matches(entries, k) # {}
    <3>1. entries' = Unlink(entries, k)
      BY <2>1, <2>3 DEF RemoveFrom, Segment
    <3>2. TIn(entries, buckets, entrycount) /\ CIn(entries)
      BY InvIsTIn, InvIsCIn
    <3>3. TypedIn(entries, buckets, entrycount) /\ LinksIn(entries)
      BY <3>2 DEF TIn
    <3>4. PICK g \in Slots : /\ FreesIn(entries, entries', Found(entries, k), g)
                             /\ FreesChainIn(entries, entries', Found(entries, k), g)
      BY <2>3, <3>1, <3>3, UnlinkFrees
    <3>5. Found(entries, k) \in UsedIn(entries)
      BY <2>3, <3>3, FoundFacts
    <3>6. CIn(entries')
      BY <3>2, <3>4, <3>5, FreeChains
    <3> QED
      BY <3>6, InvIsCInNext
  <2> QED
    BY <2>2, <2>3
<1>4. CASE Flush
  BY <1>1, <1>4, FlushChains DEF TypeOK
<1>5. CASE Tick \/ Count \/ UNCHANGED vars
  BY <1>5, ChainsUntouched DEF Tick, Count, vars
<1>6. ASSUME NEW k \in Keys, Search(k)
      PROVE  CInv'
  BY <1>6, ChainsUntouched DEF Search
<1>7. ASSUME NEW k \in Keys, NEW v \in Values, InsertRefused(k, v)
      PROVE  CInv'
  BY <1>7, ChainsUntouched DEF InsertRefused
<1> QED
  BY <1>2, <1>3, <1>4, <1>5, <1>6, <1>7 DEF Next

LEMMA StartsWithChains ==
  Init => CInv
<1> SUFFICES ASSUME Init PROVE CInv
  OBVIOUS
<1>1. UsedSlots = {}
  BY Sizes DEF Init, UsedSlots, EmptyEntry
<1>2. [s \in Slots |-> 0] \in [Slots -> Nat]
  OBVIOUS
<1> QED
  BY <1>1, <1>2 DEF CInv, HeadsAtHome, LinksKeepIndex, AllLinked, Acyclic, Rises

LEMMA ChainsAlways ==
  Spec => [](TInv /\ CInv)
<1>1. TInv /\ CInv /\ [Next]_vars => TInv' /\ CInv'
  BY NextInv, NextChains
<1> QED
  BY <1>1, InitInv, StartsWithChains, PTL DEF Spec

\* a chain has no more than N entries, for there are no more in use
LEMMA WalkEndsIn ==
  ASSUME NEW ent, NEW bkt, NEW cnt,
         TIn(ent, bkt, cnt), CIn(ent), NEW i \in Primary, ent[i].used
  PROVE  Walk(ent, i)[N] = NIL
<1> DEFINE w == Walk(ent, i)
           D == 0..N
<1>1. TypedIn(ent, bkt, cnt) /\ LinksIn(ent) /\ ExactIn(ent, cnt)
  BY DEF TIn
<1>2. /\ \A n \in 0..N+1 : w[n] \in UsedIn(ent) \cup {NIL}
      /\ \A n \in 1..N+1 : w[n] # NIL =>
           /\ n - 1 \in 0..N+1 /\ w[n-1] \in UsedIn(ent)
           /\ ent[w[n-1]].next # NIL /\ w[n] = N + ent[w[n-1]].next
  BY <1>1, WalkStepsIn
<1> HIDE DEF w
<1>3. SUFFICES ASSUME w[N] # NIL PROVE FALSE
  BY DEF w
<1>4. \A n \in 0..N : w[n] \in UsedIn(ent)
  <2> DEFINE T == {d \in Nat : d <= N /\ w[N - d] = NIL}
  <2>1. SUFFICES ASSUME NEW n \in 0..N, w[n] = NIL PROVE FALSE
    BY <1>2, Sizes
  <2>2. T \in SUBSET Nat /\ T # {}
    <3>1. N - n \in Nat /\ N - n <= N /\ N - (N - n) = n
      BY <2>1, Sizes
    <3> QED
      BY <2>1, <3>1
  <2>3. PICK d \in T : \A c \in T : d <= c
    <3> HIDE DEF T
    <3> QED
      BY <2>2, LeastExists
  <2>4. d \in Nat /\ d <= N /\ w[N - d] = NIL
    BY <2>3
  <2>5. d # 0
    BY <1>3, <2>4, Sizes
  <2>6. d - 1 \in Nat /\ d - 1 <= N /\ d - 1 \notin T
    BY <2>3, <2>4, <2>5, Sizes
  <2>7. w[N - (d - 1)] # NIL
    BY <2>6
  <2>8. N - (d - 1) \in 1..N+1 /\ (N - (d - 1)) - 1 = N - d
    BY <2>4, <2>5, Sizes
  <2>9. w[N - d] \in UsedIn(ent)
    BY <1>2, <2>7, <2>8
  <2> QED
    BY <1>1, <2>4, <2>9, LinkFactsIn
<1>5. PICK rank \in [Slots -> Nat] : RisesIn(ent, rank)
  BY DEF CIn, AcyclicIn
<1>6. \A n \in 0..N : rank[w[n]] \in Nat
  BY <1>1, <1>4, LinkFactsIn
<1>7. \A n \in 1..N : rank[w[n-1]] < rank[w[n]]
  <2>1. TAKE n \in 1..N
  <2>2. n \in 1..N+1 /\ n \in 0..N
    BY Sizes
  <2>3. w[n] # NIL
    BY <1>1, <1>4, <2>2, LinkFactsIn
  <2> QED
    BY <1>2, <1>5, <2>2, <2>3 DEF RisesIn
\* so the ranks rise, and its slots are distinct
<1>8. \A m \in 0..N : \A n \in 0..N : m < n => rank[w[m]] < rank[w[n]]
  <2>1. TAKE m \in 0..N
  <2> DEFINE T == {n \in 0..N : m < n /\ ~(rank[w[m]] < rank[w[n]])}
  <2>2. SUFFICES ASSUME T # {} PROVE FALSE
    OBVIOUS
  <2>3. PICK n \in T : \A c \in T : n <= c
    <3>1. T \in SUBSET Nat
      BY Sizes
    <3> HIDE DEF T
    <3> QED
      BY <2>2, <3>1, LeastExists
  <2>4. n \in 0..N /\ m < n /\ ~(rank[w[m]] < rank[w[n]])
    BY <2>3
  <2>5. n - 1 \in 0..N /\ n \in 1..N /\ n - 1 \notin T
    BY <2>1, <2>3, <2>4, Sizes
  <2>6. rank[w[n-1]] < rank[w[n]]
    BY <1>7, <2>5
  <2>7. /\ rank[w[m]] \in Nat /\ rank[w[n]] \in Nat /\ rank[w[n-1]] \in Nat
    BY <1>6, <2>1, <2>4, <2>5
  <2>8. m = n - 1 \/ m < n - 1
    BY <2>1, <2>4, <2>5, Sizes
  <2>9. CASE m = n - 1
    BY <2>4, <2>6, <2>9
  <2>10. CASE m < n - 1
    <3>1. rank[w[m]] < rank[w[n-1]]
      BY <2>5, <2>10
    <3> QED
      BY <2>4, <2>6, <2>7, <3>1
  <2> QED
    BY <2>8, <2>9, <2>10
<1> DEFINE v == [n \in D |-> w[n]]
<1>9. v \in [D -> UsedIn(ent)]
  BY <1>4
<1>10. /\ IsFiniteSet(D) /\ IsFiniteSet(UsedIn(ent))
       /\ Cardinality(UsedIn(ent)) < Cardinality(D)
  <2>1. IsFiniteSet(D) /\ Cardinality(D) = N + 1
    BY FS_Interval, Sizes
  <2>2. UsedIn(ent) \in SUBSET Slots
    BY DEF UsedIn
  <2>3. IsFiniteSet(UsedIn(ent))
    BY <2>2, FS_Subset, Sizes
  <2>4. Cardinality(UsedIn(ent)) \in 0..N
    BY <1>1 DEF ExactIn, TypedIn
  <2> HIDE DEF D
  <2> QED
    BY <2>1, <2>3, <2>4, Sizes
<1>11. \E x, y \in D : x # y /\ v[x] = v[y]
  <2> HIDE DEF v, D
  <2> QED
    BY <1>9, <1>10, FS_PigeonHole
<1>12. PICK x \in 0..N, y \in 0..N : x # y /\ w[x] = w[y]
  BY <1>11
<1>13. x < y \/ y < x
  BY <1>12, Sizes
<1>14. rank[w[x]] < rank[w[y]] \/ rank[w[y]] < rank[w[x]]
  BY <1>8, <1>13
<1> QED
  BY <1>6, <1>12, <1>14

\* the same of the current arrays
LEMMA WalkEnds ==
  ASSUME TInv, CInv, NEW i \in Primary, entries[i].used
  PROVE  Walk(entries, i)[N] = NIL
<1>1. TIn(entries, buckets, entrycount) /\ UsedSlots = UsedIn(entries)
  BY InvIsTIn
<1>2. CIn(entries)
  BY InvIsCIn
<1> QED
  BY <1>1, <1>2, WalkEndsIn

\* every used entry is on the chain of its index
LEMMA OnItsChainIn ==
  ASSUME NEW ent, NEW bkt, NEW cnt,
         TIn(ent, bkt, cnt), CIn(ent), NEW s \in UsedIn(ent)
  PROVE  \E i \in Primary, n \in 0..N+1 : ent[i].used /\ Walk(ent, i)[n] = s
<1> DEFINE On(t) == \E i \in Primary, n \in 0..N+1 : ent[i].used /\ Walk(ent, i)[n] = t
<1>1. TypedIn(ent, bkt, cnt) /\ LinksIn(ent) /\ LinkedIn(ent)
  BY DEF TIn, CIn
<1>2. PICK rank \in [Slots -> Nat] : RisesIn(ent, rank)
  BY DEF CIn, AcyclicIn
<1>3. \A t \in UsedIn(ent) : t \in Slots /\ t # NIL /\ rank[t] \in Nat
  BY <1>1, LinkFactsIn
<1> DEFINE T == {rank[t] : t \in {u \in UsedIn(ent) : ~On(u)}}
<1>4. SUFFICES ASSUME ~On(s) PROVE FALSE
  OBVIOUS
<1>5. T \in SUBSET Nat /\ T # {}
  BY <1>3, <1>4
<1>6. PICK r \in T : \A c \in T : r <= c
  <2> HIDE DEF T
  <2> QED
    BY <1>5, LeastExists
<1>7. PICK t \in UsedIn(ent) : rank[t] = r /\ ~On(t)
  BY <1>6
<1>8. CASE t \in Primary
  <2>1. ent[t].used /\ 0 \in 0..N+1
    BY <1>7, Sizes DEF UsedIn
  <2>2. Walk(ent, t)[0] = t
    BY <1>1, <1>8, <2>1, WalkStepsIn
  <2> QED
    BY <1>7, <1>8, <2>1, <2>2
<1>9. CASE t \in Collision
  <2>1. PICK q \in UsedIn(ent) : ent[q].next # NIL /\ N + ent[q].next = t
    BY <1>1, <1>7, <1>9 DEF LinkedIn
  <2>2. rank[q] < rank[t]
    BY <1>2, <2>1 DEF RisesIn
  <2>3. On(q)
    <3>1. SUFFICES ASSUME ~On(q) PROVE FALSE
      OBVIOUS
    <3>2. rank[q] \in T
      BY <2>1, <3>1
    <3> HIDE DEF T
    <3>3. r <= rank[q] /\ rank[q] \in Nat /\ rank[t] \in Nat
      BY <1>3, <1>6, <1>7, <2>1, <3>2
    <3> QED
      BY <1>7, <2>2, <3>3
  <2>4. PICK i \in Primary, n \in 0..N+1 : ent[i].used /\ Walk(ent, i)[n] = q
    BY <2>3
  <2> DEFINE w == Walk(ent, i)
  <2>5. /\ \A m \in 1..N+1 : w[m] # NIL => m - 1 \in 0..N+1 /\ w[m-1] \in UsedIn(ent)
        /\ \A m \in 0..N : w[m] \in UsedIn(ent) =>
             w[m+1] = IF ent[w[m]].next = NIL THEN NIL ELSE N + ent[w[m]].next
    BY <1>1, <2>4, WalkStepsIn
  <2>6. w[N] = NIL
    BY <2>4, WalkEndsIn
  <2> HIDE DEF w
  <2>7. w[n] = q /\ q # NIL
    BY <1>3, <2>1, <2>4 DEF w
  <2>8. n \in 0..N
    <3>1. SUFFICES ASSUME n = N + 1 PROVE FALSE
      BY <2>4, Sizes
    <3>2. n \in 1..N+1 /\ n - 1 = N
      BY <3>1, Sizes
    <3>3. w[N] \in UsedIn(ent)
      BY <2>5, <2>7, <3>2
    <3> QED
      BY <1>3, <2>6, <3>3
  <2>9. w[n+1] = t /\ n + 1 \in 0..N+1
    BY <2>1, <2>5, <2>7, <2>8, Sizes
  <2> QED
    BY <1>7, <2>4, <2>9 DEF w
<1> QED
  BY <1>3, <1>8, <1>9, Sizes

\* the same of the current arrays
LEMMA OnItsChain ==
  ASSUME TInv, CInv, NEW s \in UsedSlots
  PROVE  \E i \in Primary, n \in 0..N+1 : entries[i].used /\ Walk(entries, i)[n] = s
<1>1. TIn(entries, buckets, entrycount) /\ UsedSlots = UsedIn(entries)
  BY InvIsTIn
<1>2. CIn(entries)
  BY InvIsCIn
<1> QED
  BY <1>1, <1>2, OnItsChainIn

\* and only once on one chain
LEMMA OnceOnChainsIn ==
  ASSUME NEW ent, NEW bkt, NEW cnt,
         TIn(ent, bkt, cnt), CIn(ent),
         NEW i \in Primary, NEW j \in Primary, ent[i].used, ent[j].used,
         NEW n \in 0..N+1, NEW m \in 0..N+1,
         Walk(ent, i)[n] = Walk(ent, j)[m], Walk(ent, i)[n] # NIL
  PROVE  i = j /\ n = m
<1> DEFINE w == Walk(ent, i)
           v == Walk(ent, j)
           Meet(c, d) == w[c] = v[d] /\ w[c] # NIL
           T == {c \in 0..N+1 : \E d \in 0..N+1 : Meet(c, d) /\ ~(i = j /\ c = d)}
<1>1. TypedIn(ent, bkt, cnt) /\ LinksIn(ent)
  BY DEF TIn
<1>2. /\ w[0] = i
      /\ \A c \in 1..N+1 : w[c] # NIL =>
           /\ c - 1 \in 0..N+1 /\ w[c-1] \in UsedIn(ent)
           /\ ent[w[c-1]].next # NIL /\ w[c] = N + ent[w[c-1]].next
           /\ w[c] \in Collision
  BY <1>1, WalkStepsIn
<1>3. /\ v[0] = j
      /\ \A c \in 1..N+1 : v[c] # NIL =>
           /\ c - 1 \in 0..N+1 /\ v[c-1] \in UsedIn(ent)
           /\ ent[v[c-1]].next # NIL /\ v[c] = N + ent[v[c-1]].next
           /\ v[c] \in Collision
  BY <1>1, WalkStepsIn
<1>4. SUFFICES ASSUME T # {} PROVE FALSE
  OBVIOUS
<1> HIDE DEF w, v
<1>5. PICK c \in T : \A e \in T : c <= e
  <2>1. T \in SUBSET Nat
    BY Sizes
  <2> HIDE DEF T
  <2> QED
    BY <1>4, <2>1, LeastExists
<1>6. PICK d \in 0..N+1 : Meet(c, d) /\ ~(i = j /\ c = d)
  BY <1>5
<1>7. c \in 0..N+1 /\ w[c] = v[d] /\ w[c] # NIL
  BY <1>5, <1>6
<1>8. c # 0 /\ d # 0
  <2>1. i \notin Collision /\ j \notin Collision
    BY Sizes
  <2>2. CASE c = 0
    <3>1. v[d] = i
      BY <1>2, <1>7, <2>2
    <3>2. d = 0
      BY <1>3, <1>6, <1>7, <2>1, <3>1, Sizes
    <3> QED
      BY <1>3, <1>6, <2>2, <3>1, <3>2
  <2>3. CASE d = 0 /\ c # 0
    <3>1. c \in 1..N+1 /\ w[c] = j
      BY <1>3, <1>7, <2>3, Sizes
    <3> QED
      BY <1>2, <1>7, <2>1, <3>1
  <2> QED
    BY <2>2, <2>3
<1>9. c \in 1..N+1 /\ d \in 1..N+1
  BY <1>6, <1>7, <1>8, Sizes
<1>10. /\ c - 1 \in 0..N+1 /\ w[c-1] \in UsedIn(ent)
       /\ ent[w[c-1]].next # NIL /\ w[c] = N + ent[w[c-1]].next
       /\ d - 1 \in 0..N+1 /\ v[d-1] \in UsedIn(ent)
       /\ ent[v[d-1]].next # NIL /\ v[d] = N + ent[v[d-1]].next
  BY <1>2, <1>3, <1>7, <1>9
<1>11. w[c-1] = v[d-1] /\ w[c-1] # NIL
  <2>1. N + ent[w[c-1]].next = N + ent[v[d-1]].next
    BY <1>7, <1>10
  <2>2. \A t, u \in UsedIn(ent) : ent[t].next # NIL /\ ent[u].next # NIL =>
          (N + ent[t].next = N + ent[u].next => t = u)
    BY <1>1, LinkFactsIn
  <2>3. \A t \in UsedIn(ent) : t # NIL
    BY <1>1, LinkFactsIn
  <2> QED
    BY <1>10, <2>1, <2>2, <2>3
<1>12. ~(i = j /\ c - 1 = d - 1)
  BY <1>6, <1>9
<1>13. c - 1 \in T
  BY <1>10, <1>11, <1>12
<1> HIDE DEF T
<1> QED
  BY <1>5, <1>7, <1>9, <1>13, Sizes

\* the same of the current arrays
LEMMA OnceOnChains ==
  ASSUME TInv, CInv, NEW i \in Primary, NEW j \in Primary, entries[i].used, entries[j].used,
         NEW n \in 0..N+1, NEW m \in 0..N+1,
         Walk(entries, i)[n] = Walk(entries, j)[m], Walk(entries, i)[n] # NIL
  PROVE  i = j /\ n = m
<1>1. TIn(entries, buckets, entrycount) /\ UsedSlots = UsedIn(entries)
  BY InvIsTIn
<1>2. CIn(entries)
  BY InvIsCIn
<1> QED
  BY <1>1, <1>2, OnceOnChainsIn

LEMMA ChainsPartition ==
  ASSUME TInv, CInv
  PROVE  ChainsPartitionEntries
<1> DEFINE heads == {i \in Primary : entries[i].used}
           steps == {x \in heads \X (0..N+1) : Walk(entries, x[1])[x[2]] # NIL}
           slot(x) == Walk(entries, x[1])[x[2]]
<1>1. TypeOK /\ LinksOwned /\ HeadsAtHome /\ LinksKeepIndex
  BY DEF TInv, CInv
<1>2. \A x \in steps : /\ x[1] \in Primary /\ entries[x[1]].used /\ x[2] \in 0..N+1
                       /\ Walk(entries, x[1])[x[2]] # NIL /\ x = <<x[1], x[2]>>
  OBVIOUS
<1>3. \A i \in heads : Walk(entries, i)[N] = NIL
  BY WalkEnds
<1>4. {slot(x) : x \in steps} = UsedSlots
  <2>1. ASSUME NEW x \in steps
        PROVE  slot(x) \in UsedSlots
    <3>1. \A n \in 0..N+1 : Walk(entries, x[1])[n] \in UsedSlots \cup {NIL}
      BY <1>1, <1>2, WalkSteps
    <3> QED
      BY <1>2, <3>1
  <2>2. ASSUME NEW s \in UsedSlots
        PROVE  \E x \in steps : slot(x) = s
    <3>1. PICK i \in Primary, n \in 0..N+1 : entries[i].used /\ Walk(entries, i)[n] = s
      BY OnItsChain
    <3>2. s # NIL
      BY <1>1, LinkFacts
    <3>3. <<i, n>> \in steps /\ slot(<<i, n>>) = s
      BY <3>1, <3>2
    <3> QED
      BY <3>3
  <2> HIDE DEF slot, steps
  <2> QED
    BY <2>1, <2>2
<1>5. \A x, y \in steps : slot(x) = slot(y) => x = y
  <2>1. TAKE x, y \in steps
  <2>2. HAVE slot(x) = slot(y)
  <2>3. x[1] = y[1] /\ x[2] = y[2]
    BY <1>2, <2>1, <2>2, OnceOnChains
  <2> QED
    BY <1>2, <2>1, <2>3
<1>6. \A x \in steps : Index[entries[slot(x)].key] = x[1]
  <2>1. TAKE x \in steps
  <2> QED
    BY <1>1, <1>2, <2>1, WalkKeepsIndex
<1> QED
  BY <1>3, <1>4, <1>5, <1>6 DEF ChainsPartitionEntries

(* The chains of the used primary entries end, and every used entry is on  *)
(* exactly one of them, at one place, with a key of its index, after any   *)
(* calls: none is lost, so search and remove can find what was inserted.   *)
THEOREM ChainsHoldAllEntries ==
  Spec => []ChainsPartitionEntries
<1>1. TInv /\ CInv => ChainsPartitionEntries
  BY ChainsPartition
<1> QED
  BY <1>1, ChainsAlways, PTL

(* Through any sequence of calls, for every table length, keys and hash:   *)
(* every bucket number, link and position kept in the segment stays inside *)
(* its array, and the counter inside the table.                            *)
THEOREM TypeCorrect ==
  Spec => []TypeOK
<1>1. TInv => TypeOK
  BY DEF TInv
<1> QED
  BY <1>1, InvAlways, PTL

(* Used entries and used buckets always correspond one to one: shmht_remove*)
(* and shmht_insert neither leak a bucket nor give one to two entries.     *)
THEOREM NoBucketLeakedOrShared ==
  Spec => []BucketsOwned
<1>1. TInv => BucketsOwned
  BY DEF TInv
<1> QED
  BY <1>1, InvAlways, PTL

(* The counter that shmht_count returns is the number of used entries.     *)
THEOREM CountIsExact ==
  Spec => []CountExact
<1>1. TInv => CountExact
  BY DEF TInv
<1> QED
  BY <1>1, InvAlways, PTL

(* An insert that the counter lets in finds a free bucket and, whatever    *)
(* the hash does, a free place in the collision area.                      *)
THEOREM InsertFindsRoom ==
  Spec => []RoomForInsert
<1>1. TInv => RoomForInsert
  BY Room DEF TInv
<1> QED
  BY <1>1, InvAlways, PTL

(* An entry knows its own place, also after shmht_remove moved it.         *)
THEOREM EntriesKnowTheirPlace ==
  Spec => []PositionsRight
<1>1. TInv => PositionsRight
  BY DEF TInv
<1> QED
  BY <1>1, InvAlways, PTL

-------------------------------------------------------------------------------
(* Counting up within a set                                                *)
LEMMA Upwards ==
  ASSUME NEW S \in SUBSET Nat, NEW a \in Nat, NEW b \in Nat, a \in S,
         \A n \in a..b : n < b /\ n \in S => n + 1 \in S
  PROVE  \A n \in a..b : n \in S
<1> DEFINE T == {n \in a..b : n \notin S}
<1>1. SUFFICES ASSUME T # {} PROVE FALSE
  OBVIOUS
<1>2. PICK n \in T : \A m \in T : n <= m
  <2>1. T \in SUBSET Nat
    OBVIOUS
  <2> HIDE DEF T
  <2> QED
    BY <1>1, <2>1, LeastExists
<1>3. n \in a..b /\ n \notin S /\ n # a
  BY <1>2
<1>4. n - 1 \in a..b /\ n - 1 < b /\ (n - 1) + 1 = n
  BY <1>3
<1>5. n - 1 \notin T
  BY <1>2, <1>4
<1> QED
  BY <1>3, <1>4, <1>5

-------------------------------------------------------------------------------
(* Lists of keys and values, and the queue of a key in one                 *)

Chains == [0..N -> (Keys \cup {NoKey}) \X Nat]

\* f solves the recursion of Under up to m
UnderUpTo(f, c, k, m) ==
  /\ f \in [0..m -> Seq(Nat)]
  /\ f[0] = <<>>
  /\ \A n \in 1..m : f[n] = IF c[n-1][1] = k THEN Append(f[n-1], c[n-1][2]) ELSE f[n-1]

\* it has a solution, which Under therefore is
LEMMA UnderPrefixes ==
  ASSUME NEW c \in Chains, NEW k \in Keys, NEW m \in 0..N+1
  PROVE  \E f : UnderUpTo(f, c, k, m)
<1> DEFINE Step(s, n) == IF c[n-1][1] = k THEN Append(s, c[n-1][2]) ELSE s
           Prefix(f, i) == /\ f \in [0..i -> Seq(Nat)] /\ f[0] = <<>>
                           /\ \A n \in 1..i : f[n] = Step(f[n-1], n)
           S == {i \in Nat : \E f : Prefix(f, i)}
<1>1. 0 \in S
  <2>1. Prefix([n \in 0..0 |-> <<>>], 0)
    OBVIOUS
  <2> QED
    BY <2>1
<1>2. ASSUME NEW i \in 0..N+1, i < N + 1, i \in S
      PROVE  i + 1 \in S
  <2>1. PICK f : Prefix(f, i)
    BY <1>2
  <2>2. i \in 0..N /\ i \in Nat /\ N \in Nat
    BY <1>2, Sizes
  <2>3. Step(f[i], i + 1) \in Seq(Nat)
    <3>1. f[i] \in Seq(Nat)
      BY <2>1, <2>2
    <3>2. c[i] \in (Keys \cup {NoKey}) \X Nat
      BY <2>2 DEF Chains
    <3>3. Append(f[i], c[i][2]) \in Seq(Nat)
      BY <3>1, <3>2
    <3>4. (i + 1) - 1 = i
      BY <2>2
    <3> QED
      BY <3>1, <3>3, <3>4
  <2> DEFINE g == [n \in 0..i+1 |-> IF n = i + 1 THEN Step(f[i], i + 1) ELSE f[n]]
  <2> HIDE DEF Step
  <2>4. g \in [0..i+1 -> Seq(Nat)] /\ g[0] = <<>>
    BY <2>1, <2>2, <2>3
  <2>5. ASSUME NEW n \in 1..i+1
        PROVE  g[n] = Step(g[n-1], n)
    <3>1. CASE n = i + 1
      BY <2>2, <3>1
    <3>2. CASE n \in 1..i
      <4>1. n \in 0..i+1 /\ n - 1 \in 0..i+1 /\ n # i + 1 /\ n - 1 # i + 1
        BY <2>2, <3>2
      <4>2. g[n] = f[n] /\ g[n-1] = f[n-1]
        BY <4>1
      <4>3. f[n] = Step(f[n-1], n)
        BY <2>1, <3>2
      <4> QED
        BY <4>2, <4>3
    <3> QED
      BY <2>2, <2>5, <3>1, <3>2
  <2>6. Prefix(g, i + 1)
    BY <2>4, <2>5
  <2> HIDE DEF Prefix, g
  <2> QED
    BY <2>2, <2>6
<1>3. S \in SUBSET Nat /\ N + 1 \in Nat
  BY Sizes
<1>4. m \in S
  <2> HIDE DEF S
  <2> QED
    BY <1>1, <1>2, <1>3, Upwards
<1> QED
  BY <1>4 DEF UnderUpTo

LEMMA UnderSteps ==
  ASSUME NEW c \in Chains, NEW k \in Keys
  PROVE  LET q == Under(c, k)
         IN /\ q[0] = <<>>
            /\ \A n \in 0..N+1 : q[n] \in Seq(Nat)
            /\ \A n \in 0..N : q[n+1] = IF c[n][1] = k THEN Append(q[n], c[n][2]) ELSE q[n]
<1> DEFINE Rec(f) == f = [n \in 0..N+1 |->
             IF n = 0 THEN <<>>
             ELSE IF c[n-1][1] = k THEN Append(f[n-1], c[n-1][2]) ELSE f[n-1]]
           q == Under(c, k)
<1>0. N \in Nat /\ N + 1 \in 0..N+1 /\ N + 1 \in Nat
  BY Sizes
<1>1. PICK f : UnderUpTo(f, c, k, N + 1)
  BY <1>0, UnderPrefixes
<1>2. Rec(f)
  <2>1. \A n \in 0..N+1 : n = 0 \/ n \in 1..N+1
    BY <1>0
  <2> QED
    BY <1>1, <2>1 DEF UnderUpTo
<1>3. q = CHOOSE h : Rec(h)
  BY DEF Under
<1>4. Rec(q)
  BY <1>2, <1>3
<1> HIDE DEF q
<1>5. q[0] = <<>>
  BY <1>0, <1>4
<1>6. \A n \in 0..N : q[n+1] = IF c[n][1] = k THEN Append(q[n], c[n][2]) ELSE q[n]
  <2>1. TAKE n \in 0..N
  <2>2. n + 1 \in 0..N+1 /\ n + 1 # 0 /\ (n + 1) - 1 = n
    BY <1>0
  <2> QED
    BY <1>4, <2>2
<1>7. \A n \in 0..N+1 : q[n] \in Seq(Nat)
  <2> DEFINE S == {n \in Nat : q[n] \in Seq(Nat)}
  <2>1. 0 \in S /\ S \in SUBSET Nat
    <3>1. q[0] \in Seq(Nat)
      <4>1. <<>> \in Seq(Nat)
        OBVIOUS
      <4> QED
        BY <1>5, <4>1
    <3> QED
      BY <3>1
  <2>2. ASSUME NEW n \in 0..N+1, n < N + 1, n \in S
        PROVE  n + 1 \in S
    <3>1. n \in 0..N /\ q[n] \in Seq(Nat) /\ n + 1 \in Nat
      BY <1>0, <2>2
    <3>2. c[n][2] \in Nat
      BY <3>1 DEF Chains
    <3>3. Append(q[n], c[n][2]) \in Seq(Nat)
      BY <3>1, <3>2
    <3>4. q[n+1] \in Seq(Nat)
      BY <1>6, <3>1, <3>3
    <3> QED
      BY <3>1, <3>4
  <2>3. \A n \in 0..N+1 : n \in S
    <3> HIDE DEF S
    <3> QED
      BY <1>0, <2>1, <2>2, Upwards
  <2> QED
    BY <2>3
<1> QED
  BY <1>5, <1>6, <1>7 DEF q

\* where two lists agree on the places of k, so do their queues
LEMMA UnderAgree ==
  ASSUME NEW c \in Chains, NEW d \in Chains, NEW k \in Keys, NEW m \in 0..N+1,
         \A n \in 0..N : n < m => c[n] = d[n]
  PROVE  \A n \in 0..m : Under(c, k)[n] = Under(d, k)[n]
<1> DEFINE S == {n \in Nat : Under(c, k)[n] = Under(d, k)[n]}
<1>0. N \in Nat
  BY Sizes
<1>1. 0 \in S /\ S \in SUBSET Nat
  BY UnderSteps
<1>2. ASSUME NEW n \in 0..m, n < m, n \in S
      PROVE  n + 1 \in S
  <2>1. n \in 0..N /\ n + 1 \in Nat /\ c[n] = d[n]
    BY <1>0, <1>2
  <2>2. Under(c, k)[n] = Under(d, k)[n]
    BY <1>2
  <2>3. Under(c, k)[n+1] = Under(d, k)[n+1]
    BY <2>1, <2>2, UnderSteps
  <2> QED
    BY <2>1, <2>3
<1>3. \A n \in 0..m : n \in S
  <2> HIDE DEF S
  <2> QED
    BY <1>0, <1>1, <1>2, Upwards
<1> QED
  BY <1>3

\* beyond the last place of k its queue is complete
LEMMA UnderRest ==
  ASSUME NEW c \in Chains, NEW k \in Keys, NEW m \in 0..N+1,
         \A n \in 0..N : n >= m => c[n][1] # k
  PROVE  Under(c, k)[N+1] = Under(c, k)[m]
<1> DEFINE S == {n \in Nat : Under(c, k)[n] = Under(c, k)[m]}
<1>0. N \in Nat /\ m \in Nat /\ N + 1 \in Nat
  BY Sizes
<1>1. m \in S /\ S \in SUBSET Nat
  BY <1>0
<1>2. ASSUME NEW n \in m..N+1, n < N + 1, n \in S
      PROVE  n + 1 \in S
  <2>1. n \in 0..N /\ n + 1 \in Nat /\ c[n][1] # k
    BY <1>0, <1>2
  <2>2. Under(c, k)[n] = Under(c, k)[m]
    BY <1>2
  <2>3. Under(c, k)[n+1] = Under(c, k)[m]
    BY <2>1, <2>2, UnderSteps
  <2> QED
    BY <2>1, <2>3
<1>3. \A n \in m..N+1 : n \in S
  <2> HIDE DEF S
  <2> QED
    BY <1>0, <1>1, <1>2, Upwards
<1>4. N + 1 \in m..N+1
  BY <1>0
<1> QED
  BY <1>3, <1>4

\* d is c with v under k behind all that c holds
Adds(c, d, k, v) ==
  \E l \in 0..N :
    /\ d[l] = <<k, v>>
    /\ \A n \in 0..N : /\ n < l => d[n] = c[n]
                       /\ n >= l => c[n][1] = NoKey
                       /\ n > l => d[n][1] = NoKey

\* the first place of k in c
FirstPlace(c, k, p) ==
  p \in 0..N /\ c[p][1] = k /\ \A n \in 0..N : n < p => c[n][1] # k

\* d is c without the first place of k
Drops(c, d, k) ==
  \E p \in 0..N :
    /\ FirstPlace(c, k, p)
    /\ \A n \in 0..N : /\ n < p => d[n] = c[n]
                       /\ p <= n /\ n < N => d[n] = c[n+1]
    /\ d[N][1] = NoKey

LEMMA QueueGrows ==
  ASSUME NEW c \in Chains, NEW d \in Chains, NEW k \in Keys, NEW v \in Nat, Adds(c, d, k, v),
         NEW j \in Keys
  PROVE  Under(d, j)[N+1] = IF j = k THEN Append(Under(c, j)[N+1], v) ELSE Under(c, j)[N+1]
<1>0. N \in Nat /\ j # NoKey
  BY Sizes, TableAssumption
<1>1. PICK l \in 0..N :
        /\ d[l] = <<k, v>>
        /\ \A n \in 0..N : /\ n < l => d[n] = c[n]
                           /\ n >= l => c[n][1] = NoKey
                           /\ n > l => d[n][1] = NoKey
  BY DEF Adds
<1>2. l \in 0..N+1 /\ l + 1 \in 0..N+1
  BY <1>0
<1>3. Under(d, j)[l] = Under(c, j)[l]
  <2>1. l \in 0..l
    BY <1>0
  <2> QED
    BY <1>1, <1>2, <2>1, UnderAgree
<1>4. Under(c, j)[N+1] = Under(c, j)[l]
  BY <1>0, <1>1, <1>2, UnderRest
<1>5. Under(d, j)[l+1] = IF k = j THEN Append(Under(d, j)[l], v) ELSE Under(d, j)[l]
  BY <1>1, UnderSteps
<1>6. Under(d, j)[N+1] = Under(d, j)[l+1]
  <2>1. \A n \in 0..N : n >= l + 1 => d[n][1] # j
    BY <1>0, <1>1
  <2> QED
    BY <1>2, <2>1, UnderRest
<1> QED
  BY <1>3, <1>4, <1>5, <1>6

LEMMA TailOfAppend ==
  ASSUME NEW s \in Seq(Nat), s # <<>>, NEW v \in Nat
  PROVE  /\ Append(s, v) # <<>> /\ Head(Append(s, v)) = Head(s)
         /\ Tail(Append(s, v)) = Append(Tail(s), v)
OBVIOUS

\* from the first place of k on its queue is not empty, and what it begins with
LEMMA QueueHead ==
  ASSUME NEW c \in Chains, NEW k \in Keys, NEW p \in 0..N, FirstPlace(c, k, p)
  PROVE  /\ Under(c, k)[p] = <<>>
         /\ \A n \in p..N : Under(c, k)[n+1] # <<>> /\ Head(Under(c, k)[n+1]) = c[p][2]
<1> DEFINE q == Under(c, k)
           S == {n \in Nat : q[n+1] # <<>> /\ Head(q[n+1]) = c[p][2]}
<1>0. N \in Nat /\ p \in Nat /\ <<>> \in Seq(Nat)
  BY Sizes
<1>1. /\ q[0] = <<>>
      /\ \A n \in 0..N+1 : q[n] \in Seq(Nat)
      /\ \A n \in 0..N : q[n+1] = IF c[n][1] = k THEN Append(q[n], c[n][2]) ELSE q[n]
  BY UnderSteps
<1>2. \A n \in 0..N : c[n][2] \in Nat
  BY DEF Chains
<1> HIDE DEF q
<1>3. q[p] = <<>>
  <2> DEFINE E == {n \in Nat : q[n] = <<>>}
  <2>1. 0 \in E /\ E \in SUBSET Nat
    BY <1>1
  <2>2. ASSUME NEW n \in 0..p, n < p, n \in E
        PROVE  n + 1 \in E
    <3>1. n \in 0..N /\ n + 1 \in Nat /\ c[n][1] # k
      BY <1>0, <2>2 DEF FirstPlace
    <3>2. q[n+1] = q[n] /\ q[n] = <<>>
      BY <1>1, <2>2, <3>1
    <3> QED
      BY <3>1, <3>2
  <2>3. \A n \in 0..p : n \in E
    <3> HIDE DEF E
    <3> QED
      BY <1>0, <2>1, <2>2, Upwards
  <2> QED
    BY <1>0, <2>3
<1>4. p \in S /\ S \in SUBSET Nat
  <2>1. q[p+1] = Append(<<>>, c[p][2]) /\ c[p][2] \in Nat
    BY <1>1, <1>2, <1>3 DEF FirstPlace
  <2>2. q[p+1] # <<>> /\ Head(q[p+1]) = c[p][2]
    BY <2>1
  <2> QED
    BY <1>0, <2>2
<1>5. ASSUME NEW n \in p..N, n < N, n \in S
      PROVE  n + 1 \in S
  <2>1. n + 1 \in 0..N /\ n + 1 \in 0..N+1 /\ n + 1 \in Nat
    BY <1>0, <1>5
  <2>2. q[n+1] # <<>> /\ Head(q[n+1]) = c[p][2] /\ q[n+1] \in Seq(Nat)
    BY <1>1, <1>5, <2>1
  <2>3. q[(n+1)+1] = IF c[n+1][1] = k THEN Append(q[n+1], c[n+1][2]) ELSE q[n+1]
    BY <1>1, <2>1
  <2>4. Append(q[n+1], c[n+1][2]) # <<>> /\ Head(Append(q[n+1], c[n+1][2])) = Head(q[n+1])
    BY <1>2, <2>1, <2>2, TailOfAppend
  <2>5. q[(n+1)+1] # <<>> /\ Head(q[(n+1)+1]) = c[p][2]
    BY <2>2, <2>3, <2>4
  <2> QED
    BY <2>1, <2>5
<1>6. \A n \in p..N : n \in S
  <2> HIDE DEF S
  <2> QED
    BY <1>0, <1>4, <1>5, Upwards
<1> QED
  BY <1>3, <1>6 DEF q

LEMMA QueueDrops ==
  ASSUME NEW c \in Chains, NEW d \in Chains, NEW k \in Keys, Drops(c, d, k), NEW j \in Keys
  PROVE  /\ j = k => Under(c, j)[N+1] # <<>>
         /\ Under(d, j)[N+1] = IF j = k THEN Tail(Under(c, j)[N+1]) ELSE Under(c, j)[N+1]
<1> DEFINE q == Under(c, j)
           r == Under(d, j)
           Goal(n) == r[n] = IF j = k THEN Tail(q[n+1]) ELSE q[n+1]
           S == {n \in Nat : Goal(n)}
<1>1. PICK p \in 0..N :
        /\ FirstPlace(c, k, p)
        /\ \A n \in 0..N : /\ n < p => d[n] = c[n]
                           /\ p <= n /\ n < N => d[n] = c[n+1]
        /\ d[N][1] = NoKey
  BY DEF Drops
<1>0. N \in Nat /\ p \in Nat /\ j # NoKey
  BY Sizes, TableAssumption
<1>2. /\ \A n \in 0..N+1 : q[n] \in Seq(Nat)
      /\ \A n \in 0..N : q[n+1] = IF c[n][1] = j THEN Append(q[n], c[n][2]) ELSE q[n]
      /\ \A n \in 0..N : r[n+1] = IF d[n][1] = j THEN Append(r[n], d[n][2]) ELSE r[n]
  BY UnderSteps
<1>3. \A n \in 0..N : c[n][2] \in Nat
  BY DEF Chains
<1>4. r[p] = q[p]
  <2>1. p \in 0..N+1 /\ p \in 0..p
    BY <1>0
  <2> QED
    BY <1>1, <2>1, UnderAgree
<1>5. j = k => q[p] = <<>> /\ \A n \in p..N : q[n+1] # <<>>
  BY <1>1, QueueHead
<1> HIDE DEF q, r
<1>6. p \in S /\ S \in SUBSET Nat
  <2>1. CASE j = k
    <3>1. q[p+1] = Append(<<>>, c[p][2]) /\ r[p] = <<>>
      BY <1>1, <1>2, <1>4, <1>5, <2>1 DEF FirstPlace
    <3>2. Tail(Append(<<>>, c[p][2])) = <<>>
      BY <1>3
    <3>3. Goal(p)
      BY <2>1, <3>1, <3>2
    <3> QED
      BY <1>0, <3>3
  <2>2. CASE j # k
    <3>1. q[p+1] = q[p]
      BY <1>1, <1>2, <2>2 DEF FirstPlace
    <3> QED
      BY <1>0, <1>4, <2>2, <3>1
  <2> QED
    BY <2>1, <2>2
<1>7. ASSUME NEW n \in p..N, n < N, n \in S
      PROVE  n + 1 \in S
  <2>1. /\ n \in 0..N /\ n + 1 \in 0..N /\ n + 1 \in 0..N+1 /\ n + 1 \in Nat
        /\ d[n] = c[n+1] /\ Goal(n)
    BY <1>0, <1>1, <1>7
  <2>2. q[(n+1)+1] = IF c[n+1][1] = j THEN Append(q[n+1], c[n+1][2]) ELSE q[n+1]
    BY <1>2, <2>1
  <2>3. r[n+1] = IF c[n+1][1] = j THEN Append(r[n], c[n+1][2]) ELSE r[n]
    BY <1>2, <2>1
  <2>4. CASE j = k
    <3>1. q[n+1] # <<>> /\ q[n+1] \in Seq(Nat) /\ c[n+1][2] \in Nat
      BY <1>2, <1>3, <1>5, <2>1, <2>4
    <3>2. Tail(Append(q[n+1], c[n+1][2])) = Append(Tail(q[n+1]), c[n+1][2])
      BY <3>1, TailOfAppend
    <3>3. Goal(n + 1)
      BY <2>1, <2>2, <2>3, <2>4, <3>2
    <3> QED
      BY <2>1, <3>3
  <2>5. CASE j # k
    <3>1. Goal(n + 1)
      BY <2>1, <2>2, <2>3, <2>5
    <3> QED
      BY <2>1, <3>1
  <2> QED
    BY <2>4, <2>5
<1>8. Goal(N)
  <2>1. \A n \in p..N : n \in S
    <3> HIDE DEF S
    <3> QED
      BY <1>0, <1>6, <1>7, Upwards
  <2>2. N \in p..N
    BY <1>0
  <2> QED
    BY <2>1, <2>2
<1>9. r[N+1] = r[N]
  BY <1>0, <1>1, <1>2
<1>10. j = k => q[N+1] # <<>>
  BY <1>0, <1>5
<1> QED
  BY <1>8, <1>9, <1>10 DEF q, r

-------------------------------------------------------------------------------
(* How many values the queues hold together                                *)

Spots(q) == UNION {{<<k, i>> : i \in 1..Len(q[k])} : k \in Keys}

\* one value more in one queue is one more in all
LEMMA OneSpotMore ==
  ASSUME NEW q \in [Keys -> Seq(Nat)], NEW r \in [Keys -> Seq(Nat)], NEW k \in Keys,
         Len(r[k]) = Len(q[k]) + 1, \A j \in Keys : j # k => r[j] = q[j]
  PROVE  /\ IsFiniteSet(Spots(q)) <=> IsFiniteSet(Spots(r))
         /\ IsFiniteSet(Spots(q)) => /\ Cardinality(Spots(q)) \in Nat
                                     /\ Cardinality(Spots(r)) = Cardinality(Spots(q)) + 1
<1> DEFINE x == <<k, Len(q[k]) + 1>>
<1>1. \A j \in Keys : Len(q[j]) \in Nat /\ Len(r[j]) \in Nat
  OBVIOUS
<1>2. x \notin Spots(q)
  <2>1. SUFFICES ASSUME x \in Spots(q) PROVE FALSE
    OBVIOUS
  <2>2. PICK j \in Keys : \E i \in 1..Len(q[j]) : x = <<j, i>>
    BY <2>1 DEF Spots
  <2>3. PICK i \in 1..Len(q[j]) : x = <<j, i>>
    BY <2>2
  <2>4. j = k /\ i = Len(q[k]) + 1
    BY <2>3
  <2> QED
    BY <1>1, <2>3, <2>4
<1>3. Spots(r) = Spots(q) \cup {x}
  <2>1. ASSUME NEW y \in Spots(r)
        PROVE  y \in Spots(q) \cup {x}
    <3>1. PICK j \in Keys : \E i \in 1..Len(r[j]) : y = <<j, i>>
      BY <2>1 DEF Spots
    <3>2. PICK i \in 1..Len(r[j]) : y = <<j, i>>
      BY <3>1
    <3>3. CASE j = k /\ i = Len(q[k]) + 1
      BY <3>2, <3>3
    <3>4. CASE ~(j = k /\ i = Len(q[k]) + 1)
      <4>1. i \in 1..Len(q[j])
        BY <1>1, <3>2, <3>4
      <4> QED
        BY <3>2, <4>1 DEF Spots
    <3> QED
      BY <3>3, <3>4
  <2>2. ASSUME NEW y \in Spots(q)
        PROVE  y \in Spots(r)
    <3>1. PICK j \in Keys : \E i \in 1..Len(q[j]) : y = <<j, i>>
      BY <2>2 DEF Spots
    <3>2. PICK i \in 1..Len(q[j]) : y = <<j, i>>
      BY <3>1
    <3>3. i \in 1..Len(r[j])
      <4>1. Len(q[j]) <= Len(r[j])
        <5>1. Len(q[j]) \in Nat /\ Len(r[j]) \in Nat
          BY <1>1
        <5>2. Len(r[j]) = Len(q[j]) + 1 \/ Len(r[j]) = Len(q[j])
          OBVIOUS
        <5> QED
          BY <5>1, <5>2
      <4> QED
        BY <1>1, <3>2, <4>1
    <3> QED
      BY <3>2, <3>3 DEF Spots
  <2>3. x \in Spots(r)
    <3>1. Len(q[k]) + 1 \in 1..Len(r[k])
      BY <1>1
    <3> QED
      BY <3>1 DEF Spots
  <2> HIDE DEF x
  <2> QED
    BY <2>1, <2>2, <2>3
<1> HIDE DEF x
<1>4. IsFiniteSet(Spots(r)) => IsFiniteSet(Spots(q))
  <2>1. Spots(q) \in SUBSET Spots(r)
    BY <1>3
  <2> QED
    BY <2>1, FS_Subset
<1>5. ASSUME IsFiniteSet(Spots(q))
      PROVE  /\ IsFiniteSet(Spots(r)) /\ Cardinality(Spots(q)) \in Nat
             /\ Cardinality(Spots(r)) = Cardinality(Spots(q)) + 1
  BY <1>2, <1>3, <1>5, FS_AddElement, FS_CardinalityType
<1> QED
  BY <1>4, <1>5

-------------------------------------------------------------------------------
(* What a step does to a walk                                              *)

\* as far as the links are the same, so is the walk
LEMMA WalkSame ==
  ASSUME NEW e \in [Slots -> Entry], NEW f \in [Slots -> Entry],
         NEW i \in Slots, NEW m \in 0..N+1,
         \A n \in 0..N+1 : n < m /\ Walk(e, i)[n] # NIL =>
           f[Walk(e, i)[n]].next = e[Walk(e, i)[n]].next
  PROVE  \A n \in 0..m : Walk(f, i)[n] = Walk(e, i)[n]
<1> DEFINE w == Walk(e, i)
           v == Walk(f, i)
           S == {n \in Nat : v[n] = w[n]}
<1>0. N \in Nat
  BY Sizes
<1>1. /\ w[0] = i /\ v[0] = i
      /\ \A n \in 1..N+1 : w[n] = Follow(e, w[n-1]) /\ v[n] = Follow(f, v[n-1])
  BY WalkFollows
<1>2. \A n \in 0..N+1 : n < m /\ w[n] # NIL => f[w[n]].next = e[w[n]].next
  OBVIOUS
<1> HIDE DEF w, v
<1>3. 0 \in S /\ S \in SUBSET Nat
  BY <1>1
<1>4. ASSUME NEW n \in 0..m, n < m, n \in S
      PROVE  n + 1 \in S
  <2>1. n \in 0..N+1 /\ n + 1 \in 1..N+1 /\ (n + 1) - 1 = n /\ n + 1 \in Nat
    BY <1>0, <1>4
  <2>2. v[n+1] = Follow(f, w[n]) /\ w[n+1] = Follow(e, w[n])
    BY <1>1, <1>4, <2>1
  <2>3. v[n+1] = w[n+1]
    BY <1>2, <1>4, <2>1, <2>2 DEF Follow
  <2> QED
    BY <2>1, <2>3
<1>5. \A n \in 0..m : n \in S
  <2> HIDE DEF S
  <2> QED
    BY <1>0, <1>3, <1>4, Upwards
<1> QED
  BY <1>5 DEF w, v

\* past its end a walk stays there
LEMMA WalkStaysNil ==
  ASSUME NEW e \in [Slots -> Entry], NEW i \in Slots, NEW m \in 0..N+1, Walk(e, i)[m] = NIL
  PROVE  \A n \in 0..N+1 : n >= m => Walk(e, i)[n] = NIL
<1> DEFINE w == Walk(e, i)
           S == {n \in Nat : w[n] = NIL}
<1>0. N \in Nat /\ m \in Nat /\ N + 1 \in Nat
  BY Sizes
<1>1. \A n \in 1..N+1 : w[n] = Follow(e, w[n-1])
  BY WalkFollows
<1>2. m \in S /\ S \in SUBSET Nat
  BY <1>0
<1> HIDE DEF w
<1>3. ASSUME NEW n \in m..N+1, n < N + 1, n \in S
      PROVE  n + 1 \in S
  <2>1. n + 1 \in 1..N+1 /\ (n + 1) - 1 = n /\ n + 1 \in Nat
    BY <1>0, <1>3
  <2>2. w[n+1] = NIL
    BY <1>1, <1>3, <2>1 DEF Follow
  <2> QED
    BY <2>1, <2>2
<1>4. \A n \in m..N+1 : n \in S
  <2> HIDE DEF S
  <2> QED
    BY <1>0, <1>2, <1>3, Upwards
<1>5. \A n \in 0..N+1 : n >= m => n \in m..N+1
  BY <1>0
<1> QED
  BY <1>4, <1>5 DEF w

-------------------------------------------------------------------------------
(* What a step does to the lists                                           *)

Bucket == [used : BOOLEAN, val : Nat]

Pair(e, b, s) == <<e[s].key, b[e[s].bucket].val>>

\* Chain, of any arrays of entries and buckets
ListOf(e, b, i) ==
  [n \in 0..N |-> IF e[i].used /\ Walk(e, i)[n] # NIL
                  THEN Pair(e, b, Walk(e, i)[n]) ELSE <<NoKey, 0>>]

LEMMA ChainIsList ==
  ASSUME NEW i \in Primary
  PROVE  /\ Chain(i) = ListOf(entries, buckets, i)
         /\ Chain(i)' = ListOf(entries', buckets', i)
BY DEF Chain, ListOf, Pair

LEMMA ListTyped ==
  ASSUME NEW e \in [Slots -> Entry], NEW b \in [Primary -> Bucket], NEW i \in Primary
  PROVE  ListOf(e, b, i) \in Chains
<1>1. i \in Slots
  BY Sizes
<1>2. \A n \in 0..N : Walk(e, i)[n] \in Slots \cup {NIL}
  BY <1>1, WalkFollows, Sizes
<1>3. ASSUME NEW s \in Slots
      PROVE  Pair(e, b, s) \in (Keys \cup {NoKey}) \X Nat
  <2>1. e[s].key \in Keys \cup {NoKey} /\ e[s].bucket \in Primary
    BY EntryFields DEF Entry
  <2>2. b[e[s].bucket].val \in Nat
    BY <2>1 DEF Bucket
  <2> QED
    BY <2>1, <2>2 DEF Pair
<1>4. <<NoKey, 0>> \in (Keys \cup {NoKey}) \X Nat
  OBVIOUS
<1>5. \A n \in 0..N : (IF e[i].used /\ Walk(e, i)[n] # NIL
                       THEN Pair(e, b, Walk(e, i)[n]) ELSE <<NoKey, 0>>)
                      \in (Keys \cup {NoKey}) \X Nat
  BY <1>2, <1>3, <1>4
<1> QED
  BY <1>5 DEF ListOf, Chains

\* the entries of the chain of i keep their links, keys and values
SameAlong(e, b, f, d, i) ==
  /\ e[i].used <=> f[i].used
  /\ \A n \in 0..N+1 : e[i].used /\ Walk(e, i)[n] # NIL =>
       /\ f[Walk(e, i)[n]].next = e[Walk(e, i)[n]].next
       /\ Pair(f, d, Walk(e, i)[n]) = Pair(e, b, Walk(e, i)[n])

LEMMA ListSame ==
  ASSUME NEW e \in [Slots -> Entry], NEW f \in [Slots -> Entry],
         NEW b \in [Primary -> Bucket], NEW d \in [Primary -> Bucket], NEW i \in Primary,
         SameAlong(e, b, f, d, i)
  PROVE  ListOf(f, d, i) = ListOf(e, b, i)
<1>0. /\ e[i].used <=> f[i].used
      /\ \A n \in 0..N+1 : e[i].used /\ Walk(e, i)[n] # NIL =>
           /\ f[Walk(e, i)[n]].next = e[Walk(e, i)[n]].next
           /\ Pair(f, d, Walk(e, i)[n]) = Pair(e, b, Walk(e, i)[n])
  BY DEF SameAlong
<1>1. CASE ~e[i].used
  BY <1>0, <1>1 DEF ListOf
<1>2. CASE e[i].used
  <2>1. i \in Slots /\ N + 1 \in 0..N+1 /\ \A n \in 0..N : n \in 0..N+1
    BY Sizes
  <2>2. \A n \in 0..N+1 : Walk(f, i)[n] = Walk(e, i)[n]
    BY <1>0, <1>2, <2>1, WalkSame
  <2>3. \A n \in 0..N : ListOf(f, d, i)[n] = ListOf(e, b, i)[n]
    BY <1>0, <1>2, <2>1, <2>2 DEF ListOf
  <2> QED
    BY <2>3 DEF ListOf
<1> QED
  BY <1>1, <1>2

\* the loop of shmht_search stops at the places of its key on the list
LEMMA MatchPlaces ==
  ASSUME NEW ent, NEW bkt, NEW cnt,
         TIn(ent, bkt, cnt), CIn(ent), NEW k \in Keys
  PROVE  /\ Matches(ent, k) = {n \in 0..N : ListOf(ent, bkt, Index[k])[n][1] = k}
         /\ Matches(ent, k) # {} =>
              /\ FirstPlace(ListOf(ent, bkt, Index[k]), k, FirstMatch(ent, k))
              /\ ent[Index[k]].used
              /\ Found(ent, k) = Walk(ent, Index[k])[FirstMatch(ent, k)]
<1> DEFINE i == Index[k]
           w == Walk(ent, i)
           c == ListOf(ent, bkt, i)
           M == Matches(ent, k)
           P == {n \in 0..N : c[n][1] = k}
<1>1. /\ TypedIn(ent, bkt, cnt) /\ LinksIn(ent) /\ ent \in [Slots -> Entry] /\ N \in Nat
      /\ i \in Primary /\ i \in Slots /\ k # NoKey
  BY TableAssumption, Sizes DEF TIn, TypedIn, Primary
<1>2. M = {n \in 0..N+1 : /\ \A m \in 0..n : w[m] # NIL /\ ent[w[m]].used
                         /\ ent[w[n]].key = k}
  BY DEF Matches, Visits
<1>3. \A n \in 0..N : c[n][1] = IF ent[i].used /\ w[n] # NIL THEN ent[w[n]].key
                               ELSE NoKey
  BY DEF ListOf, Pair
<1>4. w[0] = i
  BY <1>1, WalkFollows
<1>5. ASSUME ent[i].used
      PROVE  /\ w[N] = NIL
             /\ \A n \in 0..N+1 : w[n] # NIL => ent[w[n]].used
  <2>1. \A n \in 0..N+1 : w[n] \in UsedIn(ent) \cup {NIL}
    BY <1>1, <1>5, WalkStepsIn
  <2> QED
    BY <1>1, <1>5, <2>1, WalkEndsIn DEF UsedIn
<1>6. \A m, n \in 0..N+1 : m <= n /\ w[n] # NIL => w[m] # NIL
  BY <1>1, WalkStaysNil
<1> HIDE DEF i, w, c
<1>7. ASSUME NEW n \in M
      PROVE  n \in P /\ ent[i].used
  <2>1. /\ n \in 0..N+1 /\ ent[w[n]].key = k
        /\ \A m \in 0..n : w[m] # NIL /\ ent[w[m]].used
    BY <1>2
  <2>2. 0 \in 0..n /\ n \in 0..n
    BY <1>1, <2>1
  <2>3. ent[i].used /\ w[n] # NIL
    BY <1>4, <2>1, <2>2
  <2>4. n # N + 1
    <3>1. SUFFICES ASSUME n = N + 1 PROVE FALSE
      OBVIOUS
    <3>2. N \in 0..n
      BY <1>1, <3>1
    <3> QED
      BY <1>5, <2>1, <2>3, <3>2
  <2>5. n \in 0..N
    BY <1>1, <2>1, <2>4
  <2> QED
    BY <1>3, <2>1, <2>3, <2>5
<1>8. ASSUME NEW n \in P
      PROVE  n \in M
  <2>1. n \in 0..N /\ n \in 0..N+1 /\ c[n][1] = k
    BY <1>1
  <2>2. ent[i].used /\ w[n] # NIL /\ ent[w[n]].key = k
    BY <1>1, <1>3, <2>1
  <2>3. \A m \in 0..n : m \in 0..N+1 /\ m <= n
    BY <1>1, <2>1
  <2>4. \A m \in 0..n : w[m] # NIL /\ ent[w[m]].used
    BY <1>5, <1>6, <2>1, <2>2, <2>3
  <2> QED
    BY <1>2, <2>1, <2>2, <2>4
<1> HIDE DEF M
<1>9. M = P
  BY <1>7, <1>8
<1>10. ASSUME M # {}
       PROVE  FirstPlace(c, k, FirstMatch(ent, k)) /\ ent[i].used
  <2>1. P \in SUBSET Nat
    BY <1>1
  <2>2. \E n \in P : \A m \in P : n <= m
    <3> HIDE DEF P
    <3> QED
      BY <1>9, <1>10, <2>1, LeastExists
  <2> DEFINE f == FirstMatch(ent, k)
  <2>3. f \in M /\ \A m \in M : f <= m
    BY <1>9, <2>2 DEF FirstMatch, M
  <2> HIDE DEF f
  <2>4. f \in 0..N /\ c[f][1] = k
    BY <1>9, <2>3
  <2>5. ASSUME NEW n \in 0..N, n < f PROVE c[n][1] # k
    <3>1. n \notin M
      BY <2>3, <2>4, <2>5
    <3> QED
      BY <1>9, <3>1
  <2>6. FirstPlace(c, k, f)
    BY <2>4, <2>5 DEF FirstPlace
  <2> QED
    BY <1>7, <1>10, <2>6 DEF f
<1>11. Found(ent, k) = w[FirstMatch(ent, k)]
  BY DEF Found, w, i
<1> QED
  BY <1>9, <1>10, <1>11 DEF M, c, i, w

\* an insert adds to the list of its index, and to no other
LEMMA GrowLists ==
  ASSUME TInv, CInv, NEW k \in Keys, NEW v \in Nat, NEW x \in Slots, NEW l \in Slots \cup {NIL},
         NEW b \in Primary, ~buckets[b].used,
         Grows(entries', x, l, b), GrowsInChain(entries', x, l, k, v),
         buckets' \in [Primary -> Bucket], buckets'[b].val = v,
         \A c \in Primary : c # b => buckets'[c] = buckets[c]
  PROVE  /\ Adds(Chain(Index[k]), Chain(Index[k])', k, v)
         /\ \A j \in Primary : j # Index[k] => Chain(j)' = Chain(j)
<1> DEFINE i == Index[k]
           w == Walk(entries, i)
           z == Walk(entries', i)
<1>1. /\ TypeOK /\ BucketsOwned /\ LinksOwned
      /\ entries \in [Slots -> Entry] /\ entries' \in [Slots -> Entry]
      /\ buckets \in [Primary -> Bucket] /\ N \in Nat /\ NIL \notin UsedSlots
      /\ i \in Primary /\ i \in Slots /\ i \notin Collision
  BY TableAssumption, Sizes DEF TInv, TypeOK, Primary, Bucket, Grows, UsedSlots
<1>2. buckets' \in [Primary -> Bucket] /\ buckets'[b].val = v
      /\ \A c \in Primary : c # b => buckets'[c] = buckets[c]
  OBVIOUS
<1>3. /\ x \in Slots /\ x \notin UsedSlots
      /\ entries'[x].used /\ entries'[x].next = NIL
      /\ \A t \in Slots : t # x => (entries'[t].used <=> entries[t].used)
      /\ \A t \in UsedSlots : t # l => entries'[t].next = entries[t].next
  BY DEF Grows
<1>4. \A t \in UsedSlots : Pair(entries', buckets', t) = Pair(entries, buckets, t)
  <2>1. TAKE t \in UsedSlots
  <2>2. entries'[t].key = entries[t].key /\ entries'[t].bucket = entries[t].bucket
    BY <2>1 DEF Grows, GrowsInChain
  <2>3. buckets[entries[t].bucket].used /\ entries[t].bucket \in Primary
    BY <1>1, <2>1, EntryFields DEF BucketsOwned, UsedSlots
  <2>4. buckets'[entries[t].bucket] = buckets[entries[t].bucket]
    BY <1>2, <2>3
  <2> QED
    BY <2>2, <2>4 DEF Pair
<1>5. Pair(entries', buckets', x) = <<k, v>>
  <2>1. entries'[x].key = k /\ entries'[x].bucket = b
    BY DEF Grows, GrowsInChain
  <2> QED
    BY <1>2, <2>1 DEF Pair
<1>6. /\ x \in Primary => x = i /\ l = NIL
      /\ x \in Collision => /\ entries[i].used /\ l = LastOf(entries, i)
                            /\ l \in UsedSlots /\ entries[l].next = NIL
  BY DEF GrowsInChain, UsedSlots
\* the last entry of the chain, where it is
<1>7. ASSUME x \in Collision
      PROVE  \E q \in 0..N : q < N /\ w[q] = l /\ w[q+1] = NIL
  <2>1. PICK q \in 0..N+1 : LastOf(entries, i) = w[q]
    BY <1>1, <1>6, <1>7, ChainEnds
  <2>2. w[q] = l /\ l # NIL
    BY <1>1, <1>6, <1>7, <2>1
  <2>3. w[N] = NIL
    BY <1>1, <1>6, <1>7, WalkEnds
  <2>4. q < N
    <3>1. SUFFICES ASSUME q >= N PROVE FALSE
      BY <1>1, <2>1
    <3>2. N \in 0..N+1
      BY <1>1
    <3> QED
      BY <1>1, <2>1, <2>2, <2>3, <3>1, <3>2, WalkStaysNil
  <2>5. q + 1 \in 1..N+1 /\ (q + 1) - 1 = q
    BY <1>1, <2>1, <2>4
  <2>6. w[q+1] = NIL
    <3>1. w[q+1] = Follow(entries, l)
      BY <1>1, <2>2, <2>5, WalkFollows
    <3> QED
      BY <1>6, <1>7, <2>2, <3>1 DEF Follow
  <2>7. q \in 0..N
    BY <1>1, <2>1, <2>4
  <2> QED
    BY <2>2, <2>4, <2>6, <2>7
<1>8. ASSUME NEW j \in Primary, j # i
      PROVE  ListOf(entries', buckets', j) = ListOf(entries, buckets, j)
  <2>1. entries[j].used <=> entries'[j].used
    <3>1. j # x /\ j \in Slots
      BY <1>6, <1>8, Sizes
    <3> QED
      BY <1>3, <3>1
  <2>2. ASSUME NEW n \in 0..N+1, entries[j].used, Walk(entries, j)[n] # NIL
        PROVE  /\ entries'[Walk(entries, j)[n]].next = entries[Walk(entries, j)[n]].next
               /\ Pair(entries', buckets', Walk(entries, j)[n])
                    = Pair(entries, buckets, Walk(entries, j)[n])
    <3> DEFINE t == Walk(entries, j)[n]
    <3>1. t \in UsedSlots
      BY <1>1, <2>2, WalkSteps
    <3>2. t # l
      <4>1. SUFFICES ASSUME t = l PROVE FALSE
        OBVIOUS
      <4>2. x \in Collision
        BY <1>1, <1>3, <1>6, <3>1, <4>1, Sizes
      <4>3. PICK q \in 0..N : w[q] = l
        BY <1>7, <4>2
      <4>4. q \in 0..N+1 /\ entries[i].used
        BY <1>1, <1>6, <4>2
      <4>5. Walk(entries, i)[q] = Walk(entries, j)[n] /\ Walk(entries, i)[q] # NIL
        BY <2>2, <4>1, <4>3
      <4> QED
        BY <1>1, <1>8, <2>2, <4>4, <4>5, OnceOnChains
    <3> HIDE DEF t
    <3> QED
      BY <1>3, <1>4, <3>1, <3>2 DEF t
  <2>3. SameAlong(entries, buckets, entries', buckets', j)
    BY <2>1, <2>2 DEF SameAlong
  <2>4. /\ entries \in [Slots -> Entry] /\ entries' \in [Slots -> Entry]
        /\ buckets \in [Primary -> Bucket] /\ buckets' \in [Primary -> Bucket]
    BY <1>1, <1>2
  <2> QED
    BY <2>3, <2>4, ListSame
<1> DEFINE c == ListOf(entries, buckets, i)
           d == ListOf(entries', buckets', i)
<1>9. /\ \A n \in 0..N : c[n] = IF entries[i].used /\ w[n] # NIL
                               THEN Pair(entries, buckets, w[n]) ELSE <<NoKey, 0>>
      /\ \A n \in 0..N : d[n] = IF entries'[i].used /\ z[n] # NIL
                               THEN Pair(entries', buckets', z[n]) ELSE <<NoKey, 0>>
  BY DEF ListOf
<1>10. /\ w[0] = i /\ z[0] = i
       /\ \A n \in 1..N+1 : z[n] = Follow(entries', z[n-1])
  BY <1>1, WalkFollows
<1>11. \A m, n \in 0..N+1 : m <= n /\ w[m] = NIL => w[n] = NIL
  BY <1>1, WalkStaysNil
<1>12. \A m, n \in 0..N+1 : m <= n /\ z[m] = NIL => z[n] = NIL
  BY <1>1, WalkStaysNil
<1>13. Adds(c, d, k, v)
  <2>1. CASE x \in Primary
    <3>1. x = i /\ ~entries[i].used /\ 0 \in 0..N /\ 1 \in 0..N+1 /\ 1 \in 1..N+1 /\ 1 - 1 = 0
      BY <1>1, <1>3, <1>6, <2>1 DEF UsedSlots
    <3> HIDE DEF i, w, z, c, d
    <3>2. z[1] = NIL
      BY <1>3, <1>10, <3>1 DEF Follow
    <3>3. d[0] = <<k, v>>
      <4>1. i # NIL
        BY <1>1, Sizes
      <4> QED
        BY <1>3, <1>5, <1>9, <1>10, <3>1, <4>1
    <3>4. \A n \in 0..N : c[n][1] = NoKey
      BY <1>9, <3>1
    <3>5. \A n \in 0..N : n > 0 => d[n][1] = NoKey
      <4>1. \A n \in 0..N : n > 0 => n \in 0..N+1 /\ 1 <= n
        BY <1>1
      <4>2. \A n \in 0..N : n > 0 => z[n] = NIL
        BY <1>12, <3>1, <3>2, <4>1
      <4> QED
        BY <1>9, <4>2
    <3>6. \A n \in 0..N : ~(n < 0)
      BY <1>1
    <3> QED
      BY <3>1, <3>3, <3>4, <3>5, <3>6 DEF Adds
  <2>2. CASE x \in Collision
    <3>1. PICK q \in 0..N : q < N /\ w[q] = l /\ w[q+1] = NIL
      BY <1>7, <2>2
    <3>2. /\ q \in 0..N+1 /\ q + 1 \in 0..N /\ q + 1 \in 1..N+1 /\ (q + 1) - 1 = q
          /\ q + 2 \in 1..N+1 /\ (q + 2) - 1 = q + 1 /\ q + 1 \in 0..N+1 /\ q + 2 \in 0..N+1
      BY <1>1, <3>1
    <3>3. entries[i].used /\ l \in UsedSlots /\ entries'[i].used
      BY <1>1, <1>3, <1>6, <2>2 DEF UsedSlots
    <3>4. ASSUME NEW n \in 0..N+1, n <= q
          PROVE  z[n] = w[n] /\ w[n] \in UsedSlots
      <4>1. ASSUME NEW m \in 0..N+1, m < q, w[m] # NIL
            PROVE  entries'[w[m]].next = entries[w[m]].next
        <5>1. w[m] \in UsedSlots
          BY <1>1, <3>3, <4>1, WalkSteps
        <5>2. w[m] # l
          <6>1. SUFFICES ASSUME w[m] = w[q] PROVE FALSE
            BY <3>1
          <6>2. m = q
            BY <1>1, <3>2, <3>3, <4>1, <6>1, OnceOnChains
          <6> QED
            BY <4>1, <6>2
        <5> HIDE DEF w
        <5> QED
          BY <1>3, <5>1, <5>2
      <4>2. \A m \in 0..q : z[m] = w[m]
        <5>1. \A m \in 0..N+1 : m < q /\ w[m] # NIL =>
                entries'[w[m]].next = entries[w[m]].next
          BY <4>1
        <5>2. entries \in [Slots -> Entry] /\ entries' \in [Slots -> Entry] /\ i \in Slots
              /\ q \in 0..N+1
          BY <1>1, <3>2
        <5> HIDE DEF i
        <5> QED
          BY <5>1, <5>2, WalkSame
      <4>3. n \in 0..q
        BY <1>1, <3>4
      <4>4. w[n] # NIL
        <5> HIDE DEF w
        <5> QED
          BY <1>1, <1>11, <3>1, <3>2, <3>3, <3>4
      <4>5. w[n] \in UsedSlots
        BY <1>1, <3>3, <4>4, WalkSteps
      <4> QED
        BY <4>2, <4>3, <4>5
    <3> HIDE DEF i, w, z, c, d
    <3>5. z[q] = l
      BY <1>1, <3>1, <3>2, <3>4
    <3>6. z[q+1] = x
      <4>1. N + entries'[l].next = x
        BY <3>3 DEF Grows
      <4>2. entries'[l].next # NIL /\ l # NIL
        <5>1. N + NIL \notin Collision
          BY Sizes DEF Collision, NIL
        <5> QED
          BY <1>1, <2>2, <3>3, <4>1, <5>1
      <4>3. z[q+1] = Follow(entries', l)
        BY <1>10, <3>2, <3>5
      <4> QED
        BY <4>1, <4>2, <4>3 DEF Follow
    <3>7. z[q+2] = NIL
      <4>1. z[q+2] = Follow(entries', x)
        BY <1>10, <3>2, <3>6
      <4> QED
        BY <1>3, <4>1 DEF Follow
    <3>8. d[q+1] = <<k, v>>
      <4>1. x # NIL
        BY <1>3, Sizes
      <4> QED
        BY <1>5, <1>9, <3>2, <3>3, <3>6, <4>1
    <3>9. ASSUME NEW n \in 0..N
          PROVE  /\ n < q + 1 => d[n] = c[n]
                 /\ n >= q + 1 => c[n][1] = NoKey
                 /\ n > q + 1 => d[n][1] = NoKey
      <4>1. n \in 0..N+1 /\ (n < q + 1 => n <= q) /\ (n > q + 1 => q + 2 <= n)
        BY <1>1, <3>1
      <4>2. ASSUME n < q + 1
            PROVE  d[n] = c[n]
        <5>1. z[n] = w[n] /\ w[n] \in UsedSlots
          BY <3>4, <4>1, <4>2
        <5> QED
          BY <1>1, <1>4, <1>9, <3>3, <5>1
      <4>3. ASSUME n >= q + 1
            PROVE  c[n][1] = NoKey
        <5>1. w[n] = NIL
          BY <1>11, <3>1, <3>2, <4>1, <4>3
        <5> QED
          BY <1>9, <5>1
      <4>4. ASSUME n > q + 1
            PROVE  d[n][1] = NoKey
        <5>1. z[n] = NIL
          BY <1>12, <3>2, <3>7, <4>1, <4>4
        <5> QED
          BY <1>9, <5>1
      <4> QED
        BY <4>2, <4>3, <4>4
    <3> QED
      BY <3>2, <3>8, <3>9 DEF Adds
  <2> QED
    BY <1>3, <2>1, <2>2, Sizes
<1> HIDE DEF i
<1> QED
  BY <1>1, <1>8, <1>13, ChainIsList DEF i

\* the values in the buckets stay, whether the buckets are in use or not
SameValues(bkt, bkt1) ==
  bkt1 \in [Primary -> Bucket] /\ \A b \in Primary : bkt1[b].val = bkt[b].val

\* a removal takes the first place of its key out of the list, and no other
LEMMA FreeLists ==
  ASSUME NEW ent, NEW bkt, NEW cnt, NEW ent1, NEW bkt1,
         TIn(ent, bkt, cnt), CIn(ent), NEW k \in Keys, Matches(ent, k) # {}, NEW g \in Slots,
         FreesIn(ent, ent1, Found(ent, k), g), FreesChainIn(ent, ent1, Found(ent, k), g),
         SameValues(bkt, bkt1)
  PROVE  /\ Drops(ListOf(ent, bkt, Index[k]), ListOf(ent1, bkt1, Index[k]), k)
         /\ \A j \in Primary : j # Index[k] => ListOf(ent1, bkt1, j) = ListOf(ent, bkt, j)
<1> DEFINE i == Index[k]
           w == Walk(ent, i)
           z == Walk(ent1, i)
           s == Found(ent, k)
           p == FirstMatch(ent, k)
           c == ListOf(ent, bkt, i)
           d == ListOf(ent1, bkt1, i)
<1>1. /\ TypedIn(ent, bkt, cnt) /\ LinksIn(ent)
      /\ ent \in [Slots -> Entry] /\ ent1 \in [Slots -> Entry]
      /\ bkt \in [Primary -> Bucket] /\ N \in Nat
      /\ i \in Primary /\ i \in Slots /\ i \notin Collision
      /\ bkt1 \in [Primary -> Bucket] /\ \A b \in Primary : bkt1[b].val = bkt[b].val
  BY TableAssumption, Sizes DEF TIn, TypedIn, Primary, Bucket, FreesIn, SameValues
<1>u. \A t \in UsedIn(ent) : t \in Slots /\ t # NIL /\ ent[t].used
  BY <1>1, LinkFactsIn
<1>2. FirstPlace(c, k, p) /\ ent[i].used /\ s = w[p]
  BY <1>1, MatchPlaces
<1>s. s \in UsedIn(ent)
  BY <1>1, FoundFacts
<1>3. /\ g \in UsedIn(ent)
      /\ \A t \in Slots : ent1[t].used <=> ent[t].used /\ t # g
      /\ \A t \in UsedIn(ent) \ {g} :
           ent1[t].next = IF ent[t].next # NIL /\ N + ent[t].next = g
                          THEN ent[g].next ELSE ent[t].next
      /\ g # s => ent[s].next # NIL /\ N + ent[s].next = g
      /\ g \in Collision \/ ent[g].next = NIL
  BY DEF FreesIn, FreesChainIn
<1>4. \A t \in UsedIn(ent) \ {g} :
        Pair(ent1, bkt1, t) = IF t = s THEN Pair(ent, bkt, g)
                              ELSE Pair(ent, bkt, t)
  <2>1. TAKE t \in UsedIn(ent) \ {g}
  <2>2. /\ ent1[t].key = IF t = s THEN ent[g].key ELSE ent[t].key
        /\ ent1[t].bucket = IF t = s THEN ent[g].bucket ELSE ent[t].bucket
    BY <2>1 DEF FreesIn, FreesChainIn
  <2>3. ent[t].bucket \in Primary /\ ent[g].bucket \in Primary
    BY <1>1, <1>3, <1>u, <2>1, EntryFields
  <2>4. /\ bkt1[ent[t].bucket].val = bkt[ent[t].bucket].val
        /\ bkt1[ent[g].bucket].val = bkt[ent[g].bucket].val
    BY <1>1, <2>3
  <2> HIDE DEF s
  <2> QED
    BY <2>2, <2>4 DEF Pair
\* the walk from i, and where it passes an entry
<1>w. /\ w[0] = i /\ z[0] = i
      /\ \A n \in 1..N+1 : z[n] = Follow(ent1, z[n-1])
      /\ \A n \in 0..N+1 : w[n] \in UsedIn(ent) \cup {NIL}
      /\ \A n \in 0..N : w[n] \in UsedIn(ent) =>
           w[n+1] = IF ent[w[n]].next = NIL THEN NIL ELSE N + ent[w[n]].next
      /\ \A n \in 1..N+1 : w[n] # NIL =>
           /\ n - 1 \in 0..N+1 /\ w[n-1] \in UsedIn(ent)
           /\ ent[w[n-1]].next # NIL /\ w[n] = N + ent[w[n-1]].next
  BY <1>1, <1>2, WalkFollows, WalkStepsIn
<1>5. \A m, n \in 0..N+1 : w[m] = w[n] /\ w[m] # NIL => m = n
  BY <1>1, <1>2, OnceOnChainsIn
<1>6. w[N] = NIL /\ w[N+1] = NIL
  <2>1. w[N] = NIL
    BY <1>1, <1>2, WalkEndsIn
  <2>2. N \in 0..N+1 /\ N + 1 \in 0..N+1 /\ N + 1 >= N
    BY <1>1
  <2> QED
    BY <1>1, <2>1, <2>2, WalkStaysNil
<1>p. p \in 0..N /\ p \in 0..N+1
  BY <1>1, <1>2 DEF FirstPlace
<1>7. PICK r \in 0..N : /\ w[r] = g
                        /\ (r = p /\ g = s) \/ (r = p + 1 /\ g # s)
  <2>1. CASE g = s
    BY <1>2, <1>p, <2>1
  <2>2. CASE g # s
    <3> HIDE DEF w, s, p
    <3>1. w[p+1] = g
      BY <1>2, <1>3, <1>p, <1>s, <1>w, <2>2
    <3>2. p # N
      BY <1>2, <1>6, <1>s, <1>u
    <3>3. p + 1 \in 0..N
      BY <1>1, <1>p, <3>2
    <3> QED
      BY <2>2, <3>1, <3>3
  <2> QED
    BY <2>1, <2>2
<1>8. ASSUME NEW j \in Primary, j # i
      PROVE  ListOf(ent1, bkt1, j) = ListOf(ent, bkt, j)
  <2> DEFINE v == Walk(ent, j)
  <2>1. ASSUME ent[j].used, NEW n \in 0..N+1, NEW m \in 0..N+1, v[n] = w[m], w[m] # NIL
        PROVE  FALSE
    BY <1>1, <1>2, <1>8, <2>1, OnceOnChainsIn
  <2>2. r \in 0..N+1 /\ j \in Slots
    BY <1>1, <1>7, Sizes
  <2>3. ASSUME ent[j].used
        PROVE  /\ \A n \in 0..N+1 : v[n] \in UsedIn(ent) \cup {NIL}
               /\ \A n \in 0..N : v[n] \in UsedIn(ent) =>
                    v[n+1] = IF ent[v[n]].next = NIL THEN NIL ELSE N + ent[v[n]].next
               /\ v[0] = j /\ v[N] = NIL
    BY <1>1, <2>3, WalkStepsIn, WalkEndsIn
  <2>4. v[N+1] = NIL \/ ~ent[j].used
    <3>1. N \in 0..N+1 /\ N + 1 \in 0..N+1 /\ N + 1 >= N
      BY <1>1
    <3> QED
      BY <1>1, <2>2, <2>3, <3>1, WalkStaysNil
  <2> HIDE DEF v, w, s, p
  <2>5. ent[j].used <=> ent1[j].used
    <3>1. ent[j].used => j # g
      <4>1. 0 \in 0..N+1
        BY <1>1
      <4> QED
        BY <1>3, <1>7, <1>u, <2>1, <2>2, <2>3, <4>1
    <3> QED
      BY <1>3, <2>2, <3>1
  <2>6. ASSUME NEW n \in 0..N+1, ent[j].used, v[n] # NIL
        PROVE  /\ ent1[v[n]].next = ent[v[n]].next
               /\ Pair(ent1, bkt1, v[n]) = Pair(ent, bkt, v[n])
    <3>1. v[n] \in UsedIn(ent) /\ n \in 0..N /\ n + 1 \in 0..N+1
      <4>1. n # N + 1
        BY <2>4, <2>6
      <4> QED
        BY <1>1, <2>3, <2>6, <4>1
    <3>2. v[n] # g
      BY <1>3, <1>7, <1>u, <2>1, <2>2, <2>6
    <3>3. v[n] # s
      BY <1>2, <1>p, <1>s, <1>u, <2>1, <2>6
    <3>4. ~(ent[v[n]].next # NIL /\ N + ent[v[n]].next = g)
      <4>1. SUFFICES ASSUME ent[v[n]].next # NIL, N + ent[v[n]].next = g PROVE FALSE
        OBVIOUS
      <4>2. v[n+1] = g
        BY <2>3, <2>6, <3>1, <4>1
      <4> QED
        BY <1>3, <1>7, <1>u, <2>1, <2>2, <2>6, <3>1, <4>2
    <3> QED
      BY <1>3, <1>4, <3>1, <3>2, <3>3, <3>4
  <2>7. SameAlong(ent, bkt, ent1, bkt1, j)
    BY <2>5, <2>6 DEF SameAlong, v
  <2> QED
    BY <1>1, <2>7, ListSame
<1>9. /\ \A n \in 0..N : c[n] = IF ent[i].used /\ w[n] # NIL
                               THEN Pair(ent, bkt, w[n]) ELSE <<NoKey, 0>>
      /\ \A n \in 0..N : d[n] = IF ent1[i].used /\ z[n] # NIL
                               THEN Pair(ent1, bkt1, z[n]) ELSE <<NoKey, 0>>
  BY DEF ListOf
<1>10. ASSUME r = 0
       PROVE  Drops(c, d, k)
  <2> HIDE DEF i, w, z, s, p, c, d
  <2>1. p = 0 /\ g = s /\ g = i
    BY <1>7, <1>10, <1>p, <1>w
  <2>2. ~ent1[i].used /\ ent[g].next = NIL
    BY <1>1, <1>3, <2>1
  <2>3. w[1] = NIL
    <3>1. 0 \in 0..N /\ 0 + 1 = 1
      BY <1>1
    <3> QED
      BY <1>3, <1>7, <1>10, <1>w, <2>2, <3>1
  <2>4. \A n \in 0..N : n > 0 => c[n] = <<NoKey, 0>>
    <3>1. \A n \in 0..N : n > 0 => n \in 0..N+1 /\ n >= 1 /\ 1 \in 0..N+1
      BY <1>1
    <3>2. \A n \in 0..N : n > 0 => w[n] = NIL
      BY <1>1, <2>3, <3>1, WalkStaysNil DEF w
    <3> QED
      BY <1>9, <3>2
  <2>5. \A n \in 0..N : d[n] = <<NoKey, 0>>
    BY <1>9, <2>2
  <2>6. ASSUME NEW n \in 0..N
        PROVE  /\ n < 0 => d[n] = c[n]
               /\ 0 <= n /\ n < N => d[n] = c[n+1]
    <3>1. n < N => n + 1 \in 0..N /\ n + 1 > 0
      BY <1>1
    <3> QED
      BY <1>1, <2>4, <2>5, <3>1
  <2>7. N \in 0..N
    BY <1>1
  <2>8. FirstPlace(c, k, 0) /\ 0 \in 0..N
    BY <1>1, <1>2, <2>1
  <2>9. d[N][1] = NoKey
    BY <2>5, <2>7
  <2> QED
    BY <2>6, <2>8, <2>9 DEF Drops
<1>11. ASSUME r > 0
       PROVE  Drops(c, d, k)
  <2>1. ent1[i].used
    <3>1. i # g
      <4> HIDE DEF w
      <4>1. 0 \in 0..N+1 /\ r \in 0..N+1 /\ r # 0
        BY <1>1, <1>7, <1>11
      <4> QED
        BY <1>3, <1>5, <1>7, <1>u, <1>w, <4>1
    <3> QED
      BY <1>1, <1>2, <1>3, <3>1
  <2>2. \A n \in 0..N : w[n] \in UsedIn(ent) /\ n # r => w[n] # g
    <3> HIDE DEF w
    <3>1. \A n \in 0..N : n \in 0..N+1
      BY <1>1
    <3> QED
      BY <1>3, <1>5, <1>7, <1>u, <3>1
  \* only the entry before g leads to it
  <2>3. ASSUME NEW n \in 0..N, w[n] \in UsedIn(ent), n # r, n + 1 # r
        PROVE  ent1[w[n]].next = ent[w[n]].next
    <3> HIDE DEF w
    <3>1. w[n] # g
      BY <2>2, <2>3
    <3>2. ~(ent[w[n]].next # NIL /\ N + ent[w[n]].next = g)
      <4>1. SUFFICES ASSUME ent[w[n]].next # NIL, N + ent[w[n]].next = g PROVE FALSE
        OBVIOUS
      <4>2. w[n+1] = g
        BY <1>w, <2>3, <4>1
      <4>3. n + 1 \in 0..N+1 /\ r \in 0..N+1
        BY <1>1, <1>7
      <4> QED
        BY <1>3, <1>5, <1>7, <1>u, <2>3, <4>2, <4>3
    <3> QED
      BY <1>3, <2>3, <3>1, <3>2
  <2>4. r - 1 \in 0..N+1 /\ r - 1 \in 0..N /\ r \in 1..N+1 /\ r \in 0..N+1
    BY <1>1, <1>7, <1>11
  <2>5. \A n \in 0..r-1 : z[n] = w[n]
    <3>1. ASSUME NEW n \in 0..N+1, n < r - 1, w[n] # NIL
          PROVE  ent1[w[n]].next = ent[w[n]].next
      <4>1. n \in 0..N /\ n # r /\ n + 1 # r
        BY <1>1, <1>7, <3>1
      <4>2. w[n] \in UsedIn(ent)
        BY <1>w, <3>1
      <4> HIDE DEF w
      <4> QED
        BY <2>3, <4>1, <4>2
    <3>2. \A n \in 0..N+1 : n < r - 1 /\ w[n] # NIL => ent1[w[n]].next = ent[w[n]].next
      BY <3>1
    <3>3. ent \in [Slots -> Entry] /\ ent1 \in [Slots -> Entry] /\ i \in Slots
      BY <1>1
    <3> HIDE DEF i
    <3> QED
      BY <2>4, <3>2, <3>3, WalkSame
  <2> HIDE DEF i, w, z, s, p, c, d
  <2>6. \A n \in r..N : z[n] = w[n+1]
    <3> DEFINE S == {n \in Nat : z[n] = w[n+1]}
    <3>1. z[r] = w[r+1]
      <4>1. w[r-1] \in UsedIn(ent) /\ ent[w[r-1]].next # NIL /\ g = N + ent[w[r-1]].next
        BY <1>3, <1>7, <1>u, <1>w, <2>4
      <4>2. w[r-1] # g
        <5>1. r - 1 # r
          BY <2>4
        <5> QED
          BY <2>2, <2>4, <4>1, <5>1
      <4>3. ent1[w[r-1]].next = ent[g].next
        BY <1>3, <4>1, <4>2
      <4>4. z[r] = Follow(ent1, w[r-1])
        <5>1. r - 1 \in 0..r-1
          BY <2>4
        <5>2. z[r-1] = w[r-1]
          BY <2>5, <5>1
        <5> QED
          BY <1>w, <2>4, <5>2
      <4>5. z[r] = IF ent[g].next = NIL THEN NIL ELSE N + ent[g].next
        BY <1>u, <4>1, <4>3, <4>4 DEF Follow
      <4>6. w[r+1] = IF ent[g].next = NIL THEN NIL ELSE N + ent[g].next
        BY <1>3, <1>7, <1>w
      <4> QED
        BY <4>5, <4>6
    <3>2. ASSUME NEW n \in r..N, n < N, n \in S
          PROVE  n + 1 \in S
      <4>1. /\ n + 1 \in 1..N+1 /\ (n + 1) - 1 = n /\ n + 1 \in Nat /\ n + 1 \in 0..N
            /\ n + 1 \in 0..N+1 /\ n + 1 # r /\ (n + 1) + 1 # r
        BY <1>1, <1>7, <3>2
      <4>2. z[n+1] = Follow(ent1, w[n+1])
        BY <1>w, <3>2, <4>1
      <4>3. CASE w[n+1] = NIL
        <5>1. (n + 1) + 1 \in 0..N+1 /\ (n + 1) + 1 >= n + 1
          BY <1>1, <4>1
        <5>2. w[(n+1)+1] = NIL
          BY <1>1, <4>1, <4>3, <5>1, WalkStaysNil DEF w
        <5>3. z[n+1] = NIL
          BY <4>2, <4>3 DEF Follow
        <5> QED
          BY <4>1, <5>2, <5>3
      <4>4. CASE w[n+1] # NIL
        <5>1. w[n+1] \in UsedIn(ent)
          BY <1>w, <4>1, <4>4
        <5>2. ent1[w[n+1]].next = ent[w[n+1]].next
          BY <2>3, <4>1, <5>1
        <5>3. w[(n+1)+1] = IF ent[w[n+1]].next = NIL THEN NIL ELSE N + ent[w[n+1]].next
          BY <1>w, <4>1, <5>1
        <5>4. z[n+1] = w[(n+1)+1]
          BY <4>2, <4>4, <5>2, <5>3 DEF Follow
        <5> QED
          BY <4>1, <5>4
      <4> QED
        BY <4>3, <4>4
    <3>3. r \in S /\ S \in SUBSET Nat /\ r \in Nat
      BY <2>4, <3>1
    <3>4. \A n \in r..N : n \in S
      <4> HIDE DEF S
      <4> QED
        BY <1>1, <3>2, <3>3, Upwards
    <3> QED
      BY <3>4
  <2>7. p <= r
    BY <1>7, <1>p
  <2>8. ASSUME NEW n \in 0..N, n < p
        PROVE  d[n] = c[n]
    <3>1. n \in 0..r-1 /\ n \in 0..N+1 /\ n # p /\ n # r
      BY <1>1, <1>7, <1>p, <2>8
    <3>2. z[n] = w[n] /\ w[n] \in UsedIn(ent) \cup {NIL}
      BY <1>w, <2>5, <3>1
    <3>3. w[n] # NIL => w[n] # s
      BY <1>2, <1>5, <1>p, <1>s, <1>u, <3>1
    <3>4. w[n] # NIL => w[n] # g /\ w[n] \in UsedIn(ent)
      BY <2>2, <3>1, <3>2
    <3>5. w[n] # NIL => Pair(ent1, bkt1, w[n]) = Pair(ent, bkt, w[n])
      BY <1>4, <3>3, <3>4
    <3> QED
      BY <1>2, <1>9, <2>1, <3>2, <3>5
  \* the place of an entry that g was copied over
  <2>9. ASSUME p < r
        PROVE  p < N /\ d[p] = c[p+1]
    <3>1. r = p + 1 /\ g # s
      BY <1>7, <1>p, <2>9
    <3>2. p \in 0..r-1 /\ p < N
      BY <1>1, <1>p, <1>7, <3>1
    <3>3. z[p] = s
      BY <1>2, <2>5, <3>2
    <3>4. d[p] = Pair(ent, bkt, g)
      BY <1>4, <1>9, <1>p, <1>s, <1>u, <2>1, <3>1, <3>3
    <3>5. c[r] = Pair(ent, bkt, g)
      BY <1>2, <1>3, <1>7, <1>9, <1>u
    <3> QED
      BY <3>1, <3>2, <3>4, <3>5
  <2>10. ASSUME NEW n \in 0..N, n >= r
         PROVE  d[n] = IF n < N THEN c[n+1] ELSE <<NoKey, 0>>
    <3>1. z[n] = w[n+1]
      <4>1. n \in r..N
        BY <1>7, <2>10
      <4> QED
        BY <2>6, <4>1
    <3>2. CASE n < N
      <4>1. n + 1 \in 0..N /\ n + 1 \in 0..N+1 /\ n + 1 # r /\ n + 1 # p
        BY <1>1, <1>7, <1>p, <2>7, <2>10, <3>2
      <4>2. w[n+1] # NIL => w[n+1] \in UsedIn(ent) /\ w[n+1] # g
        BY <1>w, <2>2, <4>1
      <4>3. w[n+1] # NIL => w[n+1] # s
        BY <1>2, <1>5, <1>p, <1>s, <1>u, <4>1
      <4>4. w[n+1] # NIL => Pair(ent1, bkt1, w[n+1]) = Pair(ent, bkt, w[n+1])
        BY <1>4, <4>2, <4>3
      <4> QED
        BY <1>2, <1>9, <2>1, <3>1, <3>2, <4>1, <4>4
    <3>3. CASE n = N
      <4>1. z[n] = NIL
        BY <1>6, <3>1, <3>3
      <4> QED
        BY <1>9, <3>3, <4>1
    <3> QED
      BY <1>1, <2>10, <3>2, <3>3
  <2>11. ASSUME NEW n \in 0..N
         PROVE  /\ n < p => d[n] = c[n]
                /\ p <= n /\ n < N => d[n] = c[n+1]
    <3>1. CASE n < p
      BY <1>p, <2>8, <3>1
    <3>2. CASE n = p /\ p < r
      BY <2>9, <3>2
    <3>3. CASE n >= r
      BY <1>7, <2>7, <2>8, <2>10, <3>3
    <3> QED
      BY <1>7, <1>p, <3>1, <3>2, <3>3
  <2>12. d[N][1] = NoKey
    <3>1. N \in 0..N /\ N >= r /\ ~(N < N)
      BY <1>1, <1>7
    <3>2. d[N] = <<NoKey, 0>>
      BY <2>10, <3>1
    <3> QED
      BY <3>2
  <2> QED
    BY <1>2, <1>p, <2>11, <2>12 DEF Drops
<1>12. Drops(c, d, k)
  <2>1. r = 0 \/ r > 0
    BY <1>7
  <2> HIDE DEF c, d
  <2> QED
    BY <1>10, <1>11, <2>1
<1> HIDE DEF i
<1> QED
  BY <1>1, <1>8, <1>12 DEF i

-------------------------------------------------------------------------------
(* What a step does to the queues                                          *)

\* shmht_search returns the length kept in the entry with the bucket's bytes
Sized == \A s \in UsedSlots : entries[s].size = buckets[entries[s].bucket].val

Counted == IsFiniteSet(Spots(Queues)) /\ Cardinality(Spots(Queues)) = entrycount

QInv == TInv /\ CInv /\ Sized /\ Counted

\* of any arrays of entries and buckets, and any counter
QueueOf(e, b) == [k \in Keys |-> Under(ListOf(e, b, Index[k]), k)[N+1]]

SizedIn(ent, bkt) == \A s \in UsedIn(ent) : ent[s].size = bkt[ent[s].bucket].val

CountedIn(ent, bkt, cnt) ==
  IsFiniteSet(Spots(QueueOf(ent, bkt))) /\ Cardinality(Spots(QueueOf(ent, bkt))) = cnt

QIn(ent, bkt, cnt) ==
  TIn(ent, bkt, cnt) /\ CIn(ent) /\ SizedIn(ent, bkt) /\ CountedIn(ent, bkt, cnt)

LEMMA HomeIndex ==
  \A k \in Keys : Index[k] \in Primary /\ Index[k] \in Slots
BY TableAssumption, Sizes DEF Primary

LEMMA StoredIsQueue ==
  Queues = QueueOf(entries, buckets) /\ Queues' = QueueOf(entries', buckets')
<1>1. \A k \in Keys : Chain(Index[k]) = ListOf(entries, buckets, Index[k])
  BY HomeIndex, ChainIsList
<1>2. \A k \in Keys : Chain(Index[k])' = ListOf(entries', buckets', Index[k])
  BY HomeIndex, ChainIsList
<1>3. Queues = [k \in Keys |-> Under(Chain(Index[k]), k)[N+1]]
  BY DEF Queues
<1>4. Queues' = [k \in Keys |-> Under(Chain(Index[k])', k)[N+1]]
  BY DEF Queues
<1> QED
  BY <1>1, <1>2, <1>3, <1>4 DEF QueueOf

LEMMA InvIsQIn ==
  /\ Sized <=> SizedIn(entries, buckets)
  /\ Sized' <=> SizedIn(entries', buckets')
  /\ Counted <=> CountedIn(entries, buckets, entrycount)
  /\ Counted' <=> CountedIn(entries', buckets', entrycount')
<1>1. UsedSlots = UsedIn(entries) /\ UsedSlots' = UsedIn(entries')
  BY DEF UsedSlots, UsedIn
<1>2. Sized <=> SizedIn(entries, buckets)
  BY <1>1 DEF Sized, SizedIn
<1>3. Sized' <=> SizedIn(entries', buckets')
  BY <1>1 DEF Sized, SizedIn
<1>4. PICK q, r : q = Queues /\ r = Queues'
  OBVIOUS
<1>5. q = QueueOf(entries, buckets) /\ r = QueueOf(entries', buckets')
  BY <1>4, StoredIsQueue
<1>6. Counted <=> (IsFiniteSet(Spots(q)) /\ Cardinality(Spots(q)) = entrycount)
  BY <1>4 DEF Counted
<1>7. Counted' <=> (IsFiniteSet(Spots(r)) /\ Cardinality(Spots(r)) = entrycount')
  BY <1>4 DEF Counted
<1> QED
  BY <1>2, <1>3, <1>5, <1>6, <1>7 DEF CountedIn

LEMMA QueueTyped ==
  ASSUME NEW e \in [Slots -> Entry], NEW b \in [Primary -> Bucket]
  PROVE  QueueOf(e, b) \in [Keys -> Seq(Nat)]
<1>1. N + 1 \in 0..N+1
  BY Sizes
<1>2. ASSUME NEW k \in Keys
      PROVE  Under(ListOf(e, b, Index[k]), k)[N+1] \in Seq(Nat)
  <2>1. ListOf(e, b, Index[k]) \in Chains
    BY HomeIndex, ListTyped
  <2> QED
    BY <1>1, <2>1, UnderSteps
<1> QED
  BY <1>2 DEF QueueOf

LEMMA NoQueues ==
  ASSUME NEW e \in [Slots -> Entry], NEW b \in [Primary -> Bucket],
         \A s \in Slots : ~e[s].used
  PROVE  /\ QueueOf(e, b) = [k \in Keys |-> <<>>]
         /\ IsFiniteSet(Spots(QueueOf(e, b))) /\ Cardinality(Spots(QueueOf(e, b))) = 0
<1>1. ASSUME NEW k \in Keys
      PROVE  Under(ListOf(e, b, Index[k]), k)[N+1] = <<>>
  <2> DEFINE c == ListOf(e, b, Index[k])
  <2>1. c \in Chains
    BY HomeIndex, ListTyped
  <2>2. \A n \in 0..N : c[n][1] # k
    <3>1. ~e[Index[k]].used /\ k # NoKey
      BY HomeIndex, TableAssumption
    <3> QED
      BY <3>1 DEF ListOf
  <2>3. 0 \in 0..N+1
    BY Sizes
  <2> HIDE DEF c
  <2>4. Under(c, k)[N+1] = Under(c, k)[0]
    BY <2>1, <2>2, <2>3, UnderRest
  <2>5. Under(c, k)[0] = <<>>
    BY <2>1, UnderSteps
  <2> QED
    BY <2>4, <2>5 DEF c
<1>2. QueueOf(e, b) = [k \in Keys |-> <<>>]
  BY <1>1 DEF QueueOf
<1>3. Spots([k \in Keys |-> <<>>]) = {}
  BY DEF Spots
<1> QED
  BY <1>2, <1>3, FS_EmptySet

\* the queues r hold one value more than the queues q, under k
OneMore(q, r, k) == Len(r[k]) = Len(q[k]) + 1 /\ \A j \in Keys : j # k => r[j] = q[j]

LEMMA CountedSpots ==
  ASSUME NEW q \in [Keys -> Seq(Nat)], NEW r \in [Keys -> Seq(Nat)], NEW k \in Keys,
         OneMore(q, r, k)
  PROVE  /\ IsFiniteSet(Spots(q)) => /\ IsFiniteSet(Spots(r))
                                     /\ Cardinality(Spots(r)) = Cardinality(Spots(q)) + 1
         /\ IsFiniteSet(Spots(r)) => /\ IsFiniteSet(Spots(q))
                                     /\ Cardinality(Spots(q)) \in Nat
                                     /\ Cardinality(Spots(r)) = Cardinality(Spots(q)) + 1
<1>1. Len(r[k]) = Len(q[k]) + 1
  BY DEF OneMore
<1>2. \A j \in Keys : j # k => r[j] = q[j]
  BY DEF OneMore
<1>3. /\ IsFiniteSet(Spots(q)) <=> IsFiniteSet(Spots(r))
      /\ IsFiniteSet(Spots(q)) => /\ Cardinality(Spots(q)) \in Nat
                                  /\ Cardinality(Spots(r)) = Cardinality(Spots(q)) + 1
  BY <1>1, <1>2, OneSpotMore
<1> QED
  BY <1>3

\* what an insert that adds to one list does to the queues
LEMMA GrowQueues ==
  ASSUME TInv, TInv', CInv, Sized, Counted, NEW k \in Keys, NEW v \in Nat,
         NEW x \in Slots, NEW l \in Slots \cup {NIL}, NEW b \in Primary, ~buckets[b].used,
         Grows(entries', x, l, b), GrowsInChain(entries', x, l, k, v),
         buckets' \in [Primary -> Bucket], buckets'[b].val = v,
         \A c \in Primary : c # b => buckets'[c] = buckets[c],
         entrycount' = entrycount + 1
  PROVE  Queues' = [Queues EXCEPT ![k] = Append(@, v)] /\ Sized' /\ Counted'
<1>1. /\ TypeOK /\ BucketsOwned
      /\ entries \in [Slots -> Entry] /\ entries' \in [Slots -> Entry]
      /\ buckets \in [Primary -> Bucket] /\ buckets' \in [Primary -> Bucket]
  BY DEF TInv, TypeOK, Bucket
<1>2. Queues \in [Keys -> Seq(Nat)] /\ Queues' \in [Keys -> Seq(Nat)]
  <2>1. QueueOf(entries, buckets) \in [Keys -> Seq(Nat)]
    BY <1>1, QueueTyped
  <2>2. QueueOf(entries', buckets') \in [Keys -> Seq(Nat)]
    BY <1>1, QueueTyped
  <2> QED
    BY <2>1, <2>2, StoredIsQueue
<1>3. /\ Adds(Chain(Index[k]), Chain(Index[k])', k, v)
      /\ \A j \in Primary : j # Index[k] => Chain(j)' = Chain(j)
  BY GrowLists
<1>4. \A i \in Primary : Chain(i) \in Chains /\ Chain(i)' \in Chains
  <2>1. TAKE i \in Primary
  <2>2. ListOf(entries, buckets, i) \in Chains
    BY <1>1, ListTyped
  <2>3. ListOf(entries', buckets', i) \in Chains
    BY <1>1, ListTyped
  <2> QED
    BY <2>2, <2>3, ChainIsList
<1>5. ASSUME NEW j \in Keys
      PROVE  Queues'[j] = IF j = k THEN Append(Queues[j], v) ELSE Queues[j]
  <2>1. /\ Queues[j] = Under(Chain(Index[j]), j)[N+1]
        /\ Queues'[j] = Under(Chain(Index[j])', j)[N+1]
    BY DEF Queues
  <2>2. CASE Index[j] = Index[k]
    <3>1. PICK c \in Chains, d \in Chains : c = Chain(Index[k]) /\ d = Chain(Index[k])'
      BY <1>4, HomeIndex
    <3>2. Under(d, j)[N+1] = IF j = k THEN Append(Under(c, j)[N+1], v) ELSE Under(c, j)[N+1]
      BY <1>3, <3>1, QueueGrows
    <3> QED
      BY <2>1, <2>2, <3>1, <3>2
  <2>3. CASE Index[j] # Index[k]
    BY <1>3, <2>1, <2>3, HomeIndex
  <2> QED
    BY <2>2, <2>3
<1>6. Queues' = [Queues EXCEPT ![k] = Append(@, v)]
  BY <1>2, <1>5
<1>7. Sized'
  <2>1. SUFFICES ASSUME NEW s \in UsedSlots'
                 PROVE  entries'[s].size = buckets'[entries'[s].bucket].val
    BY DEF Sized
  <2>2. CASE s = x
    BY <2>2 DEF Grows, GrowsInChain
  <2>3. CASE s \in UsedSlots
    <3>1. entries'[s].size = entries[s].size /\ entries'[s].bucket = entries[s].bucket
      BY <2>3 DEF Grows, GrowsInChain
    <3>2. entries[s].bucket \in Primary /\ entries[s].bucket # b
      BY <1>1, <2>3, EntryFields DEF BucketsOwned, UsedSlots
    <3> QED
      BY <2>3, <3>1, <3>2 DEF Sized
  <2>4. s = x \/ s \in UsedSlots
    BY <2>1 DEF Grows, UsedSlots
  <2> QED
    BY <2>2, <2>3, <2>4
<1>8. Counted'
  <2>1. PICK q \in [Keys -> Seq(Nat)], r \in [Keys -> Seq(Nat)] : q = Queues /\ r = Queues'
    BY <1>2
  <2>2. Len(r[k]) = Len(q[k]) + 1
    <3>1. r[k] = Append(q[k], v) /\ q[k] \in Seq(Nat)
      BY <1>5, <2>1
    <3> QED
      BY <3>1
  <2>3. \A j \in Keys : j # k => r[j] = q[j]
    BY <1>5, <2>1
  <2>4. OneMore(q, r, k)
    BY <2>2, <2>3 DEF OneMore
  <2> QED
    BY <2>1, <2>4, CountedSpots DEF Counted
<1> QED
  BY <1>6, <1>7, <1>8

\* the queues r are the queues q without the head of that of k
HeadLost(q, r, k) == q[k] # <<>> /\ r = [q EXCEPT ![k] = Tail(@)]

\* what a removal that finds its key does to the queues
LEMMA FreeQueues ==
  ASSUME NEW ent, NEW bkt, NEW cnt, NEW ent1, NEW bkt1, NEW cnt1,
         TIn(ent, bkt, cnt), TIn(ent1, bkt1, cnt1), CIn(ent),
         SizedIn(ent, bkt), CountedIn(ent, bkt, cnt), NEW k \in Keys, Matches(ent, k) # {},
         NEW g \in Slots,
         FreesIn(ent, ent1, Found(ent, k), g), FreesChainIn(ent, ent1, Found(ent, k), g),
         SameValues(bkt, bkt1), cnt1 = cnt - 1
  PROVE  /\ HeadLost(QueueOf(ent, bkt), QueueOf(ent1, bkt1), k)
         /\ SizedIn(ent1, bkt1) /\ CountedIn(ent1, bkt1, cnt1)
<1>1. /\ TypedIn(ent, bkt, cnt)
      /\ ent \in [Slots -> Entry] /\ ent1 \in [Slots -> Entry]
      /\ bkt \in [Primary -> Bucket] /\ bkt1 \in [Primary -> Bucket]
      /\ \A b \in Primary : bkt1[b].val = bkt[b].val
  BY DEF TIn, TypedIn, Bucket, SameValues
<1>2. QueueOf(ent, bkt) \in [Keys -> Seq(Nat)] /\ QueueOf(ent1, bkt1) \in [Keys -> Seq(Nat)]
  <2>1. QueueOf(ent, bkt) \in [Keys -> Seq(Nat)]
    BY <1>1, QueueTyped
  <2>2. QueueOf(ent1, bkt1) \in [Keys -> Seq(Nat)]
    BY <1>1, QueueTyped
  <2> QED
    BY <2>1, <2>2
<1>3. /\ Drops(ListOf(ent, bkt, Index[k]), ListOf(ent1, bkt1, Index[k]), k)
      /\ \A j \in Primary : j # Index[k] => ListOf(ent1, bkt1, j) = ListOf(ent, bkt, j)
  BY FreeLists
<1>4. \A i \in Primary : ListOf(ent, bkt, i) \in Chains /\ ListOf(ent1, bkt1, i) \in Chains
  <2>1. TAKE i \in Primary
  <2>2. ListOf(ent, bkt, i) \in Chains
    BY <1>1, ListTyped
  <2>3. ListOf(ent1, bkt1, i) \in Chains
    BY <1>1, ListTyped
  <2> QED
    BY <2>2, <2>3
<1>5. ASSUME NEW j \in Keys
      PROVE  /\ j = k => QueueOf(ent, bkt)[j] # <<>>
             /\ QueueOf(ent1, bkt1)[j] =
                  IF j = k THEN Tail(QueueOf(ent, bkt)[j]) ELSE QueueOf(ent, bkt)[j]
  <2>1. /\ QueueOf(ent, bkt)[j] = Under(ListOf(ent, bkt, Index[j]), j)[N+1]
        /\ QueueOf(ent1, bkt1)[j] = Under(ListOf(ent1, bkt1, Index[j]), j)[N+1]
    BY DEF QueueOf
  <2>2. CASE Index[j] = Index[k]
    <3>1. PICK c \in Chains, d \in Chains :
            c = ListOf(ent, bkt, Index[k]) /\ d = ListOf(ent1, bkt1, Index[k])
      BY <1>4, HomeIndex
    <3>2. /\ j = k => Under(c, j)[N+1] # <<>>
          /\ Under(d, j)[N+1] = IF j = k THEN Tail(Under(c, j)[N+1]) ELSE Under(c, j)[N+1]
      BY <1>3, <3>1, QueueDrops
    <3> QED
      BY <2>1, <2>2, <3>1, <3>2
  <2>3. CASE Index[j] # Index[k]
    BY <1>3, <2>1, <2>3, HomeIndex
  <2> QED
    BY <2>2, <2>3
<1>6. HeadLost(QueueOf(ent, bkt), QueueOf(ent1, bkt1), k)
  BY <1>2, <1>5 DEF HeadLost
<1>7. SizedIn(ent1, bkt1)
  <2>1. SUFFICES ASSUME NEW s \in UsedIn(ent1)
                 PROVE  ent1[s].size = bkt1[ent1[s].bucket].val
    BY DEF SizedIn
  <2> DEFINE t == IF s = Found(ent, k) THEN g ELSE s
  <2>2. s \in UsedIn(ent) \ {g} /\ g \in UsedIn(ent)
    BY <2>1 DEF FreesIn, UsedIn
  <2>3. t \in UsedIn(ent)
    BY <2>2
  <2>4. ent1[s].size = ent[t].size /\ ent1[s].bucket = ent[t].bucket
    BY <2>2 DEF FreesIn, FreesChainIn
  <2> HIDE DEF t
  <2>5. ent[t].bucket \in Primary
    BY <1>1, <2>3, EntryFields DEF UsedIn
  <2> QED
    BY <1>1, <2>3, <2>4, <2>5 DEF SizedIn
<1>8. CountedIn(ent1, bkt1, cnt1)
  <2>1. PICK q \in [Keys -> Seq(Nat)], r \in [Keys -> Seq(Nat)] :
          q = QueueOf(ent, bkt) /\ r = QueueOf(ent1, bkt1)
    BY <1>2
  <2>2. Len(q[k]) = Len(r[k]) + 1
    <3>1. r[k] = Tail(q[k]) /\ q[k] # <<>> /\ q[k] \in Seq(Nat)
      BY <1>5, <2>1
    <3> QED
      BY <3>1
  <2>3. \A j \in Keys : j # k => q[j] = r[j]
    BY <1>5, <2>1
  <2>4. OneMore(r, q, k)
    BY <2>2, <2>3 DEF OneMore
  <2>5. IsFiniteSet(Spots(q)) /\ Cardinality(Spots(q)) = cnt
    BY <2>1 DEF CountedIn
  <2>6. /\ IsFiniteSet(Spots(r)) /\ Cardinality(Spots(r)) \in Nat
        /\ cnt = Cardinality(Spots(r)) + 1
    BY <2>4, <2>5, CountedSpots
  <2>7. Cardinality(Spots(r)) = cnt1
    BY <2>6
  <2> QED
    BY <2>1, <2>6, <2>7 DEF CountedIn
<1> QED
  BY <1>6, <1>7, <1>8

\* a search that finds nothing: the queue is empty
LEMMA NoMatch ==
  ASSUME NEW ent, NEW bkt, NEW cnt,
         TIn(ent, bkt, cnt), CIn(ent), NEW k \in Keys, Matches(ent, k) = {}
  PROVE  QueueOf(ent, bkt)[k] = <<>>
<1>1. ListOf(ent, bkt, Index[k]) \in Chains
  <2>1. ent \in [Slots -> Entry] /\ bkt \in [Primary -> Bucket]
    BY DEF TIn, TypedIn, Bucket
  <2> QED
    BY <2>1, HomeIndex, ListTyped
<1>2. \A n \in 0..N : ListOf(ent, bkt, Index[k])[n][1] # k
  BY MatchPlaces
<1>3. PICK c \in Chains : c = ListOf(ent, bkt, Index[k])
  BY <1>1
<1>4. 0 \in 0..N+1
  BY Sizes
<1>5. Under(c, k)[N+1] = Under(c, k)[0]
  BY <1>2, <1>3, <1>4, UnderRest
<1>6. Under(c, k)[0] = <<>>
  BY UnderSteps
<1> QED
  BY <1>3, <1>5, <1>6 DEF QueueOf

\* a search that finds an entry: its bucket holds the head of the queue
LEMMA MatchIsHead ==
  ASSUME NEW ent, NEW bkt, NEW cnt,
         TIn(ent, bkt, cnt), CIn(ent), SizedIn(ent, bkt), NEW k \in Keys, Matches(ent, k) # {}
  PROVE  LET e == ent[Found(ent, k)]
         IN /\ QueueOf(ent, bkt)[k] # <<>>
            /\ bkt[e.bucket].val = Head(QueueOf(ent, bkt)[k])
            /\ e.size = Head(QueueOf(ent, bkt)[k])
<1> DEFINE p == FirstMatch(ent, k)
           s == Found(ent, k)
<1>1. /\ FirstPlace(ListOf(ent, bkt, Index[k]), k, p) /\ ent[Index[k]].used
      /\ s = Walk(ent, Index[k])[p]
  BY MatchPlaces
<1>2. s \in UsedIn(ent) /\ s # NIL
  <2>1. TypedIn(ent, bkt, cnt)
    BY DEF TIn
  <2>2. s \in UsedIn(ent)
    BY <2>1, FoundFacts
  <2> QED
    BY <2>2, Sizes DEF UsedIn
<1>3. PICK c \in Chains : c = ListOf(ent, bkt, Index[k])
  <2>1. ent \in [Slots -> Entry] /\ bkt \in [Primary -> Bucket]
    BY DEF TIn, TypedIn, Bucket
  <2> QED
    BY <2>1, HomeIndex, ListTyped
<1> HIDE DEF p
<1>4. p \in 0..N /\ N \in p..N
  BY <1>1, Sizes DEF FirstPlace
<1>5. c[p][2] = bkt[ent[s].bucket].val
  <2> HIDE DEF s
  <2> QED
    BY <1>1, <1>2, <1>3, <1>4 DEF ListOf, Pair
<1>6. Under(c, k)[N+1] # <<>> /\ Head(Under(c, k)[N+1]) = c[p][2]
  BY <1>1, <1>3, <1>4, QueueHead
<1>7. QueueOf(ent, bkt)[k] = Under(c, k)[N+1]
  BY <1>3 DEF QueueOf
<1>8. ent[s].size = bkt[ent[s].bucket].val
  BY <1>2 DEF SizedIn
<1> QED
  BY <1>5, <1>6, <1>7, <1>8

-------------------------------------------------------------------------------
(* Every step of the table is a step of the queues                         *)

LEMMA QueuesUntouched ==
  ASSUME Sized, Counted, entries' = entries, buckets' = buckets, entrycount' = entrycount
  PROVE  Queues' = Queues /\ Sized' /\ Counted'
<1>1. Queues' = Queues
  BY StoredIsQueue
<1>2. Sized'
  BY DEF Sized, UsedSlots
<1>3. Counted'
  <2>1. PICK q : q = Queues /\ q = Queues'
    BY <1>1
  <2>2. IsFiniteSet(Spots(q)) /\ Cardinality(Spots(q)) = entrycount'
    BY <2>1 DEF Counted
  <2> QED
    BY <2>1, <2>2 DEF Counted
<1> QED
  BY <1>1, <1>2, <1>3

LEMMA CountedSize ==
  Counted => Fifo!Size = entrycount
<1>1. Fifo!Positions = Spots(Queues)
  BY DEF Spots, Fifo!Positions
<1>2. ASSUME NEW S PROVE Fifo!Cardinality(S) = Cardinality(S)
  BY DEF Fifo!Cardinality, Cardinality
<1>3. Fifo!Size = Cardinality(Fifo!Positions)
  BY <1>2 DEF Fifo!Size
<1> QED
  BY <1>1, <1>3 DEF Counted

LEMMA InsertAppends ==
  ASSUME TInv, CInv, Sized, Counted, TInv', NEW k \in Keys, NEW v \in Values, Insert(k, v)
  PROVE  Sized' /\ Counted' /\ Fifo!Insert(k, v)
<1> DEFINE b == Lowest(FreeBuckets)
           u == [used |-> TRUE, val |-> v]
<1>1. /\ TypeOK /\ BucketsOwned /\ CountExact /\ LinksOwned
      /\ v \in Nat /\ u \in Bucket /\ u.val = v /\ buckets \in [Primary -> Bucket]
  BY TableAssumption DEF TInv, TypeOK, Bucket
<1> HIDE DEF u
<1>2. /\ entrycount < N /\ FreeBuckets # {}
      /\ v <= MaxSize /\ k \notin TooLong /\ ret' = <<"insert", 1>>
      /\ entries' = Link(k, v, b) /\ entrycount' = entrycount + 1
      /\ buckets' = [buckets EXCEPT ![b] = u]
  BY DEF Insert, u
<1>3. FreeCollisions # {}
  BY <1>1, <1>2, Room DEF RoomForInsert
<1>4. b \in Primary /\ ~buckets[b].used
  <2>1. FreeBuckets \in SUBSET Nat
    BY Sizes DEF FreeBuckets, Primary
  <2>2. \E j \in FreeBuckets : \A m \in FreeBuckets : j <= m
    BY <1>2, <2>1, LeastExists
  <2> QED
    BY <2>2 DEF Lowest, FreeBuckets
<1> HIDE DEF b
<1>5. PICK a \in Primary : a = b
  BY <1>4
<1>6. PICK x \in Slots, l \in Slots \cup {NIL} :
        Grows(entries', x, l, a) /\ GrowsInChain(entries', x, l, k, v)
  BY <1>1, <1>2, <1>3, <1>5, LinkAdds
<1>7. /\ ~buckets[a].used /\ buckets' \in [Primary -> Bucket] /\ buckets'[a].val = v
      /\ \A c \in Primary : c # a => buckets'[c] = buckets[c]
  BY <1>1, <1>2, <1>4, <1>5
<1>8. entrycount' = entrycount + 1
  BY <1>2
<1>9. Queues' = [Queues EXCEPT ![k] = Append(@, v)] /\ Sized' /\ Counted'
  BY <1>1, <1>6, <1>7, <1>8, GrowQueues
<1>10. Fifo!Size < N
  BY <1>2, CountedSize
<1> QED
  BY <1>2, <1>9, <1>10 DEF Fifo!Insert, Fits

\* what __shmht_remove__ leaves when it finds its key
OneOff(ent, bkt, cnt, k, ent1, bkt1, cnt1) ==
  /\ ent1 = Unlink(ent, k)
  /\ bkt1 = [bkt EXCEPT ![ent[Found(ent, k)].bucket].used = FALSE]
  /\ cnt1 = cnt - 1

LEMMA OneRemoved ==
  ASSUME NEW ent, NEW bkt, NEW cnt, NEW ent1, NEW bkt1, NEW cnt1,
         QIn(ent, bkt, cnt), NEW k \in Keys, Matches(ent, k) # {},
         OneOff(ent, bkt, cnt, k, ent1, bkt1, cnt1)
  PROVE  QIn(ent1, bkt1, cnt1) /\ HeadLost(QueueOf(ent, bkt), QueueOf(ent1, bkt1), k)
<1> DEFINE s == Found(ent, k)
<1>0. /\ ent1 = Unlink(ent, k) /\ cnt1 = cnt - 1
      /\ bkt1 = [bkt EXCEPT ![ent[s].bucket].used = FALSE]
  BY DEF OneOff
<1>1. TIn(ent, bkt, cnt) /\ CIn(ent) /\ SizedIn(ent, bkt) /\ CountedIn(ent, bkt, cnt)
  BY DEF QIn
<1>2. TypedIn(ent, bkt, cnt) /\ LinksIn(ent) /\ bkt \in [Primary -> Bucket]
  BY <1>1 DEF TIn, TypedIn, Bucket
<1>3. s \in UsedIn(ent)
  BY <1>2, FoundFacts
<1>4. PICK g \in Slots : FreesIn(ent, ent1, s, g) /\ FreesChainIn(ent, ent1, s, g)
  BY <1>0, <1>2, UnlinkFrees
<1>5. SameValues(bkt, bkt1)
  <2>1. PICK x \in Primary : x = ent[s].bucket
    BY <1>2, <1>3, EntryFields DEF TypedIn, UsedIn
  <2>2. PICK y : y = [bkt[x] EXCEPT !.used = FALSE]
    OBVIOUS
  <2>3. y \in Bucket /\ y.val = bkt[x].val
    BY <1>2, <2>2 DEF Bucket
  <2>4. bkt1 = [bkt EXCEPT ![x] = y]
    BY <1>0, <2>1, <2>2
  <2> QED
    BY <1>2, <2>3, <2>4 DEF SameValues
<1>6. TIn(ent1, bkt1, cnt1)
  BY <1>0, <1>1, <1>3, <1>4, FreeStep
<1>7. CIn(ent1)
  BY <1>1, <1>3, <1>4, FreeChains
<1>8. /\ HeadLost(QueueOf(ent, bkt), QueueOf(ent1, bkt1), k)
      /\ SizedIn(ent1, bkt1) /\ CountedIn(ent1, bkt1, cnt1)
  BY <1>0, <1>1, <1>4, <1>5, <1>6, FreeQueues
<1> QED
  BY <1>6, <1>7, <1>8 DEF QIn

LEMMA RemoveDrops ==
  ASSUME TInv, CInv, Sized, Counted, NEW k \in Keys, Remove(k)
  PROVE  Sized' /\ Counted' /\ Fifo!Remove(k)
<1>1. QIn(entries, buckets, entrycount)
  BY InvIsTIn, InvIsCIn, InvIsQIn DEF QIn
<1>2. CASE Matches(entries, k) = {}
  <2>1. entries' = entries /\ buckets' = buckets /\ entrycount' = entrycount
    BY <1>2 DEF Remove, RemoveFrom, Segment
  <2>2. ret' = <<"remove", 0>>
    BY <1>2 DEF Remove
  <2>3. Queues[k] = <<>>
    BY <1>1, <1>2, NoMatch, StoredIsQueue DEF QIn
  <2> QED
    BY <2>1, <2>2, <2>3, QueuesUntouched DEF Fifo!Remove
<1>3. CASE Matches(entries, k) # {}
  <2>1. OneOff(entries, buckets, entrycount, k, entries', buckets', entrycount')
    BY <1>3 DEF Remove, RemoveFrom, Segment, OneOff
  <2>2. ret' = <<"remove", 1>>
    BY <1>3 DEF Remove
  <2>3. /\ QIn(entries', buckets', entrycount')
        /\ HeadLost(QueueOf(entries, buckets), QueueOf(entries', buckets'), k)
    BY <1>1, <1>3, <2>1, OneRemoved
  <2>4. Queues[k] # <<>> /\ Queues' = [Queues EXCEPT ![k] = Tail(@)]
    BY <2>3, StoredIsQueue DEF HeadLost
  <2> QED
    BY <2>2, <2>3, <2>4, InvIsQIn DEF Fifo!Remove, QIn
<1> QED
  BY <1>2, <1>3

LEMMA FlushEmpties ==
  ASSUME TInv, Flush
  PROVE  Sized' /\ Counted' /\ Fifo!Flush
<1>1. entries \in [Slots -> Entry] /\ buckets \in [Primary -> Bucket]
  BY DEF TInv, TypeOK, Bucket
<1>2. entries' \in [Slots -> Entry] /\ \A s \in Slots : ~entries'[s].used
  <2>1. entries' = [s \in Slots |-> Off(entries[s])]
    BY DEF Flush, Off
  <2>2. \A x \in Entry : Off(x) \in Entry /\ ~Off(x).used
    BY OffEntry
  <2> QED
    BY <1>1, <2>1, <2>2
<1>3. buckets' \in [Primary -> Bucket]
  BY <1>1 DEF Flush, Bucket
<1>4. /\ Queues' = [k \in Keys |-> <<>>]
      /\ IsFiniteSet(Spots(Queues')) /\ Cardinality(Spots(Queues')) = 0
  BY <1>2, <1>3, NoQueues, StoredIsQueue
<1>5. UsedSlots' = {}
  BY <1>2 DEF UsedSlots
<1> QED
  BY <1>4, <1>5 DEF Flush, Sized, Counted, Fifo!Flush

LEMMA StartsEmpty ==
  Init => Sized /\ Counted /\ Fifo!Init
<1> SUFFICES ASSUME Init PROVE Sized /\ Counted /\ Fifo!Init
  OBVIOUS
<1>1. TypeOK
  BY InitInv DEF TInv
<1>2. entries \in [Slots -> Entry] /\ buckets \in [Primary -> Bucket]
  BY <1>1 DEF TypeOK, Bucket
<1>3. \A s \in Slots : ~entries[s].used
  BY DEF Init, EmptyEntry
<1>4. /\ Queues = [k \in Keys |-> <<>>]
      /\ IsFiniteSet(Spots(Queues)) /\ Cardinality(Spots(Queues)) = 0
  BY <1>2, <1>3, NoQueues, StoredIsQueue
<1>5. UsedSlots = {}
  BY <1>3 DEF UsedSlots
<1> QED
  BY <1>4, <1>5 DEF Init, Sized, Counted, Fifo!Init

LEMMA StepOfQueues ==
  QInv /\ [Next]_vars => QInv' /\ [Fifo!Next]_Fifo!vars
<1> SUFFICES ASSUME QInv, [Next]_vars PROVE QInv' /\ [Fifo!Next]_Fifo!vars
  OBVIOUS
<1>1. TInv /\ CInv /\ Sized /\ Counted
  BY DEF QInv
<1>0. QIn(entries, buckets, entrycount)
  BY <1>1, InvIsTIn, InvIsCIn, InvIsQIn DEF QIn
<1>2. TInv' /\ CInv'
  BY <1>1, NextInv, NextChains
<1> SUFFICES Sized' /\ Counted' /\ [Fifo!Next]_Fifo!vars
  BY <1>2 DEF QInv
<1>3. ASSUME NEW k \in Keys, NEW v \in Values, Insert(k, v)
      PROVE  Sized' /\ Counted' /\ Fifo!Next
  BY <1>1, <1>2, <1>3, InsertAppends DEF Fifo!Next
<1>4. ASSUME NEW k \in Keys, Remove(k)
      PROVE  Sized' /\ Counted' /\ Fifo!Next
  BY <1>1, <1>2, <1>4, RemoveDrops DEF Fifo!Next
<1>5. CASE Flush
  BY <1>1, <1>5, FlushEmpties DEF Fifo!Next
<1>6. ASSUME NEW k \in Keys, Search(k)
      PROVE  Sized' /\ Counted' /\ Fifo!Next
  <2>1. Sized' /\ Counted' /\ Queues' = Queues
    BY <1>1, <1>6, QueuesUntouched DEF Search
  <2>2. CASE Matches(entries, k) = {}
    <3>1. ret' = <<"search">> /\ Queues[k] = <<>>
      BY <1>0, <1>6, <2>2, NoMatch, StoredIsQueue DEF Search, QIn
    <3>2. Fifo!Search(k)
      BY <2>1, <3>1 DEF Fifo!Search
    <3> QED
      BY <2>1, <3>2 DEF Fifo!Next
  <2>3. CASE Matches(entries, k) # {}
    <3> DEFINE e == entries[Found(entries, k)]
    <3>1. /\ Queues[k] # <<>>
          /\ buckets[e.bucket].val = Head(Queues[k]) /\ e.size = Head(Queues[k])
      BY <1>0, <2>3, MatchIsHead, StoredIsQueue DEF QIn
    <3>2. ret' = <<"search", buckets[e.bucket].val, e.size>>
      BY <1>6, <2>3 DEF Search
    <3> HIDE DEF e
    <3>3. Fifo!Search(k)
      BY <2>1, <3>1, <3>2 DEF Fifo!Search
    <3> QED
      BY <2>1, <3>3 DEF Fifo!Next
  <2> QED
    BY <2>2, <2>3
<1>7. ASSUME NEW k \in Keys, NEW v \in Values, InsertRefused(k, v)
      PROVE  Sized' /\ Counted' /\ Fifo!Next
  <2>1. Sized' /\ Counted' /\ Queues' = Queues
    BY <1>1, <1>7, QueuesUntouched DEF InsertRefused
  <2>2. v \in Nat /\ MaxSize \in Nat
    BY TableAssumption
  <2>3. CASE Fits(k, v)
    <3>1. ret' = <<"insert", -1>> /\ (entrycount >= N \/ FreeBuckets = {})
      BY <1>7, <2>2, <2>3 DEF InsertRefused, Fits
    <3>2. entrycount = N
      BY <1>1, <3>1, Room, Sizes DEF TInv, TypeOK, RoomForInsert
    <3>3. Fifo!Size = N
      BY <1>1, <3>2, CountedSize
    <3>4. Fifo!Refuse(k, v)
      BY <2>1, <2>3, <3>1, <3>3 DEF Fifo!Refuse
    <3> QED
      BY <2>1, <3>4 DEF Fifo!Next
  <2>4. CASE ~Fits(k, v)
    <3>1. ret' = <<"insert", EINVAL>>
      BY <1>7, <2>2, <2>4 DEF InsertRefused, Fits
    <3>2. Fifo!Refuse(k, v)
      BY <2>1, <2>4, <3>1 DEF Fifo!Refuse, Fifo!EINVAL, EINVAL
    <3> QED
      BY <2>1, <3>2 DEF Fifo!Next
  <2> QED
    BY <2>3, <2>4
<1>8. CASE Count
  <2>1. Sized' /\ Counted' /\ Queues' = Queues
    BY <1>1, <1>8, QueuesUntouched DEF Count
  <2>2. Fifo!Count
    BY <1>1, <1>8, <2>1, CountedSize DEF Count, Fifo!Count
  <2> QED
    BY <2>1, <2>2 DEF Fifo!Next
<1>9. CASE Tick \/ UNCHANGED vars
  <2>1. /\ entries' = entries /\ buckets' = buckets /\ entrycount' = entrycount
        /\ ret' = ret
    BY <1>9 DEF Tick, vars
  <2>2. Sized' /\ Counted' /\ Queues' = Queues
    BY <1>1, <2>1, QueuesUntouched
  <2> QED
    BY <2>1, <2>2 DEF Fifo!vars
<1> QED
  BY <1>3, <1>4, <1>5, <1>6, <1>7, <1>8, <1>9 DEF Next

(* For every table length, hash, set of keys and set of values: what the   *)
(* calls of shmht.c do to the entries, links and buckets of the segment is *)
(* what they would do to one queue of values per key.  An insert appends   *)
(* unless the table is full or something does not fit, a search shows the  *)
(* oldest value of the key with its own length, a removal drops it and     *)
(* leaves every other value where it was in its queue.                     *)
THEOREM TableImplementsQueues == Spec => ImplementsKeyFifo
<1>1. Init => QInv /\ Fifo!Init
  BY InitInv, StartsWithChains, StartsEmpty DEF QInv
<1>2. QInv /\ [Next]_vars => QInv' /\ [Fifo!Next]_Fifo!vars
  BY StepOfQueues
<1> QED
  BY <1>1, <1>2, PTL DEF Spec, ImplementsKeyFifo, Fifo!Spec
===============================================================================
