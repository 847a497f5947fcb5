---------------------------- MODULE SimpleMpProofs ----------------------------
(***************************************************************************)
(* That the programs of simple_mp keep in step through their two files,    *)
(* for any number of receiving cores, sizes of messages, pool and caches,  *)
(* and any number of killed runs.  The argument is that in a run that does *)
(* not begin with a leftover signal one message at most is out: it is in   *)
(* the ring or one core holds it, until that core asks for the next one.   *)
(* The elements of the pool are counted as a sum over the caches of the    *)
(* cores, for which the module begins with lemmas on sums.                 *)
(***************************************************************************)
EXTENDS SimpleMp, FiniteSetTheorems, SequenceTheorems, WellFoundedInduction, TLAPS

-----------------------------------------------------------------------------
(* Sums over a finite set, which the model takes from a fold               *)

SumOf(g, S) == MapThenSumSet(LAMBDA r : g[r], S)

Some(s) == CHOOSE x \in s : TRUE

\* f is the sum of g over each subset of S of at most m elements
SumsUpTo(f, g, S, m) ==
  /\ f \in [SUBSET S -> Int] /\ f[{}] = 0
  /\ \A s \in SUBSET S : s # {} /\ Cardinality(s) <= m =>
       f[s] = g[Some(s)] + f[s \ {Some(s)}]

\* f is the sum of g over each subset of S
Sums(f, g, S) ==
  /\ f \in [SUBSET S -> Int] /\ SumOf(g, S) = f[S] /\ f[{}] = 0
  /\ \A s \in SUBSET S : s # {} => f[s] = g[Some(s)] + f[s \ {Some(s)}]

\* an element taken out of a set takes its share out of the sum
TakesAny(f, g, S) ==
  \A s \in SUBSET S : \A x \in s : f[s] = g[x] + f[s \ {x}]

LEMMA LeastExists ==
  ASSUME NEW T \in SUBSET Nat, T # {}
  PROVE  \E m \in T : \A n \in T : m <= n
<1>1. PICK m \in T : \A n \in T : ~(<<n, m>> \in OpToRel(<, Nat))
  BY NatLessThanWellFounded, WFMin
<1>2. \A n \in T : ~(n < m)
  BY <1>1 DEF OpToRel
<1>. QED BY <1>2

LEMMA SizeLess ==
  ASSUME NEW S, IsFiniteSet(S), NEW s \in SUBSET S, NEW x \in s
  PROVE  /\ s \ {x} \in SUBSET S
         /\ IsFiniteSet(s) /\ Cardinality(s) \in Nat /\ Cardinality(s) > 0
         /\ Cardinality(s \ {x}) = Cardinality(s) - 1
<1>1. IsFiniteSet(s)
  BY FS_Subset
<1>2. Cardinality(s) \in Nat /\ Cardinality(s) # 0
  BY <1>1, FS_CardinalityType, FS_EmptySet
<1>3. Cardinality(s \ {x}) = Cardinality(s) - 1
  BY <1>1, FS_RemoveElement
<1>. QED BY <1>1, <1>2, <1>3

LEMMA SomeIn == ASSUME NEW s, s # {} PROVE Some(s) \in s
BY DEF Some

LEMMA SumPrefixes ==
  ASSUME NEW S, IsFiniteSet(S), NEW g \in [S -> Int], NEW m \in Nat
  PROVE  \E f : SumsUpTo(f, g, S, m)
<1> DEFINE Prefix(f, i) == SumsUpTo(f, g, S, i)
           B == {i \in Nat : ~\E f : Prefix(f, i)}
<1>. USE DEF SumsUpTo
<1>1. SUFFICES ASSUME B # {} PROVE FALSE
  OBVIOUS
<1>2. PICK i \in B : \A j \in B : i <= j
  <2>1. B \in SUBSET Nat
    OBVIOUS
  <2> HIDE DEF B
  <2>. QED BY <1>1, <2>1, LeastExists
<1>3. i \in Nat /\ ~\E f : Prefix(f, i)
  BY <1>2
<1>4. CASE i = 0
  <2> DEFINE z == [s \in SUBSET S |-> 0]
  <2>1. \A s \in SUBSET S : s # {} => Cardinality(s) > 0
    <3>. SUFFICES ASSUME NEW s \in SUBSET S, s # {} PROVE Cardinality(s) > 0
      OBVIOUS
    <3>1. PICK x : x \in s
      OBVIOUS
    <3>. QED BY <3>1, SizeLess
  <2>2. \A s \in SUBSET S : s # {} => ~(Cardinality(s) <= 0)
    <3>. SUFFICES ASSUME NEW s \in SUBSET S, s # {} PROVE ~(Cardinality(s) <= 0)
      OBVIOUS
    <3>1. PICK x : x \in s
      OBVIOUS
    <3>2. Cardinality(s) \in Nat /\ Cardinality(s) > 0
      BY <3>1, SizeLess
    <3>. QED BY <3>2
  <2>3. z \in [SUBSET S -> Int] /\ z[{}] = 0
    OBVIOUS
  <2>4. Prefix(z, 0)
    BY <2>2, <2>3
  <2>. QED BY <1>3, <1>4, <2>4
<1>5. CASE i > 0
  <2>1. i - 1 \in Nat /\ i - 1 \notin B
    <3> HIDE DEF B
    <3>. QED BY <1>2, <1>3, <1>5
  <2>2. PICK f : Prefix(f, i - 1)
    BY <2>1
  <2> DEFINE h == [s \in SUBSET S |-> IF s # {} /\ Cardinality(s) = i
                                      THEN g[Some(s)] + f[s \ {Some(s)}] ELSE f[s]]
  <2>3. ASSUME NEW s \in SUBSET S, s # {}
        PROVE  /\ Some(s) \in s /\ s \ {Some(s)} \in SUBSET S
               /\ g[Some(s)] \in Int /\ f[s \ {Some(s)}] \in Int
               /\ Cardinality(s) \in Nat
               /\ Cardinality(s \ {Some(s)}) = Cardinality(s) - 1
    <3>1. Some(s) \in s
      BY <2>3, SomeIn
    <3>. QED BY <2>2, <3>1, SizeLess
  <2>4. h \in [SUBSET S -> Int] /\ h[{}] = 0
    <3>1. \A s \in SUBSET S : h[s] \in Int
      BY <2>2, <2>3
    <3>. QED BY <2>2, <3>1
  <2>5. ASSUME NEW s \in SUBSET S, s # {}, Cardinality(s) <= i
        PROVE  h[s] = g[Some(s)] + h[s \ {Some(s)}]
    <3> DEFINE u == s \ {Some(s)}
    <3>1. Cardinality(u) # i /\ u \in SUBSET S
      BY <1>3, <2>3, <2>5
    <3>2. h[u] = f[u]
      BY <3>1
    <3>3. CASE Cardinality(s) = i
      BY <2>5, <3>2, <3>3
    <3>4. CASE Cardinality(s) # i
      <4>1. Cardinality(s) <= i - 1
        <5>1. Cardinality(s) \in Nat
          BY <2>3, <2>5
        <5> HIDE DEF Prefix, h
        <5>. QED BY <1>3, <2>5, <3>4, <5>1
      <4>2. f[s] = g[Some(s)] + f[u]
        BY <2>2, <2>5, <4>1
      <4>. QED BY <2>5, <3>2, <3>4, <4>2
    <3>. QED BY <3>3, <3>4
  <2>6. Prefix(h, i)
    BY <2>4, <2>5
  <2> HIDE DEF h, Prefix
  <2>. QED BY <1>3, <2>6
<1>. QED BY <1>3, <1>4, <1>5

LEMMA SumRec ==
  ASSUME NEW S, IsFiniteSet(S), NEW g \in [S -> Int]
  PROVE  \E f \in [SUBSET S -> Int] : Sums(f, g, S)
<1> DEFINE Rec(f) == f = [s \in SUBSET S |->
                            IF s = {} THEN 0 ELSE g[Some(s)] + f[s \ {Some(s)}]]
<1>1. PICK f : SumsUpTo(f, g, S, Cardinality(S))
  <2>1. Cardinality(S) \in Nat
    BY FS_CardinalityType
  <2>. QED BY <2>1, SumPrefixes
<1>. USE DEF SumsUpTo
<1>2. \A s \in SUBSET S : s # {} => f[s] = g[Some(s)] + f[s \ {Some(s)}]
  BY <1>1, FS_Subset
<1>3. Rec(f)
  <2>1. f = [s \in SUBSET S |-> f[s]]
    BY <1>1
  <2>2. \A s \in SUBSET S : f[s] = IF s = {} THEN 0 ELSE g[Some(s)] + f[s \ {Some(s)}]
    BY <1>1, <1>2
  <2>. QED BY <2>1, <2>2
<1> DEFINE it == CHOOSE h : Rec(h)
<1>4. SumOf(g, S) = it[S]
  BY DEF SumOf, MapThenSumSet, MapThenFoldSet, Some
<1>5. Rec(it)
  BY <1>3
<1> HIDE DEF it
<1>6. /\ DOMAIN it = SUBSET S /\ it[{}] = 0
      /\ \A s \in SUBSET S : s # {} => it[s] = g[Some(s)] + it[s \ {Some(s)}]
  BY <1>5
<1>7. it = [s \in SUBSET S |-> it[s]]
  BY <1>5
<1> HIDE DEF Rec
<1>8. \A s \in SUBSET S : it[s] = f[s]
  <2> DEFINE B == {n \in Nat : \E s \in SUBSET S : Cardinality(s) = n /\ it[s] # f[s]}
  <2>1. ASSUME B # {} PROVE FALSE
    <3>1. PICK n \in B : \A j \in B : n <= j
      <4>1. B \in SUBSET Nat
        OBVIOUS
      <4> HIDE DEF B
      <4>. QED BY <2>1, <4>1, LeastExists
    <3>2. PICK s \in SUBSET S : Cardinality(s) = n /\ it[s] # f[s]
      OBVIOUS
    <3>3. s # {}
      BY <1>1, <1>6, <3>2
    <3>4. Some(s) \in s
      BY <3>3, SomeIn
    <3> DEFINE u == s \ {Some(s)}
    <3>5. u \in SUBSET S /\ Cardinality(u) \in Nat /\ Cardinality(u) < n
      <4>1. /\ u \in SUBSET S /\ Cardinality(s) \in Nat /\ Cardinality(s) > 0
            /\ Cardinality(u) = Cardinality(s) - 1
        BY <3>4, SizeLess
      <4>. QED BY <3>2, <4>1
    <3>6. Cardinality(u) \notin B
      <4>1. n \in Nat
        OBVIOUS
      <4> HIDE DEF B, u
      <4>. QED BY <3>1, <3>5, <4>1
    <3>7. it[u] = f[u]
      BY <3>5, <3>6
    <3>. QED BY <1>2, <1>6, <3>2, <3>3, <3>7
  <2>2. \A s \in SUBSET S : Cardinality(s) \in Nat
    BY FS_Subset, FS_CardinalityType
  <2>. QED BY <2>1, <2>2
<1>9. it = f
  BY <1>1, <1>7, <1>8
<1>. QED BY <1>1, <1>2, <1>4, <1>9 DEF Sums

\* the order in which a sum is taken makes no difference
LEMMA SumTakesAny ==
  ASSUME NEW S, IsFiniteSet(S), NEW g \in [S -> Int], NEW f \in [SUBSET S -> Int],
         Sums(f, g, S)
  PROVE  TakesAny(f, g, S)
<1>. USE DEF Sums, TakesAny
<1> DEFINE Fails(s) == \E x \in s : f[s] # g[x] + f[s \ {x}]
           B == {n \in Nat : \E s \in SUBSET S : Cardinality(s) = n /\ Fails(s)}
<1>1. ASSUME B # {} PROVE FALSE
  <2>1. PICK n \in B : \A j \in B : n <= j
    <3>1. B \in SUBSET Nat
      OBVIOUS
    <3> HIDE DEF B
    <3>. QED BY <1>1, <3>1, LeastExists
  <2>2. PICK s \in SUBSET S : Cardinality(s) = n /\ Fails(s)
    OBVIOUS
  <2>3. PICK x \in s : f[s] # g[x] + f[s \ {x}]
    BY <2>2
  <2> DEFINE y == Some(s)
  <2>4. y \in s /\ f[s] = g[y] + f[s \ {y}]
    BY <2>3, SomeIn
  <2> HIDE DEF y
  <2>5. \A z \in s : /\ s \ {z} \in SUBSET S /\ Cardinality(s \ {z}) \in Nat
                     /\ Cardinality(s \ {z}) < n
    <3>. SUFFICES ASSUME NEW z \in s
                  PROVE  /\ s \ {z} \in SUBSET S /\ Cardinality(s \ {z}) \in Nat
                         /\ Cardinality(s \ {z}) < n
      OBVIOUS
    <3>1. /\ s \ {z} \in SUBSET S /\ Cardinality(s) \in Nat /\ Cardinality(s) > 0
          /\ Cardinality(s \ {z}) = Cardinality(s) - 1
      BY SizeLess
    <3>. QED BY <2>2, <3>1
  <2>6. \A z \in s : ~Fails(s \ {z})
    <3>. SUFFICES ASSUME NEW z \in s PROVE ~Fails(s \ {z})
      OBVIOUS
    <3>1. Cardinality(s \ {z}) \notin B
      <4>1. n \in Nat
        OBVIOUS
      <4>2. Cardinality(s \ {z}) \in Nat /\ Cardinality(s \ {z}) < n
        BY <2>5
      <4> HIDE DEF B
      <4>. QED BY <2>1, <4>1, <4>2
    <3>. QED BY <2>5, <3>1
  <2>7. x # y
    BY <2>3, <2>4
  <2>8. f[s \ {y}] = g[x] + f[(s \ {y}) \ {x}]
    BY <2>4, <2>6, <2>7
  <2>9. f[s \ {x}] = g[y] + f[(s \ {x}) \ {y}]
    BY <2>4, <2>6, <2>7
  <2>10. (s \ {x}) \ {y} = (s \ {y}) \ {x} /\ (s \ {x}) \ {y} \in SUBSET S
    OBVIOUS
  <2>11. g[x] \in Int /\ g[y] \in Int /\ f[(s \ {x}) \ {y}] \in Int
    BY <2>4, <2>10
  <2> DEFINE c == f[(s \ {x}) \ {y}]
  <2>12. f[s] = g[y] + (g[x] + c) /\ f[s] # g[x] + (g[y] + c)
    BY <2>3, <2>4, <2>8, <2>9, <2>10
  <2> HIDE DEF c
  <2>13. c \in Int
    BY <2>11 DEF c
  <2>. QED BY <2>11, <2>12, <2>13
<1>2. \A s \in SUBSET S : Cardinality(s) \in Nat
  BY FS_Subset, FS_CardinalityType
<1>3. \A s \in SUBSET S : ~Fails(s)
  BY <1>1, <1>2
<1>. QED BY <1>3

LEMMA SumChanges ==
  ASSUME NEW S, IsFiniteSet(S), NEW g \in [S -> Int], NEW h \in [S -> Int],
         NEW x \in S, \A y \in S : y # x => h[y] = g[y]
  PROVE  SumOf(h, S) = SumOf(g, S) - g[x] + h[x] /\ SumOf(g, S) \in Int
<1>1. PICK f \in [SUBSET S -> Int] : Sums(f, g, S)
  BY SumRec
<1>2. PICK k \in [SUBSET S -> Int] : Sums(k, h, S)
  BY SumRec
<1>3. TakesAny(f, g, S) /\ TakesAny(k, h, S)
  BY <1>1, <1>2, SumTakesAny
<1>4. f[{}] = 0 /\ k[{}] = 0 /\ SumOf(g, S) = f[S] /\ SumOf(h, S) = k[S]
  BY <1>1, <1>2 DEF Sums
<1> DEFINE Differs(s) == s \in SUBSET (S \ {x}) /\ f[s] # k[s]
           B == {n \in Nat : \E s \in SUBSET S : Cardinality(s) = n /\ Differs(s)}
<1>5. ASSUME B # {} PROVE FALSE
  <2>1. PICK n \in B : \A j \in B : n <= j
    <3>1. B \in SUBSET Nat
      OBVIOUS
    <3> HIDE DEF B
    <3>. QED BY <1>5, <3>1, LeastExists
  <2>2. PICK s \in SUBSET S : Cardinality(s) = n /\ Differs(s)
    OBVIOUS
  <2>3. PICK y : y \in s
    BY <1>4, <2>2
  <2>4. /\ s \ {y} \in SUBSET S /\ Cardinality(s \ {y}) \in Nat
        /\ Cardinality(s \ {y}) < n /\ n \in Nat
    <3>1. /\ s \ {y} \in SUBSET S /\ Cardinality(s) \in Nat /\ Cardinality(s) > 0
          /\ Cardinality(s \ {y}) = Cardinality(s) - 1
      BY <2>3, SizeLess
    <3>. QED BY <2>2, <3>1
  <2>5. ~Differs(s \ {y})
    <3>1. Cardinality(s \ {y}) \notin B
      <4> HIDE DEF B
      <4>. QED BY <2>1, <2>4
    <3>. QED BY <2>4, <3>1
  <2>6. f[s \ {y}] = k[s \ {y}] /\ g[y] = h[y]
    BY <2>2, <2>3, <2>5
  <2>. QED BY <1>3, <2>2, <2>3, <2>6 DEF TakesAny
<1>6. f[S \ {x}] = k[S \ {x}]
  <2>1. Cardinality(S \ {x}) \in Nat
    BY FS_Subset, FS_CardinalityType, SizeLess
  <2>. QED BY <1>5, <2>1
<1>7. f[S] = g[x] + f[S \ {x}] /\ k[S] = h[x] + k[S \ {x}]
  BY <1>3 DEF TakesAny
<1> DEFINE c == f[S \ {x}]
<1>8. c \in Int /\ g[x] \in Int /\ h[x] \in Int /\ SumOf(g, S) = g[x] + c /\ SumOf(h, S) = h[x] + c
  BY <1>4, <1>6, <1>7
<1> HIDE DEF c
<1>. QED BY <1>8

LEMMA Times ==
  /\ \A m, b \in Nat : m * b \in Nat
  /\ \A m \in Nat \ {0}, b \in Nat : (m - 1) * b + b = m * b /\ m * b >= b
  /\ \A m \in Nat : m * 0 = 0 /\ 0 * m = 0
OBVIOUS

LEMMA SumBetween ==
  ASSUME NEW S, IsFiniteSet(S), NEW b \in Nat, NEW g \in [S -> 0..b]
  PROVE  SumOf(g, S) \in 0..(Cardinality(S) * b)
<1>1. g \in [S -> Int]
  OBVIOUS
<1>2. PICK f \in [SUBSET S -> Int] : Sums(f, g, S)
  BY <1>1, SumRec
<1>. USE DEF Sums
<1> DEFINE Fails(s) == f[s] \notin 0..(Cardinality(s) * b)
           B == {n \in Nat : \E s \in SUBSET S : Cardinality(s) = n /\ Fails(s)}
<1>3. ASSUME B # {} PROVE FALSE
  <2>1. PICK n \in B : \A j \in B : n <= j
    <3>1. B \in SUBSET Nat
      OBVIOUS
    <3> HIDE DEF B
    <3>. QED BY <1>3, <3>1, LeastExists
  <2>2. PICK s \in SUBSET S : Cardinality(s) = n /\ Fails(s)
    OBVIOUS
  <2>3. s # {}
    <3>1. 0 * b = 0
      BY Times
    <3>2. Cardinality({}) = 0
      BY FS_EmptySet
    <3>3. SUFFICES ASSUME s = {} PROVE FALSE
      OBVIOUS
    <3>4. Cardinality(s) * b = 0
      BY <3>1, <3>2, <3>3
    <3>5. f[s] = 0
      BY <1>2, <3>3
    <3>6. ~(f[s] \in 0..(Cardinality(s) * b))
      BY <2>2
    <3>. QED BY <3>4, <3>5, <3>6
  <2> DEFINE y == Some(s)
             u == s \ {y}
  <2>4. y \in s
    BY <2>3, SomeIn
  <2>5. /\ u \in SUBSET S /\ Cardinality(u) \in Nat /\ Cardinality(u) = n - 1
        /\ n \in Nat \ {0}
    <3>1. /\ u \in SUBSET S /\ Cardinality(s) \in Nat /\ Cardinality(s) > 0
          /\ Cardinality(u) = Cardinality(s) - 1
      BY <2>4, SizeLess
    <3>. QED BY <2>2, <3>1
  <2>6. ~Fails(u)
    <3>1. Cardinality(u) \notin B
      <4> HIDE DEF B, u
      <4>. QED BY <2>1, <2>5
    <3>. QED BY <2>5, <3>1
  <2>7. f[s] = g[y] + f[u] /\ g[y] \in 0..b
    BY <1>2, <2>3, <2>4
  <2>8. f[u] \in 0..((n - 1) * b) /\ ~(f[s] \in 0..(n * b))
    BY <2>2, <2>5, <2>6
  <2>9. (n - 1) * b + b = n * b /\ (n - 1) * b \in Nat /\ n * b \in Nat
    BY <2>5, Times
  <2> HIDE DEF y, u, B, Fails
  <2> DEFINE p == (n - 1) * b
             q == n * b
             v == g[y]
             w == f[u]
  <2>10. f[s] = v + w /\ v \in 0..b /\ w \in 0..p /\ ~(f[s] \in 0..q)
    BY <2>7, <2>8
  <2>11. p + b = q /\ p \in Nat /\ q \in Nat
    BY <2>9
  <2> HIDE DEF p, q, v, w
  <2>. QED BY <2>10, <2>11
<1>4. Cardinality(S) \in Nat
  BY FS_CardinalityType
<1>. QED BY <1>2, <1>3, <1>4

-----------------------------------------------------------------------------
(* The invariant                                                           *)

Flag == {"", "0", "1"}
Row == {"start", "end"} \X Nat
Places == {"off", "loop", "poll", "destroy", "await", "clear", "clearing", "row", "next",
           "opening", "read", "add", "test", "last", "closing", "quit", "gone"}

Typed ==
  /\ flagRing \in Flag /\ flagCSV \in Flag /\ csv \in Seq(Row)
  /\ sizeP \in Nat /\ ring \in Seq(Nat) /\ free \in Nat
  /\ sizeS \in Nat
  /\ rpc \in [Receivers -> Places]
  /\ tree \in [Receivers -> Nat] /\ read \in [Receivers -> Nat]
  /\ parked \in [Receivers -> 0..(FlushAt - 1)]
  /\ begun.row \in 0..Len(csv)

\* a core has a message, or has not yet asked for the next one
Holding == {"destroy", "await", "clear", "clearing", "row", "next", "opening"}
Holder(r) == rpc[r] \in Holding
OutThere == ring # <<>> \/ \E r \in Receivers : Holder(r)

\* what the caches of all cores hold
Cached == SumOf(parked, Receivers)

OneOut ==
  /\ Len(ring) <= 1
  /\ \A r \in Receivers : Holder(r) => ring = <<>>
  /\ \A r, s \in Receivers : Holder(r) /\ Holder(s) => r = s

\* while the primary prepares a message none is out; until it has signalled
\* for that message its receiver waits
Turns ==
  /\ ppc \in {"wait", "clear", "clearing", "copy", "enqueue", "row", "signal",
              "signalling", "done", "segv", "panic"}
  /\ ppc \in {"clear", "clearing", "copy", "enqueue", "segv", "panic"} => ~OutThere
  /\ ppc \in {"row", "signal", "signalling"} =>
       OutThere /\ \A r \in Receivers : Holder(r) => rpc[r] \in {"destroy", "await"}
  /\ sec \in {"off", "open", "opening", "ready"}
  /\ sec # "ready" => /\ ppc = "wait" /\ ~OutThere /\ ~quit
                      /\ \A r \in Receivers : rpc[r] \in {"off", "loop", "poll"}
  /\ sizeP <= Final + Increment
  /\ ppc \notin {"signal", "signalling", "done"} => sizeP <= Final
  /\ ppc = "done" => sizeP > Final

Signalled == ppc \in {"wait", "done"}

\* flagCSV is raised for the message that is out, flagRing when none is
Flags ==
  /\ flagCSV = "0" =>
       /\ Signalled
       /\ ring # <<>> \/ \E r \in Receivers : rpc[r] \in {"destroy", "await", "clear"}
  /\ Signalled /\ ring # <<>> => flagCSV = "0"
  /\ \A r \in Receivers :
       /\ Signalled /\ rpc[r] \in {"destroy", "await", "clear"} => flagCSV = "0"
       /\ rpc[r] \in {"row", "next", "opening"} => flagCSV = "1"
  /\ ppc = "done" /\ ~OutThere => flagCSV = "1"
  /\ flagRing = "0" => ppc \in {"wait", "clear", "done"} /\ ~OutThere /\ sec = "ready"

\* cores that have asked for the next message and not yet counted their last
Late == {r \in Receivers : rpc[r] \in {"read", "add"}}

\* a core leaves its loop when all messages are received and counted
Ends ==
  /\ quit \/ (\E r \in Receivers : rpc[r] \in {"last", "closing", "quit"}) =>
       ppc = "done" /\ ~OutThere /\ Late = {}
  /\ quit \/ (\E r \in Receivers : rpc[r] = "quit") =>
       flagRing = "1" \/ \E r \in Receivers : rpc[r] = "closing"
  /\ \A r \in Receivers : rpc[r] = "gone" => quit

\* the shared treeSize may lag behind the messages sent, and never runs ahead
Sent == IF ppc = "row" THEN sizeP + Increment ELSE sizeP
Uncounted == (IF OutThere THEN Increment ELSE 0) + Cardinality(Late) * Increment
Counted ==
  /\ sizeS + Uncounted <= Sent
  /\ \A r \in Receivers : rpc[r] = "add" => read[r] + Uncounted <= Sent

\* the size of the message that is out
Out(t) == t = IF ppc = "row" THEN sizeP ELSE sizeP - Increment

\* a core has a message whose end time it has not written
Timing == {"destroy", "await", "clear", "clearing", "row"}

RowOpened ==
  \/ ppc \in {"signal", "signalling"}
  \/ /\ Signalled
     /\ \/ ring # <<>>
        \/ \E r \in Receivers : rpc[r] \in Timing

RowOf(i) == <<IF i % 2 = 1 THEN "start" ELSE "end", ((i + 1) \div 2) * Increment>>

RowsUpTo(m) ==
  /\ sizeP = (m + 1) * Increment
  /\ Len(csv) = begun.row + (IF RowOpened THEN 2 * m - 1 ELSE 2 * m)

Rows ==
  /\ \E m \in Nat : RowsUpTo(m)
  /\ \A i \in Nat : 1 <= i /\ begun.row + i <= Len(csv) => csv[begun.row + i] = RowOf(i)
  /\ ring # <<>> => Out(Head(ring))
  /\ \A r \in Receivers : rpc[r] \in Timing => Out(tree[r])

\* the elements are in the message that is out, or back
Elements ==
  /\ ppc = "enqueue" => free + Cached + Need(sizeP) = Pool
  /\ ring # <<>> => free + Cached + Need(Head(ring)) = Pool
  /\ \A r \in Receivers : rpc[r] = "destroy" => free + Cached + Need(tree[r]) = Pool
  /\ /\ ~Failed /\ ppc # "enqueue" /\ ring = <<>>
     /\ \A r \in Receivers : rpc[r] # "destroy"
     => free + Cached = Pool

InStep == OneOut /\ Turns /\ Flags /\ Ends /\ Counted /\ Rows /\ Elements

\* the programs that send one message
Single ==
  /\ ppc \in {"ask", "copy", "segv", "panic", "enqueue", "enter", "done", "stuck"}
  /\ ppc \in {"ask", "copy", "segv", "panic", "enqueue"} =>
       /\ ring = <<>> /\ ~quit
       /\ \A r \in Receivers : rpc[r] \in {"off", "loop", "poll"} /\ parked[r] = 0
  /\ ppc \in {"ask", "copy"} => free = Pool
  /\ flagRing = "1" /\ flagCSV = "1" /\ csv = <<>>
  /\ sec \in {"off", "ready"}
  /\ \A r \in Receivers : rpc[r] \in {"off", "loop", "poll", "destroy", "quit", "gone"}

MInv ==
  /\ Typed /\ program \in Programs
  /\ Timed /\ begun.clean => InStep
  /\ ~Timed => Single
  /\ FailsOnlyWhenTight

-----------------------------------------------------------------------------
(* Constants and types                                                     *)

LEMMA Sizes ==
  /\ IsFiniteSet(Receivers) /\ Receivers # {}
  /\ Cardinality(Receivers) \in Nat
  /\ Increment \in Nat \ {0} /\ Final \in Nat /\ Increment <= Final
  /\ CacheSize \in Nat /\ FlushAt \in Nat /\ CacheSize < FlushAt
  /\ Pool \in Nat /\ RingSize \in Nat \ {0}
<1>1. Cardinality(Receivers) \in Nat
  BY MpAssumption, FS_CardinalityType
<1>. QED BY <1>1, MpAssumption DEF Pool

LEMMA CacheAfterIs ==
  ASSUME NEW c \in 0..(FlushAt - 1), NEW n \in Nat
  PROVE  CacheAfter(c, n) \in 0..(FlushAt - 1) /\ CacheAfter(c, n) <= c + n
<1>1. \A x \in Nat, d \in Nat \ {0} : x % d \in 0..(d - 1) /\ x % d <= x
  OBVIOUS
<1> DEFINE d == FlushAt - CacheSize
           x == c + n - FlushAt
<1>2. CASE c + n < FlushAt
  BY <1>2, Sizes DEF CacheAfter
<1>3. CASE ~(c + n < FlushAt)
  <2>1. x \in Nat /\ d \in Nat \ {0}
    BY <1>3, Sizes
  <2>2. x % d \in 0..(d - 1) /\ x % d <= x
    BY <1>1, <2>1
  <2> DEFINE y == x % d
  <2>3. CacheAfter(c, n) = CacheSize + y
    BY <1>3 DEF CacheAfter
  <2>4. y \in 0..(d - 1) /\ y <= x
    BY <2>2
  <2> HIDE DEF y
  <2>. QED BY <2>1, <2>3, <2>4, Sizes
<1>. QED BY <1>2, <1>3

LEMMA CachedIs ==
  ASSUME Typed
  PROVE  Cached \in 0..(Cardinality(Receivers) * (FlushAt - 1))
<1>1. FlushAt - 1 \in Nat /\ parked \in [Receivers -> 0..(FlushAt - 1)]
  BY Sizes DEF Typed
<1>. QED BY <1>1, Sizes, SumBetween DEF Cached

LEMMA LateIs ==
  /\ Late \in SUBSET Receivers /\ IsFiniteSet(Late) /\ Cardinality(Late) \in Nat
  /\ Cardinality(Late) * Increment \in Nat
<1>1. Late \in SUBSET Receivers
  BY DEF Late
<1>2. IsFiniteSet(Late)
  BY <1>1, Sizes, FS_Subset
<1>3. Cardinality(Late) \in Nat
  BY <1>2, FS_CardinalityType
<1>. QED BY <1>1, <1>2, <1>3, Sizes, Times

LEMMA SameProgram ==
  ASSUME program' = program
  PROVE  /\ Timed' = Timed /\ SendsTree' = SendsTree /\ Pool' = Pool
         /\ \A n \in Nat : Need(n)' = Need(n)
BY DEF Timed, SendsTree, Pool, Need

\* a step of a core moves that core only
LEMMA Moves ==
  ASSUME Typed, NEW r \in Receivers, NEW from \in Places, NEW to \in Places, Core(r, from, to)
  PROVE  /\ rpc' \in [Receivers -> Places]
         /\ rpc[r] = from /\ rpc'[r] = to
         /\ \A s \in Receivers : s # r => rpc'[s] = rpc[s]
         /\ ppc' = ppc /\ sizeP' = sizeP /\ sec' = sec /\ begun' = begun
         /\ program' = program
BY DEF Typed, Core, primary

LEMMA Starts ==
  /\ FirstSize \in Nat /\ Pool \in Nat /\ Increment \in Nat
  /\ Each("off") \in [Receivers -> Places]
  /\ Each(0) \in [Receivers -> Nat] /\ Each(0) \in [Receivers -> 0..(FlushAt - 1)]
<1>1. 0 \in 0..(FlushAt - 1)
  BY Sizes
<1>. QED BY <1>1, Sizes DEF Each, Places, FirstSize

LEMMA InitTyped == Init => Typed
<1>. SUFFICES ASSUME Init PROVE Typed
  OBVIOUS
<1>1. csv \in Seq(Row) /\ Len(csv) = 0
  BY DEF Init
<1>2. begun.row = 0
  BY DEF Init
<1>. QED BY <1>1, <1>2, Starts DEF Init, Typed, Flag

LEMMA KillTyped == ASSUME Typed, Kill PROVE Typed'
<1>1. begun'.row = Len(csv') /\ Len(csv') \in Nat
  BY DEF Typed, Kill, files
<1>. QED BY <1>1, Starts DEF Kill, Typed, files


LEMMA PrimaryTyped == ASSUME Typed, Primary \/ User PROVE Typed'
<1>. USE Sizes DEF Typed, PrimaryStep, files, pool, secondary
<1>1. CASE WaitRing
  BY <1>1 DEF WaitRing
<1>2. CASE ClearOpen
  BY <1>2 DEF ClearOpen, Flag
<1>3. CASE ClearWrite
  BY <1>3 DEF ClearWrite, Flag
<1>4. CASE CopyTree
  <2>1. free' \in Nat
    BY <1>4, Sizes DEF CopyTree
  <2>2. UNCHANGED <<flagRing, flagCSV, csv, sizeP, ring, sizeS, quit, rpc, tree, read, parked, begun>>
    BY <1>4 DEF CopyTree
  <2>. QED BY <2>1, <2>2
<1>5. CASE CopyArray
  <2>1. free' \in Nat
    BY <1>5, Sizes DEF CopyArray
  <2>2. UNCHANGED <<flagRing, flagCSV, csv, sizeP, ring, sizeS, quit, rpc, tree, read, parked, begun>>
    BY <1>5 DEF CopyArray
  <2>. QED BY <2>1, <2>2
<1>6. CASE Enqueue
  <2>1. free' \in Nat
    BY <1>6 DEF Enqueue
  <2>2. ring' \in Seq(Nat)
    <3>1. Append(ring, sizeP) \in Seq(Nat)
      OBVIOUS
    <3>2. ring' = ring \/ ring' = Append(ring, sizeP)
      BY <1>6 DEF Enqueue
    <3>. QED BY <3>1, <3>2
  <2>3. UNCHANGED <<flagRing, flagCSV, csv, sizeP, sizeS, quit, rpc, tree, read, parked, begun>>
    BY <1>6 DEF Enqueue
  <2>. QED BY <2>1, <2>2, <2>3
<1>7. CASE StartRow
  <2>1. csv' \in Seq(Row) /\ Len(csv') = Len(csv) + 1
    BY <1>7 DEF StartRow, Row
  <2>2. sizeP' \in Nat
    BY <1>7 DEF StartRow
  <2>3. UNCHANGED <<flagRing, flagCSV, ring, free, sizeS, quit, rpc, tree, read, parked, begun>>
    BY <1>7 DEF StartRow
  <2>. QED BY <2>1, <2>2, <2>3
<1>8. CASE SignalOpen
  BY <1>8 DEF SignalOpen, Flag
<1>9. CASE SignalWrite
  BY <1>9 DEF SignalWrite, Flag
<1>10. CASE AskTree
  BY MpAssumption, <1>10 DEF AskTree
<1>11. CASE AskArray
  BY MpAssumption, <1>11 DEF AskArray
<1>12. CASE EnterExit
  BY <1>12 DEF EnterExit
<1>. QED BY <1>1, <1>2, <1>3, <1>4, <1>5, <1>6, <1>7, <1>8, <1>9, <1>10, <1>11, <1>12 DEF Primary, User

LEMMA MainTyped == ASSUME Typed, SecondaryMain PROVE Typed'
<1>. USE DEF Typed, Flag, Places, MainStep, primary, pool
<1>1. CASE Launch
  BY <1>1 DEF Launch
<1>2. CASE ReadyOpen
  BY <1>2 DEF ReadyOpen
<1>3. CASE ReadyWrite
  BY <1>3 DEF ReadyWrite
<1>. QED BY <1>1, <1>2, <1>3 DEF SecondaryMain

\* only the elements that the cache does not keep go back to the pool
LEMMA FreedIs ==
  ASSUME Typed, NEW r \in Receivers, NEW n \in Nat, Freed(r, n)
  PROVE  /\ parked' \in [Receivers -> 0..(FlushAt - 1)] /\ free' \in Nat
         /\ free' + Cached' = free + Cached + n
<1> DEFINE c == CacheAfter(parked[r], n)
<1>1. parked[r] \in 0..(FlushAt - 1) /\ free \in Nat /\ FlushAt \in Nat
  BY Sizes DEF Typed
<1>2. c \in 0..(FlushAt - 1) /\ c <= parked[r] + n
  BY <1>1, CacheAfterIs
<1>3. parked' = [parked EXCEPT ![r] = c] /\ free' = free + parked[r] + n - c
  BY DEF Freed
<1> HIDE DEF c
<1>4. parked' \in [Receivers -> 0..(FlushAt - 1)] /\ free' \in Nat
  <2>1. free' \in Nat
    BY <1>1, <1>2, <1>3
  <2>. QED BY <1>2, <1>3, <2>1 DEF Typed
<1>5. parked \in [Receivers -> Int] /\ parked' \in [Receivers -> Int]
  BY <1>4, Sizes DEF Typed
<1>6. parked'[r] = c /\ \A s \in Receivers : s # r => parked'[s] = parked[s]
  BY <1>3, <1>5
<1>7. SumOf(parked', Receivers) = SumOf(parked, Receivers) - parked[r] + parked'[r]
      /\ SumOf(parked, Receivers) \in Int
  BY <1>5, <1>6, Sizes, SumChanges
<1> DEFINE b == Cached
           a == Cached'
<1>8. a = b - parked[r] + c /\ b \in Int
  BY <1>6, <1>7 DEF Cached
<1> HIDE DEF a, b
<1>9. free' + a = free + b + n
  BY <1>1, <1>2, <1>3, <1>8
<1>. QED BY <1>4, <1>9 DEF a, b

LEMMA CoreTyped == ASSUME Typed, NEW r \in Receivers, Receiver(r) PROVE Typed'
<1>. USE DEF Typed, Places, Core, files, pool, primary
<1>1. CASE Loop(r)
  BY <1>1 DEF Loop
<1>2. CASE Empty(r)
  BY <1>2 DEF Empty
<1>3. CASE Dequeue(r)
  BY <1>3 DEF Dequeue
<1>4. CASE DestroyTree(r)
  <2>1. tree[r] \in Nat /\ Freed(r, tree[r])
    BY <1>4 DEF DestroyTree
  <2>2. parked' \in [Receivers -> 0..(FlushAt - 1)] /\ free' \in Nat
    BY <2>1, FreedIs
  <2>. QED BY <2>1, <2>2 DEF Freed
<1>5. CASE PutArray(r)
  <2>1. 1 \in Nat /\ Freed(r, 1)
    BY <1>5 DEF PutArray
  <2>2. parked' \in [Receivers -> 0..(FlushAt - 1)] /\ free' \in Nat
    BY <2>1, FreedIs
  <2>. QED BY <2>1, <2>2 DEF Freed
<1>6. CASE AwaitRow(r)
  BY <1>6 DEF AwaitRow
<1>7. CASE RowOpen(r)
  BY <1>7 DEF RowOpen, Flag
<1>8. CASE RowWrite(r)
  BY <1>8 DEF RowWrite, Flag
<1>9. CASE EndRow(r)
  BY <1>9 DEF EndRow, Row
<1>10. CASE NextOpen(r)
  BY <1>10 DEF NextOpen, Flag
<1>11. CASE NextWrite(r)
  BY <1>11 DEF NextWrite, Flag
<1>12. CASE ReadSize(r)
  <2>1. read' \in [Receivers -> Nat] /\ rpc' \in [Receivers -> Places]
    BY <1>12 DEF ReadSize
  <2>. QED BY <1>12, <2>1 DEF ReadSize
<1>13. CASE AddSize(r)
  <2>1. read' \in [Receivers -> Nat] /\ rpc' \in [Receivers -> Places]
    BY <1>13 DEF AddSize
  <2>2. sizeS' \in Nat
    <3>1. sizeS' = read[r] + Increment /\ read[r] \in Nat
      BY <1>13 DEF AddSize
    <3>. QED BY <3>1, Sizes
  <2>. QED BY <1>13, <2>1, <2>2 DEF AddSize
<1>14. CASE TestSize(r)
  BY <1>14 DEF TestSize
<1>15. CASE LastOpen(r)
  BY <1>15 DEF LastOpen, Flag
<1>16. CASE LastWrite(r)
  BY <1>16 DEF LastWrite, Flag
<1>17. CASE Quit(r)
  BY <1>17 DEF Quit
<1>. QED BY <1>1, <1>2, <1>3, <1>4, <1>5, <1>6, <1>7, <1>8, <1>9,
            <1>10, <1>11, <1>12, <1>13, <1>14, <1>15, <1>16, <1>17 DEF Receiver

LEMMA TypedKept == ASSUME Typed, [Next]_vars PROVE Typed'
<1>1. CASE UNCHANGED vars
  BY <1>1 DEF Typed, vars, files, primary, pool, secondary
<1>. QED BY <1>1, KillTyped, PrimaryTyped, MainTyped, CoreTyped DEF Next

-----------------------------------------------------------------------------
(* The primary process keeps in step                                       *)

\* what the parts of the invariant say of cores and pool has not changed
SameView ==
  /\ OutThere' <=> OutThere
  /\ \A r \in Receivers : Holder(r)' <=> Holder(r)
  /\ Late' = Late /\ Pool' = Pool
  /\ SendsTree' <=> SendsTree
  /\ OneOut <=> OneOut'

LEMMA Quiet ==
  ASSUME UNCHANGED <<rpc, ring, parked, program>>
  PROVE  SameView /\ Cached' = Cached
BY DEF SameView, OutThere, Holder, Late, Cached, OneOut, Pool, SendsTree

LEMMA WaitRingKeeps ==
  ASSUME Typed, Typed', InStep, Timed, WaitRing
  PROVE  InStep'
<1>. USE DEF InStep
<1>1. /\ ppc = "wait" /\ ppc' = "clear" /\ flagRing = "0"
      /\ UNCHANGED <<flagRing, flagCSV, csv, sizeP, ring, free, parked>>
      /\ UNCHANGED <<sec, sizeS, quit, rpc, tree, read, begun, program>>
  BY DEF WaitRing, PrimaryStep, files, pool, secondary
<1>2. SameView /\ Cached' = Cached
  BY <1>1, Quiet
<1>3. OneOut' /\ Ends'
  BY <1>1, <1>2 DEF OneOut, Ends, SameView
<1>4. Turns'
  BY <1>1, <1>2 DEF Turns, Flags, Signalled, SameView
<1>5. Flags'
  BY <1>1, <1>2 DEF Flags, Signalled, OutThere, Holder, Holding, SameView
<1>6. Rows'
  BY <1>1, <1>2 DEF Rows, RowsUpTo, RowOpened, Signalled, Out, RowOf, Flags, OutThere, Holder, Holding, Timing, SameView
<1>7. Counted' /\ Elements'
  BY <1>1, <1>2 DEF Counted, Uncounted, Sent, Elements, Failed, Need, SameView
<1>. QED BY <1>3, <1>4, <1>5, <1>6, <1>7

LEMMA ClearOpenKeeps ==
  ASSUME Typed, Typed', InStep, Timed, ClearOpen
  PROVE  InStep'
<1>. USE DEF InStep
<1>1. /\ ppc = "clear" /\ ppc' = "clearing" /\ flagRing' = ""
      /\ UNCHANGED <<flagCSV, csv, sizeP, ring, free, parked>>
      /\ UNCHANGED <<sec, sizeS, quit, rpc, tree, read, begun, program>>
  BY DEF ClearOpen, PrimaryStep, files, pool, secondary
<1>2. SameView /\ Cached' = Cached
  BY <1>1, Quiet
<1>3. OneOut' /\ Turns' /\ Flags' /\ Ends'
  BY <1>1, <1>2 DEF OneOut, Turns, Flags, Signalled, Ends, SameView
<1>4. Rows'
  BY <1>1, <1>2 DEF Rows, RowsUpTo, RowOpened, Signalled, Out, RowOf, SameView
<1>5. Counted' /\ Elements'
  BY <1>1, <1>2 DEF Counted, Uncounted, Sent, Elements, Failed, Need, SameView
<1>. QED BY <1>3, <1>4, <1>5

LEMMA ClearWriteKeeps ==
  ASSUME Typed, Typed', InStep, Timed, ClearWrite
  PROVE  InStep'
<1>. USE DEF InStep
<1>1. /\ ppc = "clearing" /\ ppc' = "copy" /\ flagRing' = "1"
      /\ UNCHANGED <<flagCSV, csv, sizeP, ring, free, parked>>
      /\ UNCHANGED <<sec, sizeS, quit, rpc, tree, read, begun, program>>
  BY DEF ClearWrite, PrimaryStep, files, pool, secondary
<1>2. SameView /\ Cached' = Cached
  BY <1>1, Quiet
<1>3. OneOut' /\ Turns' /\ Flags' /\ Ends'
  BY <1>1, <1>2 DEF OneOut, Turns, Flags, Signalled, Ends, SameView
<1>4. Rows'
  BY <1>1, <1>2 DEF Rows, RowsUpTo, RowOpened, Signalled, Out, RowOf, SameView
<1>5. Counted' /\ Elements'
  BY <1>1, <1>2 DEF Counted, Uncounted, Sent, Elements, Failed, Need, SameView
<1>. QED BY <1>3, <1>4, <1>5

LEMMA CopyKeeps ==
  ASSUME Typed, Typed', InStep, Timed, CopyTree \/ CopyArray
  PROVE  InStep'
<1>. USE DEF InStep
<1>1. /\ ppc = "copy" /\ ppc' \in {"enqueue", "segv", "panic"}
      /\ ppc' = "enqueue" => free' = free - Need(sizeP)
      /\ UNCHANGED <<flagRing, flagCSV, csv, sizeP, ring, parked>>
      /\ UNCHANGED <<sec, sizeS, quit, rpc, tree, read, begun, program>>
  BY DEF CopyTree, CopyArray, Need, PrimaryStep, files, pool, secondary
<1>2. SameView /\ Cached' = Cached
  BY <1>1, Quiet
<1>3. OneOut' /\ Turns' /\ Flags' /\ Ends'
  BY <1>1, <1>2 DEF OneOut, Turns, Flags, Signalled, Ends, SameView
<1>4. Rows'
  BY <1>1, <1>2 DEF Rows, RowsUpTo, RowOpened, Signalled, Out, RowOf, SameView
<1>5. Counted'
  BY <1>1, <1>2 DEF Counted, Uncounted, Sent, SameView
<1>6. Elements'
  <2>1. ~OutThere
    BY <1>1 DEF Turns
  <2>2. ring = <<>> /\ \A r \in Receivers : rpc[r] # "destroy"
    BY <2>1 DEF OutThere, Holder, Holding
  <2>3. free + Cached = Pool
    BY <1>1, <2>2 DEF Elements, Failed
  <2>4. Cached \in Nat /\ Pool \in Nat /\ free \in Nat /\ Need(sizeP) \in Nat
    <3>1. Cached \in Nat
      BY CachedIs
    <3>. QED BY <3>1, Sizes DEF Typed, Need
  <2>5. Need(sizeP)' = Need(sizeP) /\ Cached' = Cached /\ Pool' = Pool
    BY <1>1, <1>2 DEF Need, SameView
  <2> DEFINE n == Need(sizeP)
             c == Cached
             p == Pool
             n1 == Need(sizeP)'
             c1 == Cached'
             p1 == Pool'
  <2>6. ppc' = "enqueue" => free' + c1 + n1 = p1
    <3>1. ppc' = "enqueue" => free' = free - n
      BY <1>1
    <3>2. c \in Nat /\ p \in Nat /\ free \in Nat /\ n \in Nat /\ free + c = p
      BY <2>3, <2>4
    <3>3. n1 = n /\ c1 = c /\ p1 = p
      BY <2>5
    <3> HIDE DEF n, c, p, n1, c1, p1
    <3>. QED BY <3>1, <3>2, <3>3
  <2>. QED BY <1>1, <2>2, <2>6 DEF Elements, Failed
<1>. QED BY <1>3, <1>4, <1>5, <1>6

LEMMA StartRowKeeps ==
  ASSUME Typed, Typed', InStep, Timed, StartRow
  PROVE  InStep'
<1>. USE DEF InStep
<1>1. /\ ppc = "row" /\ ppc' = "signal" /\ csv' = Append(csv, <<"start", sizeP>>)
      /\ sizeP' = sizeP + Increment
      /\ UNCHANGED <<flagRing, flagCSV, ring, free, parked>>
      /\ UNCHANGED <<sec, sizeS, quit, rpc, tree, read, begun, program>>
  BY DEF StartRow, PrimaryStep, files, pool, secondary
<1>2. SameView /\ Cached' = Cached
  BY <1>1, Quiet
<1>3. OneOut' /\ Flags' /\ Ends'
  BY <1>1, <1>2 DEF OneOut, Flags, Signalled, Ends, SameView
<1>4. Turns'
  BY <1>1, <1>2, Sizes DEF Turns, Typed, SameView
<1>5. Rows'
  <2>1. PICK m \in Nat : RowsUpTo(m)
    BY DEF Rows
  <2>2. OutThere /\ ~RowOpened /\ RowOpened'
    BY <1>1 DEF Turns, RowOpened, Signalled
  <2>3. Len(csv') = Len(csv) + 1 /\ csv'[Len(csv) + 1] = <<"start", sizeP>>
        /\ \A i \in 1..Len(csv) : csv'[i] = csv[i]
    BY <1>1 DEF Typed
  <2>4. sizeP = (m + 1) * Increment /\ Len(csv) = begun.row + 2 * m
    BY <2>1, <2>2 DEF RowsUpTo
  <2>5. sizeP' = (m + 2) * Increment /\ Len(csv') = begun'.row + 2 * (m + 1) - 1
    <3>1. (m + 2) * Increment = (m + 1) * Increment + Increment
      BY Sizes
    <3>2. begun'.row = begun.row /\ begun.row \in Nat
      BY <1>1 DEF Typed
    <3>3. sizeP' = (m + 2) * Increment
      BY <1>1, <2>4, <3>1
    <3>4. Len(csv') = begun'.row + 2 * (m + 1) - 1
      BY <2>3, <2>4, <3>2
    <3>. QED BY <3>3, <3>4
  <2>6. RowsUpTo(m + 1)'
    BY <2>2, <2>5 DEF RowsUpTo
  <2>7. RowOf(2 * m + 1) = <<"start", sizeP>>
    <3>1. (2 * m + 1) % 2 = 1 /\ ((2 * m + 1) + 1) \div 2 = m + 1
      OBVIOUS
    <3>. QED BY <2>4, <3>1 DEF RowOf
  <2>8. \A i \in Nat : 1 <= i /\ begun.row + i <= Len(csv') => csv'[begun.row + i] = RowOf(i)
    <3>. SUFFICES ASSUME NEW i \in Nat, 1 <= i, begun.row + i <= Len(csv')
                  PROVE  csv'[begun.row + i] = RowOf(i)
      OBVIOUS
    <3>1. begun.row \in Nat /\ Len(csv) \in Nat
      BY DEF Typed
    <3>2. CASE begun.row + i <= Len(csv)
      <4>1. csv[begun.row + i] = RowOf(i)
        BY <3>2 DEF Rows
      <4>2. begun.row + i \in 1..Len(csv)
        BY <3>1, <3>2
      <4>. QED BY <2>3, <4>1, <4>2
    <3>3. CASE ~(begun.row + i <= Len(csv))
      <4>1. Len(csv') = Len(csv) + 1 /\ Len(csv) = begun.row + 2 * m
        BY <2>3, <2>4
      <4>2. begun.row + i = Len(csv) + 1
        BY <3>1, <3>3, <4>1
      <4>3. i = 2 * m + 1
        BY <3>1, <4>1, <4>2
      <4>. QED BY <2>3, <2>7, <4>2, <4>3
    <3>. QED BY <3>2, <3>3
  <2>9. /\ ring' # <<>> => Out(Head(ring))'
        /\ \A r \in Receivers : rpc'[r] \in Timing => Out(tree[r])'
    <3>1. sizeP' - Increment = sizeP
      BY <1>1, Sizes DEF Typed
    <3>. QED BY <1>1, <3>1 DEF Rows, Out
  <2>10. begun' = begun
    BY <1>1
  <2>11. \E k \in Nat : RowsUpTo(k)'
    BY <2>6
  <2>12. \A i \in Nat : 1 <= i /\ begun'.row + i <= Len(csv') =>
           csv'[begun'.row + i] = RowOf(i)
    BY <2>8, <2>10
  <2>. QED BY <2>9, <2>11, <2>12 DEF Rows
<1>6. Counted' /\ Elements'
  BY <1>1, <1>2 DEF Counted, Uncounted, Sent, Elements, Failed, Need, SameView
<1>. QED BY <1>3, <1>4, <1>5, <1>6

LEMMA SignalOpenKeeps ==
  ASSUME Typed, Typed', InStep, Timed, SignalOpen
  PROVE  InStep'
<1>. USE DEF InStep
<1>1. /\ ppc = "signal" /\ ppc' = "signalling" /\ flagCSV' = ""
      /\ UNCHANGED <<flagRing, csv, sizeP, ring, free, parked>>
      /\ UNCHANGED <<sec, sizeS, quit, rpc, tree, read, begun, program>>
  BY DEF SignalOpen, PrimaryStep, files, pool, secondary
<1>2. SameView /\ Cached' = Cached
  BY <1>1, Quiet
<1>3. OneOut' /\ Turns' /\ Ends'
  BY <1>1, <1>2 DEF OneOut, Turns, Ends, SameView
<1>4. Flags'
  BY <1>1, <1>2 DEF Flags, Signalled, Turns, OutThere, Holder, Holding, SameView
<1>5. Rows'
  BY <1>1, <1>2 DEF Rows, RowsUpTo, RowOpened, Signalled, Out, RowOf, SameView
<1>6. Counted' /\ Elements'
  BY <1>1, <1>2 DEF Counted, Uncounted, Sent, Elements, Failed, Need, SameView
<1>. QED BY <1>3, <1>4, <1>5, <1>6

LEMMA SignalWriteKeeps ==
  ASSUME Typed, Typed', InStep, Timed, SignalWrite
  PROVE  InStep'
<1>. USE DEF InStep
<1>1. /\ ppc = "signalling" /\ ppc' = (IF sizeP <= Final THEN "wait" ELSE "done")
      /\ flagCSV' = "0"
      /\ UNCHANGED <<flagRing, csv, sizeP, ring, free, parked>>
      /\ UNCHANGED <<sec, sizeS, quit, rpc, tree, read, begun, program>>
  BY DEF SignalWrite, PrimaryStep, files, pool, secondary
<1>2. SameView /\ Cached' = Cached
  BY <1>1, Quiet
<1>3. OneOut' /\ Ends'
  BY <1>1, <1>2 DEF OneOut, Ends, SameView
<1>4. Turns'
  BY <1>1, <1>2, Sizes DEF Turns, Typed, SameView
<1>5. Flags'
  BY <1>1, <1>2 DEF Flags, Signalled, Turns, OutThere, Holder, Holding, SameView
<1>6. Rows'
  BY <1>1, <1>2 DEF Rows, RowsUpTo, RowOpened, Signalled, Out, RowOf, Turns, OutThere, Holder, Holding, Timing, SameView
<1>7. Counted' /\ Elements'
  BY <1>1, <1>2 DEF Counted, Uncounted, Sent, Elements, Failed, Need, SameView
<1>. QED BY <1>3, <1>4, <1>5, <1>6, <1>7

-----------------------------------------------------------------------------
(* The receiving cores keep in step                                        *)

LEMMA CoreMoves ==
  ASSUME Typed, NEW r \in Receivers, NEW from \in Places, NEW to \in Places, Core(r, from, to)
  PROVE  rpc[r] = from /\ rpc'[r] = to /\ \A s \in Receivers : s # r => rpc'[s] = rpc[s]
BY Moves

\* a step of a core that neither takes a message nor asks for the next one
LEMMA CoreQuiet ==
  ASSUME NEW r \in Receivers, \A s \in Receivers : s # r => rpc'[s] = rpc[s],
         ring' = ring, program' = program, rpc[r] \in Holding <=> rpc'[r] \in Holding,
         rpc[r] \in {"read", "add"} <=> rpc'[r] \in {"read", "add"}
  PROVE  SameView
<1>1. \A s \in Receivers : Holder(s)' <=> Holder(s)
  BY DEF Holder
<1>2. Late' = Late
  BY DEF Late
<1>. QED BY <1>1, <1>2 DEF OutThere, OneOut, Pool, SendsTree, SameView


LEMMA RowsKept ==
  ASSUME UNCHANGED <<csv, sizeP, ring, begun, tree, ppc>>, Rows,
         \A s \in Receivers : rpc'[s] \in Timing <=> rpc[s] \in Timing
  PROVE  Rows'
<1>1. (RowOpened' <=> RowOpened) /\ \A t \in Nat : Out(t)' <=> Out(t)
  BY DEF RowOpened, Signalled, Out
<1>2. \A m \in Nat : RowsUpTo(m)' <=> RowsUpTo(m)
  BY <1>1 DEF RowsUpTo
<1>3. \E m \in Nat : RowsUpTo(m)'
  BY <1>2 DEF Rows
<1>. QED BY <1>3 DEF Rows, Out

LEMMA LoopKeeps ==
  ASSUME Typed, Typed', InStep, Timed, NEW r \in Receivers, Loop(r)
  PROVE  InStep'
<1>. USE DEF InStep
<1>1. /\ UNCHANGED <<flagRing, flagCSV, csv, ring, free, parked, sizeS, quit, tree, read>>
      /\ UNCHANGED <<ppc, sizeP, sec, begun, program>>
  BY DEF Loop, Core, files, pool, primary
<1>2. /\ rpc[r] = "loop" /\ rpc'[r] = IF quit THEN "gone" ELSE "poll"
      /\ \A s \in Receivers : s # r => rpc'[s] = rpc[s]
  BY CoreMoves DEF Loop, Places
<1>3. SameView
  BY <1>1, <1>2, CoreQuiet DEF Holding
<1>4. Cached' = Cached
  BY <1>1 DEF Cached
<1>5. OneOut' /\ Turns' /\ Flags' /\ Ends'
  BY <1>1, <1>2, <1>3, <1>4 DEF OneOut, Turns, Flags, Signalled, Ends, SameView
<1>6. Rows'
  BY <1>1, <1>2, RowsKept DEF Timing
<1>7. Counted' /\ Elements'
  BY <1>1, <1>2, <1>3, <1>4 DEF Counted, Uncounted, Sent, Elements, Failed, Need, SameView
<1>. QED BY <1>5, <1>6, <1>7

LEMMA EmptyKeeps ==
  ASSUME Typed, Typed', InStep, Timed, NEW r \in Receivers, Empty(r)
  PROVE  InStep'
<1>. USE DEF InStep
<1>1. /\ ring = <<>>
      /\ UNCHANGED <<flagRing, flagCSV, csv, ring, free, parked, sizeS, quit, tree, read>>
      /\ UNCHANGED <<ppc, sizeP, sec, begun, program>>
  BY DEF Empty, Core, files, pool, primary
<1>2. /\ rpc[r] = "poll" /\ rpc'[r] = "loop"
      /\ \A s \in Receivers : s # r => rpc'[s] = rpc[s]
  BY CoreMoves DEF Empty, Places
<1>3. SameView
  BY <1>1, <1>2, CoreQuiet DEF Holding
<1>4. Cached' = Cached
  BY <1>1 DEF Cached
<1>5. OneOut' /\ Turns' /\ Flags' /\ Ends'
  BY <1>1, <1>2, <1>3, <1>4 DEF OneOut, Turns, Flags, Signalled, Ends, SameView
<1>6. Rows'
  BY <1>1, <1>2, RowsKept DEF Timing
<1>7. Counted' /\ Elements'
  BY <1>1, <1>2, <1>3, <1>4 DEF Counted, Uncounted, Sent, Elements, Failed, Need, SameView
<1>. QED BY <1>5, <1>6, <1>7

LEMMA AwaitRowKeeps ==
  ASSUME Typed, Typed', InStep, Timed, NEW r \in Receivers, AwaitRow(r)
  PROVE  InStep'
<1>. USE DEF InStep
<1>1. /\ flagCSV = "0"
      /\ UNCHANGED <<flagRing, flagCSV, csv, ring, free, parked, sizeS, quit, tree, read>>
      /\ UNCHANGED <<ppc, sizeP, sec, begun, program>>
  BY DEF AwaitRow, Core, files, pool, primary
<1>2. /\ rpc[r] = "await" /\ rpc'[r] = "clear"
      /\ \A s \in Receivers : s # r => rpc'[s] = rpc[s]
  BY CoreMoves DEF AwaitRow, Places
<1>3. SameView
  BY <1>1, <1>2, CoreQuiet DEF Holding
<1>4. Cached' = Cached
  BY <1>1 DEF Cached
<1>5. OneOut' /\ Ends'
  BY <1>1, <1>2, <1>3, <1>4 DEF OneOut, Ends, SameView
<1>6. Turns'
  BY <1>1, <1>2, <1>3, <1>4 DEF Turns, Flags, Signalled, OutThere, Holder, Holding, SameView
<1>7. Flags'
  BY <1>1, <1>2, <1>3, <1>4 DEF Flags, Signalled, OutThere, Holder, Holding, SameView
<1>8. Rows'
  BY <1>1, <1>2, RowsKept DEF Timing
<1>9. Counted' /\ Elements'
  BY <1>1, <1>2, <1>3, <1>4 DEF Counted, Uncounted, Sent, Elements, Failed, Need, SameView
<1>. QED BY <1>5, <1>6, <1>7, <1>8, <1>9

LEMMA RowOpenKeeps ==
  ASSUME Typed, Typed', InStep, Timed, NEW r \in Receivers, RowOpen(r)
  PROVE  InStep'
<1>. USE DEF InStep
<1>1. /\ flagCSV' = ""
      /\ UNCHANGED <<flagRing, csv, ring, free, parked, sizeS, quit, tree, read>>
      /\ UNCHANGED <<ppc, sizeP, sec, begun, program>>
  BY DEF RowOpen, Core, files, pool, primary
<1>2. /\ rpc[r] = "clear" /\ rpc'[r] = "clearing"
      /\ \A s \in Receivers : s # r => rpc'[s] = rpc[s]
  BY CoreMoves DEF RowOpen, Places
<1>3. SameView
  BY <1>1, <1>2, CoreQuiet DEF Holding
<1>4. Cached' = Cached
  BY <1>1 DEF Cached
<1>5. OneOut' /\ Ends'
  BY <1>1, <1>2, <1>3, <1>4 DEF OneOut, Ends, SameView
<1>6. Turns'
  BY <1>1, <1>2, <1>3, <1>4 DEF Turns, OutThere, Holder, Holding, SameView
<1>7. Flags'
  BY <1>1, <1>2, <1>3, <1>4 DEF Flags, Signalled, Turns, OneOut, OutThere, Holder, Holding, SameView
<1>8. Rows'
  BY <1>1, <1>2, RowsKept DEF Timing
<1>9. Counted' /\ Elements'
  BY <1>1, <1>2, <1>3, <1>4 DEF Counted, Uncounted, Sent, Elements, Failed, Need, SameView
<1>. QED BY <1>5, <1>6, <1>7, <1>8, <1>9

LEMMA RowWriteKeeps ==
  ASSUME Typed, Typed', InStep, Timed, NEW r \in Receivers, RowWrite(r)
  PROVE  InStep'
<1>. USE DEF InStep
<1>1. /\ flagCSV' = "1"
      /\ UNCHANGED <<flagRing, csv, ring, free, parked, sizeS, quit, tree, read>>
      /\ UNCHANGED <<ppc, sizeP, sec, begun, program>>
  BY DEF RowWrite, Core, files, pool, primary
<1>2. /\ rpc[r] = "clearing" /\ rpc'[r] = "row"
      /\ \A s \in Receivers : s # r => rpc'[s] = rpc[s]
  BY CoreMoves DEF RowWrite, Places
<1>3. SameView
  BY <1>1, <1>2, CoreQuiet DEF Holding
<1>4. Cached' = Cached
  BY <1>1 DEF Cached
<1>5. OneOut' /\ Ends'
  BY <1>1, <1>2, <1>3, <1>4 DEF OneOut, Ends, SameView
<1>6. Turns'
  BY <1>1, <1>2, <1>3, <1>4 DEF Turns, OutThere, Holder, Holding, SameView
<1>7. Flags'
  BY <1>1, <1>2, <1>3, <1>4 DEF Flags, Signalled, Turns, OneOut, OutThere, Holder, Holding, SameView
<1>8. Rows'
  BY <1>1, <1>2, RowsKept DEF Timing
<1>9. Counted' /\ Elements'
  BY <1>1, <1>2, <1>3, <1>4 DEF Counted, Uncounted, Sent, Elements, Failed, Need, SameView
<1>. QED BY <1>5, <1>6, <1>7, <1>8, <1>9

LEMMA NextOpenKeeps ==
  ASSUME Typed, Typed', InStep, Timed, NEW r \in Receivers, NextOpen(r)
  PROVE  InStep'
<1>. USE DEF InStep
<1>1. /\ flagRing' = ""
      /\ UNCHANGED <<flagCSV, csv, ring, free, parked, sizeS, quit, tree, read>>
      /\ UNCHANGED <<ppc, sizeP, sec, begun, program>>
  BY DEF NextOpen, Core, files, pool, primary
<1>2. /\ rpc[r] = "next" /\ rpc'[r] = "opening"
      /\ \A s \in Receivers : s # r => rpc'[s] = rpc[s]
  BY CoreMoves DEF NextOpen, Places
<1>3. SameView
  BY <1>1, <1>2, CoreQuiet DEF Holding
<1>4. Cached' = Cached
  BY <1>1 DEF Cached
<1>5. OneOut'
  BY <1>1, <1>2, <1>3, <1>4 DEF OneOut, SameView
<1>6. Turns'
  BY <1>1, <1>2, <1>3, <1>4 DEF Turns, OutThere, Holder, Holding, SameView
<1>7. Flags'
  BY <1>1, <1>2, <1>3, <1>4 DEF Flags, Signalled, Turns, OneOut, OutThere, Holder, Holding, SameView
<1>8. Ends'
  BY <1>1, <1>2, <1>3, <1>4 DEF Ends, OutThere, Holder, Holding, SameView
<1>9. Rows'
  BY <1>1, <1>2, RowsKept DEF Timing
<1>10. Counted' /\ Elements'
  BY <1>1, <1>2, <1>3, <1>4 DEF Counted, Uncounted, Sent, Elements, Failed, Need, SameView
<1>. QED BY <1>5, <1>6, <1>7, <1>8, <1>9, <1>10

LEMMA ReadSizeKeeps ==
  ASSUME Typed, Typed', InStep, Timed, NEW r \in Receivers, ReadSize(r)
  PROVE  InStep'
<1>. USE DEF InStep
<1>1. /\ read' = [read EXCEPT ![r] = sizeS]
      /\ UNCHANGED <<flagRing, flagCSV, csv, ring, free, parked, sizeS, quit, tree>>
      /\ UNCHANGED <<ppc, sizeP, sec, begun, program>>
  BY DEF ReadSize, Core, files, pool, primary
<1>2. /\ rpc[r] = "read" /\ rpc'[r] = "add"
      /\ \A s \in Receivers : s # r => rpc'[s] = rpc[s]
  BY CoreMoves DEF ReadSize, Places
<1>3. SameView
  BY <1>1, <1>2, CoreQuiet DEF Holding
<1>4. Cached' = Cached
  BY <1>1 DEF Cached
<1>5. OneOut' /\ Turns' /\ Flags' /\ Ends'
  BY <1>1, <1>2, <1>3, <1>4 DEF OneOut, Turns, Flags, Signalled, Ends, SameView
<1>6. Rows'
  BY <1>1, <1>2, RowsKept DEF Timing
<1>7. Counted'
  BY <1>1, <1>2, <1>3, <1>4 DEF Counted, Uncounted, Sent, Typed, SameView
<1>8. Elements'
  BY <1>1, <1>2, <1>3, <1>4 DEF Elements, Failed, Need, SameView
<1>. QED BY <1>5, <1>6, <1>7, <1>8

LEMMA LastOpenKeeps ==
  ASSUME Typed, Typed', InStep, Timed, NEW r \in Receivers, LastOpen(r)
  PROVE  InStep'
<1>. USE DEF InStep
<1>1. /\ flagRing' = ""
      /\ UNCHANGED <<flagCSV, csv, ring, free, parked, sizeS, quit, tree, read>>
      /\ UNCHANGED <<ppc, sizeP, sec, begun, program>>
  BY DEF LastOpen, Core, files, pool, primary
<1>2. /\ rpc[r] = "last" /\ rpc'[r] = "closing"
      /\ \A s \in Receivers : s # r => rpc'[s] = rpc[s]
  BY CoreMoves DEF LastOpen, Places
<1>3. SameView
  BY <1>1, <1>2, CoreQuiet DEF Holding
<1>4. Cached' = Cached
  BY <1>1 DEF Cached
<1>5. OneOut' /\ Turns'
  BY <1>1, <1>2, <1>3, <1>4 DEF OneOut, Turns, SameView
<1>6. Flags' /\ Ends'
  BY <1>1, <1>2, <1>3, <1>4 DEF Flags, Signalled, Ends, SameView
<1>7. Rows'
  BY <1>1, <1>2, RowsKept DEF Timing
<1>8. Counted' /\ Elements'
  BY <1>1, <1>2, <1>3, <1>4 DEF Counted, Uncounted, Sent, Elements, Failed, Need, SameView
<1>. QED BY <1>5, <1>6, <1>7, <1>8

LEMMA LastWriteKeeps ==
  ASSUME Typed, Typed', InStep, Timed, NEW r \in Receivers, LastWrite(r)
  PROVE  InStep'
<1>. USE DEF InStep
<1>1. /\ flagRing' = "1"
      /\ UNCHANGED <<flagCSV, csv, ring, free, parked, sizeS, quit, tree, read>>
      /\ UNCHANGED <<ppc, sizeP, sec, begun, program>>
  BY DEF LastWrite, Core, files, pool, primary
<1>2. /\ rpc[r] = "closing" /\ rpc'[r] = "quit"
      /\ \A s \in Receivers : s # r => rpc'[s] = rpc[s]
  BY CoreMoves DEF LastWrite, Places
<1>3. SameView
  BY <1>1, <1>2, CoreQuiet DEF Holding
<1>4. Cached' = Cached
  BY <1>1 DEF Cached
<1>5. OneOut' /\ Turns' /\ Flags' /\ Ends'
  BY <1>1, <1>2, <1>3, <1>4 DEF OneOut, Turns, Flags, Signalled, Ends, SameView
<1>6. Rows'
  BY <1>1, <1>2, RowsKept DEF Timing
<1>7. Counted' /\ Elements'
  BY <1>1, <1>2, <1>3, <1>4 DEF Counted, Uncounted, Sent, Elements, Failed, Need, SameView
<1>. QED BY <1>5, <1>6, <1>7

LEMMA QuitKeeps ==
  ASSUME Typed, Typed', InStep, Timed, NEW r \in Receivers, Quit(r)
  PROVE  InStep'
<1>. USE DEF InStep
<1>1. /\ quit' = TRUE
      /\ UNCHANGED <<flagRing, flagCSV, csv, ring, free, parked, sizeS, tree, read>>
      /\ UNCHANGED <<ppc, sizeP, sec, begun, program>>
  BY DEF Quit, Core, files, pool, primary
<1>2. /\ rpc[r] = "quit" /\ rpc'[r] = "loop"
      /\ \A s \in Receivers : s # r => rpc'[s] = rpc[s]
  BY CoreMoves DEF Quit, Places
<1>3. SameView
  BY <1>1, <1>2, CoreQuiet DEF Holding
<1>4. Cached' = Cached
  BY <1>1 DEF Cached
<1>5. OneOut' /\ Turns' /\ Flags' /\ Ends'
  BY <1>1, <1>2, <1>3, <1>4 DEF OneOut, Turns, Flags, Signalled, Ends, SameView
<1>6. Rows'
  BY <1>1, <1>2, RowsKept DEF Timing
<1>7. Counted' /\ Elements'
  BY <1>1, <1>2, <1>3, <1>4 DEF Counted, Uncounted, Sent, Elements, Failed, Need, SameView
<1>. QED BY <1>5, <1>6, <1>7

\* the end of the row that is open
LEMMA EndOfRow ==
  ASSUME NEW m \in Nat
  PROVE  RowOf(2 * m) = <<"end", m * Increment>>
<1>1. (2 * m) % 2 = 0 /\ (2 * m + 1) \div 2 = m
  OBVIOUS
<1>. QED BY <1>1 DEF RowOf

LEMMA DequeueKeeps ==
  ASSUME Typed, Typed', InStep, Timed, NEW r \in Receivers, Dequeue(r)
  PROVE  InStep'
<1>. USE DEF InStep
<1>1. /\ ring # <<>> /\ ring' = Tail(ring)
      /\ tree' = [tree EXCEPT ![r] = Head(ring)]
      /\ UNCHANGED <<flagRing, flagCSV, csv, free, parked, sizeS, quit, read>>
      /\ UNCHANGED <<ppc, sizeP, sec, begun, program>>
  BY DEF Dequeue, Core, files, pool, primary
<1>2. /\ rpc[r] = "poll" /\ rpc'[r] = "destroy"
      /\ \A s \in Receivers : s # r => rpc'[s] = rpc[s]
  BY CoreMoves DEF Dequeue, Places
<1>3. /\ ring' = <<>> /\ OutThere /\ OutThere'
      /\ \A s \in Receivers : ~Holder(s) /\ (Holder(s)' <=> s = r)
      /\ Late' = Late /\ Pool' = Pool /\ Cached' = Cached /\ (SendsTree' <=> SendsTree)
  <2>1. Len(ring) = 1 /\ ring' = <<>>
    <3>1. ring \in Seq(Nat) /\ Len(ring) <= 1 /\ ring # <<>>
      BY <1>1 DEF OneOut, Typed
    <3>2. Len(ring) = 1
      <4>1. Len(ring) \in Nat \ {0} /\ Len(ring) <= 1
        BY <3>1, EmptySeq
      <4>2. \A n \in Nat \ {0} : n <= 1 => n = 1
        OBVIOUS
      <4>. QED BY <4>1, <4>2
    <3>3. Tail(ring) \in Seq(Nat) /\ Len(Tail(ring)) = 0
      BY <3>1, <3>2
    <3>4. Tail(ring) = <<>>
      BY <3>3, EmptySeq
    <3>. QED BY <1>1, <3>2, <3>4
  <2>2. \A s \in Receivers : ~Holder(s) /\ (Holder(s)' <=> s = r)
    BY <1>1, <1>2 DEF OneOut, Holder, Holding
  <2>3. Late' = Late
    BY <1>2 DEF Late
  <2>. QED BY <1>1, <2>1, <2>2, <2>3 DEF OutThere, Pool, Cached, SendsTree
<1>4. OneOut'
  BY <1>1, <1>2, <1>3 DEF OneOut, Holder, Holding
<1>5. Turns'
  BY <1>1, <1>2, <1>3 DEF Turns, OutThere, Holder, Holding
<1>6. Flags'
  BY <1>1, <1>2, <1>3 DEF Flags, Signalled, OutThere, Holder, Holding
<1>7. Ends'
  BY <1>1, <1>2, <1>3 DEF Ends, OutThere, Holder, Holding
<1>8. Rows'
  <2>1. RowOpened' <=> RowOpened
    BY <1>1, <1>2, <1>3 DEF RowOpened, Signalled, Timing
  <2>2. \A m \in Nat : RowsUpTo(m)' <=> RowsUpTo(m)
    BY <1>1, <2>1 DEF RowsUpTo
  <2>3. \E m \in Nat : RowsUpTo(m)'
    BY <2>2 DEF Rows
  <2>4. \A s \in Receivers : rpc'[s] \in Timing => s = r
    BY <1>2, <1>3 DEF Holder, Holding, Timing
  <2>5. Out(tree[r])'
    BY <1>1 DEF Rows, Out, Typed
  <2>. QED BY <1>1, <1>3, <2>3, <2>4, <2>5 DEF Rows, Out
<1>9. Counted'
  BY <1>1, <1>2, <1>3 DEF Counted, Uncounted, Sent
<1>10. Elements'
  <2>1. tree'[r] = Head(ring) /\ Need(tree[r])' = Need(Head(ring))
    BY <1>1 DEF Typed, Need, SendsTree
  <2>2. \A s \in Receivers : rpc'[s] = "destroy" => s = r
    BY <1>2, <1>3 DEF Holder, Holding
  <2>. QED BY <1>1, <1>2, <1>3, <2>1, <2>2 DEF Elements, Turns
<1>. QED BY <1>4, <1>5, <1>6, <1>7, <1>8, <1>9, <1>10

LEMMA FreeKeeps ==
  ASSUME Typed, Typed', InStep, Timed, NEW r \in Receivers, DestroyTree(r) \/ PutArray(r)
  PROVE  InStep'
<1>. USE DEF InStep
<1>1. /\ parked' \in [Receivers -> 0..(FlushAt - 1)] /\ free' \in Nat
      /\ free' + Cached' = free + Cached + Need(tree[r])
      /\ UNCHANGED <<flagRing, flagCSV, csv, ring, sizeS, quit, tree, read>>
      /\ UNCHANGED <<ppc, sizeP, sec, begun, program>>
  <2>1. PICK n \in Nat : n = Need(tree[r]) /\ Freed(r, n)
    BY DEF DestroyTree, PutArray, Need, Typed
  <2>2. parked' \in [Receivers -> 0..(FlushAt - 1)] /\ free' \in Nat
        /\ free' + Cached' = free + Cached + n
    BY <2>1, FreedIs
  <2>. QED BY <2>1, <2>2 DEF Freed, Core, files, primary
<1>2. /\ rpc[r] = "destroy" /\ rpc'[r] = "await"
      /\ \A s \in Receivers : s # r => rpc'[s] = rpc[s]
  BY CoreMoves DEF DestroyTree, PutArray, Freed, Places
<1>3. SameView
  BY <1>1, <1>2, CoreQuiet DEF Holding
<1>4. OneOut' /\ Ends'
  BY <1>1, <1>2, <1>3 DEF OneOut, Ends, SameView
<1>5. Turns'
  BY <1>1, <1>2, <1>3 DEF Turns, OutThere, Holder, Holding, SameView
<1>6. Flags'
  BY <1>1, <1>2, <1>3 DEF Flags, Signalled, OneOut, OutThere, Holder, Holding, SameView
<1>7. Rows'
  BY <1>1, <1>2, RowsKept DEF Timing
<1>8. Counted'
  BY <1>1, <1>2, <1>3 DEF Counted, Uncounted, Sent, SameView
<1>9. Elements'
  <2>1. free' + Cached' = Pool
    BY <1>1, <1>2 DEF Elements
  <2>2. ring' = <<>>
    BY <1>1, <1>2 DEF OneOut, Holder, Holding
  <2>3. ppc' # "enqueue" /\ \A s \in Receivers : rpc'[s] # "destroy"
    BY <1>1, <1>2 DEF OneOut, Turns, OutThere, Holder, Holding
  <2>. QED BY <1>3, <2>1, <2>2, <2>3 DEF Elements, SameView
<1>. QED BY <1>4, <1>5, <1>6, <1>7, <1>8, <1>9

LEMMA EndRowKeeps ==
  ASSUME Typed, Typed', InStep, Timed, NEW r \in Receivers, EndRow(r)
  PROVE  InStep'
<1>. USE DEF InStep
<1>1. /\ csv' = Append(csv, <<"end", tree[r]>>)
      /\ tree' = [tree EXCEPT ![r] = 0]
      /\ UNCHANGED <<flagRing, flagCSV, ring, free, parked, sizeS, quit, read>>
      /\ UNCHANGED <<ppc, sizeP, sec, begun, program>>
  BY DEF EndRow, Core, files, pool, primary
<1>2. /\ rpc[r] = "row" /\ rpc'[r] = "next"
      /\ \A s \in Receivers : s # r => rpc'[s] = rpc[s]
  BY CoreMoves DEF EndRow, Places
<1>3. SameView
  BY <1>1, <1>2, CoreQuiet DEF Holding
<1>4. Cached' = Cached
  BY <1>1 DEF Cached
<1>5. OneOut' /\ Ends'
  BY <1>1, <1>2, <1>3, <1>4 DEF OneOut, Ends, SameView
<1>6. Turns'
  BY <1>1, <1>2, <1>3, <1>4 DEF Turns, OutThere, Holder, Holding, SameView
<1>7. Flags'
  BY <1>1, <1>2, <1>3, <1>4 DEF Flags, Signalled, OutThere, Holder, Holding, SameView
<1>8. Rows'
  <2>1. PICK m \in Nat : RowsUpTo(m)
    BY DEF Rows
  <2>2. /\ RowOpened /\ ~RowOpened'
        /\ \A s \in Receivers : rpc'[s] \notin Timing
        /\ ring' = <<>> /\ ppc # "row"
    BY <1>1, <1>2 DEF Turns, OneOut, RowOpened, Signalled, OutThere, Holder, Holding, Timing
  <2>3. Len(csv') = Len(csv) + 1 /\ csv'[Len(csv) + 1] = <<"end", tree[r]>>
        /\ \A i \in 1..Len(csv) : csv'[i] = csv[i]
    BY <1>1 DEF Typed
  <2>4. sizeP = (m + 1) * Increment /\ Len(csv) = begun.row + 2 * m - 1
    BY <2>1, <2>2 DEF RowsUpTo
  <2>5. tree[r] = m * Increment
    <3>1. tree[r] = sizeP - Increment
      BY <1>2, <2>2 DEF Rows, Out, Timing
    <3>2. (m + 1) * Increment = m * Increment + Increment /\ m * Increment \in Nat
      BY Sizes, Times
    <3>. QED BY <2>4, <3>1, <3>2, Sizes
  <2>6. RowOf(2 * m) = <<"end", tree[r]>>
    BY <2>5, EndOfRow
  <2>7. RowsUpTo(m)'
    <3>1. Len(csv') = begun'.row + 2 * m
      <4>1. begun'.row = begun.row /\ begun.row \in Nat
        BY <1>1 DEF Typed
      <4>. QED BY <2>3, <2>4, <4>1
    <3>. QED BY <1>1, <2>2, <2>4, <3>1 DEF RowsUpTo
  <2>8. \A i \in Nat : 1 <= i /\ begun.row + i <= Len(csv') => csv'[begun.row + i] = RowOf(i)
    <3>. SUFFICES ASSUME NEW i \in Nat, 1 <= i, begun.row + i <= Len(csv')
                  PROVE  csv'[begun.row + i] = RowOf(i)
      OBVIOUS
    <3>1. begun.row \in Nat /\ Len(csv) \in Nat
      BY DEF Typed
    <3>2. CASE begun.row + i <= Len(csv)
      <4>1. csv[begun.row + i] = RowOf(i)
        BY <3>2 DEF Rows
      <4>2. begun.row + i \in 1..Len(csv)
        BY <3>1, <3>2
      <4>. QED BY <2>3, <4>1, <4>2
    <3>3. CASE ~(begun.row + i <= Len(csv))
      <4>1. Len(csv') = Len(csv) + 1 /\ Len(csv) = begun.row + 2 * m - 1
        BY <2>3, <2>4
      <4>2. begun.row + i = Len(csv) + 1
        BY <3>1, <3>3, <4>1
      <4>3. i = 2 * m
        BY <3>1, <4>1, <4>2
      <4>. QED BY <2>3, <2>6, <4>2, <4>3
    <3>. QED BY <3>2, <3>3
  <2>9. \A i \in Nat : 1 <= i /\ begun'.row + i <= Len(csv') => csv'[begun'.row + i] = RowOf(i)
    BY <1>1, <2>8
  <2>10. \E k \in Nat : RowsUpTo(k)'
    BY <2>7
  <2>. QED BY <2>2, <2>9, <2>10 DEF Rows
<1>9. Counted' /\ Elements'
  BY <1>1, <1>2, <1>3, <1>4 DEF Counted, Uncounted, Sent, Elements, Failed, Need, SameView
<1>. QED BY <1>5, <1>6, <1>7, <1>8, <1>9

LEMMA NextWriteKeeps ==
  ASSUME Typed, Typed', InStep, Timed, NEW r \in Receivers, NextWrite(r)
  PROVE  InStep'
<1>. USE DEF InStep
<1>1. /\ flagRing' = "0"
      /\ UNCHANGED <<flagCSV, csv, ring, free, parked, sizeS, quit, tree, read>>
      /\ UNCHANGED <<ppc, sizeP, sec, begun, program>>
  BY DEF NextWrite, Core, files, pool, primary
<1>2. /\ rpc[r] = "opening" /\ rpc'[r] = "read"
      /\ \A s \in Receivers : s # r => rpc'[s] = rpc[s]
  BY CoreMoves DEF NextWrite, Places
<1>3. /\ OutThere /\ ~OutThere' /\ ring' = <<>>
      /\ \A s \in Receivers : ~Holder(s)' /\ (Holder(s) <=> s = r)
      /\ Cardinality(Late)' = Cardinality(Late) + 1
      /\ Pool' = Pool /\ Cached' = Cached /\ (SendsTree' <=> SendsTree)
  <2>1. ring' = <<>> /\ \A s \in Receivers : ~Holder(s)' /\ (Holder(s) <=> s = r)
    BY <1>1, <1>2 DEF OneOut, Holder, Holding
  <2>2. Late' = Late \cup {r} /\ r \notin Late
    BY <1>2 DEF Late
  <2>3. Cardinality(Late)' = Cardinality(Late) + 1
    BY <2>2, LateIs, FS_AddElement
  <2>. QED BY <1>1, <1>2, <2>1, <2>3 DEF OutThere, Holder, Holding, Pool, Cached, SendsTree
<1>4. OneOut'
  BY <1>1, <1>2, <1>3 DEF OneOut, Holder
<1>5. Turns'
  BY <1>1, <1>2, <1>3 DEF Turns
<1>6. Flags'
  BY <1>1, <1>2, <1>3 DEF Flags, Signalled, Turns, Holder, Holding
<1>7. Ends'
  BY <1>1, <1>2, <1>3 DEF Ends
<1>8. Rows'
  BY <1>1, <1>2, RowsKept DEF Timing
<1>9. Counted'
  <2> DEFINE d == Cardinality(Late) * Increment
             d1 == Cardinality(Late)' * Increment
  <2>1. Uncounted = Increment + d /\ Uncounted' = 0 + d1 /\ Sent' = Sent
    BY <1>1, <1>3 DEF Uncounted, Sent
  <2>2. d1 = d + Increment /\ d \in Nat
    BY <1>3, LateIs, Sizes
  <2> HIDE DEF d, d1
  <2>3. Uncounted' = Uncounted
    BY <2>1, <2>2, Sizes
  <2>4. \A s \in Receivers : rpc'[s] = "add" => rpc[s] = "add"
    BY <1>2
  <2>. QED BY <1>1, <2>1, <2>3, <2>4 DEF Counted
<1>10. Elements'
  BY <1>1, <1>2, <1>3 DEF Elements, Failed, Need
<1>. QED BY <1>4, <1>5, <1>6, <1>7, <1>8, <1>9, <1>10

LEMMA AddSizeKeeps ==
  ASSUME Typed, Typed', InStep, Timed, NEW r \in Receivers, AddSize(r)
  PROVE  InStep'
<1>. USE DEF InStep
<1>1. /\ sizeS' = read[r] + Increment
      /\ read' = [read EXCEPT ![r] = 0]
      /\ UNCHANGED <<flagRing, flagCSV, csv, ring, free, parked, quit, tree>>
      /\ UNCHANGED <<ppc, sizeP, sec, begun, program>>
  BY DEF AddSize, Core, files, pool, primary
<1>2. /\ rpc[r] = "add" /\ rpc'[r] = "test"
      /\ \A s \in Receivers : s # r => rpc'[s] = rpc[s]
  BY CoreMoves DEF AddSize, Places
<1>3. /\ OutThere' <=> OutThere
      /\ \A s \in Receivers : Holder(s)' <=> Holder(s)
      /\ Cardinality(Late) = Cardinality(Late)' + 1 /\ Cardinality(Late)' \in Nat
      /\ Late # {} /\ Pool' = Pool /\ Cached' = Cached /\ (SendsTree' <=> SendsTree)
  <2>1. \A s \in Receivers : Holder(s)' <=> Holder(s)
    BY <1>2 DEF Holder, Holding
  <2>2. Late' = Late \ {r} /\ r \in Late
    BY <1>2 DEF Late
  <2>3. Cardinality(Late)' = Cardinality(Late) - 1 /\ Cardinality(Late)' \in Nat
    <3>1. Cardinality(Late \ {r}) = Cardinality(Late) - 1
      BY <2>2, LateIs, FS_RemoveElement
    <3>2. Cardinality(Late \ {r}) \in Nat
      BY LateIs, FS_Subset, FS_CardinalityType
    <3>. QED BY <2>2, <3>1, <3>2
  <2>4. Cardinality(Late) \in Nat
    BY LateIs
  <2>. QED BY <1>1, <2>1, <2>2, <2>3, <2>4 DEF OutThere, Pool, Cached, SendsTree
<1>4. OneOut'
  BY <1>1, <1>2, <1>3 DEF OneOut, Holder, Holding
<1>5. Turns'
  BY <1>1, <1>2, <1>3 DEF Turns, Holder, Holding
<1>6. Flags'
  BY <1>1, <1>2, <1>3 DEF Flags, Signalled
<1>7. Ends'
  BY <1>1, <1>2, <1>3 DEF Ends
<1>8. Rows'
  BY <1>1, <1>2, RowsKept DEF Timing
<1>9. Counted'
  <2> DEFINE d == Cardinality(Late) * Increment
             d1 == Cardinality(Late)' * Increment
  <2> DEFINE u == Uncounted
             u1 == Uncounted'
             t == Sent
             t1 == Sent'
  <2>1. d = d1 + Increment /\ d1 \in Nat
    <3>1. Cardinality(Late)' \in Nat /\ Cardinality(Late) = Cardinality(Late)' + 1
      BY <1>3
    <3>2. \A k \in Nat : (k + 1) * Increment = k * Increment + Increment /\ k * Increment \in Nat
      BY Sizes, Times
    <3>. QED BY <3>1, <3>2
  <2>2. u = u1 + Increment /\ u1 \in Nat
    <3>1. CASE OutThere
      <4>1. u = Increment + d /\ u1 = Increment + d1
        BY <1>3, <3>1 DEF Uncounted
      <4> HIDE DEF d, d1, u, u1
      <4>. QED BY <2>1, <4>1, Sizes
    <3>2. CASE ~OutThere
      <4>1. u = 0 + d /\ u1 = 0 + d1
        BY <1>3, <3>2 DEF Uncounted
      <4> HIDE DEF d, d1, u, u1
      <4>. QED BY <2>1, <4>1, Sizes
    <3>. QED BY <3>1, <3>2
  <2>3. t1 = t /\ t \in Nat
    BY <1>1, Sizes DEF Sent, Typed
  <2>4. \A s \in Receivers : rpc[s] = "add" => read[s] + u <= t /\ read[s] \in Nat
    BY DEF Counted, Typed
  <2>5. sizeS' + u1 <= t1
    <3>1. read[r] + u <= t /\ read[r] \in Nat /\ sizeS' = read[r] + Increment
      BY <1>1, <1>2, <2>4
    <3> HIDE DEF d, d1, u, u1, t, t1
    <3>. QED BY <2>2, <2>3, <3>1, Sizes
  <2>6. ASSUME NEW s \in Receivers, rpc'[s] = "add"
        PROVE  read'[s] + u1 <= t1
    <3>1. rpc[s] = "add" /\ read'[s] = read[s]
      BY <1>1, <1>2, <2>6 DEF Typed
    <3>2. read[s] + u <= t /\ read[s] \in Nat
      BY <2>4, <3>1
    <3> HIDE DEF d, d1, u, u1, t, t1
    <3>. QED BY <2>2, <2>3, <3>1, <3>2, Sizes
  <2>. QED BY <2>5, <2>6 DEF Counted
<1>10. Elements'
  BY <1>1, <1>2, <1>3 DEF Elements, Failed, Need
<1>. QED BY <1>4, <1>5, <1>6, <1>7, <1>8, <1>9, <1>10

LEMMA TestSizeKeeps ==
  ASSUME Typed, Typed', InStep, Timed, NEW r \in Receivers, TestSize(r)
  PROVE  InStep'
<1>. USE DEF InStep
<1>1. /\ UNCHANGED <<flagRing, flagCSV, csv, ring, free, parked, sizeS, quit, tree, read>>
      /\ UNCHANGED <<ppc, sizeP, sec, begun, program>>
  BY DEF TestSize, Core, files, pool, primary
<1>2. /\ rpc[r] = "test" /\ rpc'[r] = IF sizeS > Final THEN "last" ELSE "loop"
      /\ \A s \in Receivers : s # r => rpc'[s] = rpc[s]
  BY CoreMoves DEF TestSize, Places
<1>3. SameView
  BY <1>1, <1>2, CoreQuiet DEF Holding
<1>4. Cached' = Cached
  BY <1>1 DEF Cached
<1>5. OneOut' /\ Flags'
  BY <1>1, <1>2, <1>3, <1>4 DEF OneOut, Flags, Signalled, SameView
<1>6. Turns'
  BY <1>1, <1>2, <1>3, <1>4 DEF Turns, SameView
<1>7. Ends'
  <2>1. ASSUME sizeS > Final
        PROVE  ppc = "done" /\ ~OutThere /\ Late = {}
    <3> DEFINE c == Cardinality(Late)
               d == c * Increment
               u == IF OutThere THEN Increment ELSE 0
    <3>1. sizeS + (u + d) <= Sent /\ sizeS \in Nat /\ sizeP \in Nat
      BY DEF Counted, Uncounted, Typed
    <3>2. c \in Nat /\ d \in Nat /\ (c # 0 => d >= Increment)
      BY LateIs, Sizes, Times
    <3>3. u \in Nat /\ (OutThere <=> u = Increment) /\ (~OutThere <=> u = 0)
      BY Sizes
    <3> HIDE DEF c, d, u
    <3>4. ppc # "row"
      <4>. SUFFICES ASSUME ppc = "row" PROVE FALSE
        OBVIOUS
      <4>1. Sent = sizeP + Increment /\ sizeP <= Final /\ OutThere
        BY DEF Sent, Turns
      <4>. QED BY <2>1, <3>1, <3>2, <3>3, <4>1, Sizes
    <3>5. Sent = sizeP /\ sizeP <= Final + Increment
      BY <3>4 DEF Sent, Turns
    <3>6. u = 0 /\ c = 0 /\ sizeP > Final
      BY <2>1, <3>1, <3>2, <3>3, <3>5, Sizes
    <3>7. Late = {}
      BY <3>6, LateIs, FS_EmptySet DEF c
    <3>8. ~OutThere
      BY <3>3, <3>6
    <3>9. ~(sizeP <= Final)
      BY <3>6, Sizes DEF Typed
    <3>. QED BY <3>7, <3>8, <3>9, <3>4 DEF Turns
  <2>2. CASE sizeS > Final
    BY <1>1, <1>2, <1>3, <2>1, <2>2 DEF Ends, SameView
  <2>3. CASE ~(sizeS > Final)
    BY <1>1, <1>2, <1>3, <2>3 DEF Ends, SameView
  <2>. QED BY <2>2, <2>3
<1>8. Rows'
  BY <1>1, <1>2, RowsKept DEF Timing
<1>9. Counted' /\ Elements'
  BY <1>1, <1>2, <1>3, <1>4 DEF Counted, Uncounted, Sent, Elements, Failed, Need, SameView
<1>. QED BY <1>5, <1>6, <1>7, <1>8, <1>9

-----------------------------------------------------------------------------
(* A message is sent, and the secondary process is started                 *)

LEMMA EnqueueKeeps ==
  ASSUME Typed, Typed', InStep, Timed, Enqueue
  PROVE  InStep'
<1>. USE DEF InStep
<1>1. /\ ppc = "enqueue" /\ ppc' = "row"
      /\ Len(ring) < RingSize => ring' = Append(ring, sizeP) /\ free' = free
      /\ UNCHANGED <<flagRing, flagCSV, csv, sizeP, parked>>
      /\ UNCHANGED <<sec, sizeS, quit, rpc, tree, read, begun, program>>
  BY DEF Enqueue, PrimaryStep, files, pool, secondary
<1>2. /\ ~OutThere /\ OutThere' /\ free' = free
      /\ Len(ring') = 1 /\ ring' # <<>> /\ Head(ring') = sizeP
      /\ \A s \in Receivers : ~Holder(s) /\ ~Holder(s)'
      /\ Late' = Late /\ Cached' = Cached /\ Pool' = Pool
    <2>1. ~OutThere
    BY <1>1 DEF Turns
  <2>2. ring = <<>> /\ Len(ring) = 0
    BY <2>1 DEF OutThere
  <2>3. ring' = <<sizeP>> /\ free' = free
    BY <1>1, <2>2, Sizes
  <2>4. \A s \in Receivers : ~Holder(s) /\ ~Holder(s)'
    BY <1>1, <2>1 DEF OutThere, Holder
  <2>. QED BY <1>1, <2>1, <2>3, <2>4 DEF OutThere, Late, Cached, Pool
<1>3. OneOut'
  BY <1>1, <1>2 DEF OneOut, Holder, Holding
<1>4. Turns'
  BY <1>1, <1>2 DEF Turns
<1>5. Flags'
  BY <1>1, <1>2 DEF Flags, Signalled, Turns
<1>6. Ends'
  BY <1>1, <1>2 DEF Ends
<1>7. Rows'
  <2>1. ~RowOpened /\ ~RowOpened'
    BY <1>1, <1>2 DEF RowOpened, Signalled
  <2>2. \A m \in Nat : RowsUpTo(m)' <=> RowsUpTo(m)
    BY <1>1, <2>1 DEF RowsUpTo
  <2>3. \E m \in Nat : RowsUpTo(m)'
    BY <2>2 DEF Rows
  <2>4. Out(Head(ring))' /\ \A s \in Receivers : rpc'[s] \notin Timing
    BY <1>1, <1>2 DEF Out, Holder, Holding, Timing
  <2>. QED BY <1>1, <2>3, <2>4 DEF Rows
<1>8. Counted'
  <2> DEFINE d == Cardinality(Late) * Increment
  <2>1. Uncounted = 0 + d /\ Uncounted' = Increment + d /\ d \in Nat
    BY <1>1, <1>2, LateIs DEF Uncounted
  <2>2. Sent = sizeP /\ Sent' = sizeP + Increment
    BY <1>1 DEF Sent
  <2>3. Uncounted' = Uncounted + Increment /\ Uncounted \in Nat
    <3> HIDE DEF d
    <3>. QED BY <2>1, Sizes
  <2>4. \A s \in Receivers : rpc[s] = "add" => read[s] \in Nat /\ read[s] + Uncounted <= sizeP
    BY <2>2 DEF Counted, Typed
  <2>5. sizeS + Uncounted <= sizeP /\ sizeS \in Nat /\ sizeP \in Nat
    BY <2>2 DEF Counted, Typed
  <2> DEFINE u == Uncounted
             u1 == Uncounted'
             t1 == Sent'
  <2>6. sizeS + u1 <= t1
    <3>1. u1 = u + Increment /\ u \in Nat /\ t1 = sizeP + Increment /\ sizeS + u <= sizeP
      BY <2>2, <2>3, <2>5
    <3> HIDE DEF u, u1, t1
    <3>. QED BY <2>5, <3>1, Sizes
  <2>7. \A s \in Receivers : rpc[s] = "add" => read[s] + u1 <= t1
    <3>1. u1 = u + Increment /\ u \in Nat /\ t1 = sizeP + Increment
      BY <2>2, <2>3
    <3>2. \A s \in Receivers : rpc[s] = "add" => read[s] \in Nat /\ read[s] + u <= sizeP
      BY <2>4
    <3> HIDE DEF u, u1, t1
    <3>. QED BY <2>5, <3>1, <3>2, Sizes
  <2>. QED BY <1>1, <2>6, <2>7 DEF Counted
<1>9. Elements'
  <2>1. Need(Head(ring))' = Need(sizeP)
    BY <1>1, <1>2 DEF Need, SendsTree
  <2>2. ring' # <<>> /\ \A s \in Receivers : rpc'[s] # "destroy"
    BY <1>1, <1>2 DEF Holder, Holding
  <2>. QED BY <1>1, <1>2, <2>1, <2>2 DEF Elements
<1>. QED BY <1>3, <1>4, <1>5, <1>6, <1>7, <1>8, <1>9

LEMMA LaunchKeeps ==
  ASSUME Typed, Typed', InStep, Timed, Launch
  PROVE  InStep'
<1>. USE DEF InStep
<1>1. /\ sec = "off" /\ sec' = "open" /\ \A s \in Receivers : rpc'[s] = "loop"
      /\ UNCHANGED <<flagRing, flagCSV, csv, ppc, sizeP, ring, free, parked>>
      /\ UNCHANGED <<sizeS, quit, tree, read, begun, program>>
  BY DEF Launch, MainStep, primary, pool
<1>2. \A s \in Receivers : rpc[s] \in {"off", "loop", "poll"}
  BY <1>1 DEF Turns
<1>3. /\ ~OutThere /\ ~OutThere' /\ Late = {} /\ Late' = {}
      /\ \A s \in Receivers : ~Holder(s)
      /\ Cached' = Cached /\ Pool' = Pool /\ (SendsTree' <=> SendsTree)
  BY <1>1, <1>2 DEF Turns, OutThere, Holder, Holding, Late, Cached, Pool, SendsTree
<1>4. OneOut'
  BY <1>1, <1>2, <1>3 DEF OneOut, Holder, Holding
<1>5. Turns'
  BY <1>1, <1>2, <1>3 DEF Turns
<1>6. Flags'
  BY <1>1, <1>2, <1>3 DEF Flags, Signalled, Turns
<1>7. Ends'
  BY <1>1, <1>2, <1>3 DEF Ends, Turns
<1>8. Rows'
  <2>1. \A s \in Receivers : rpc'[s] \in Timing <=> rpc[s] \in Timing
    BY <1>1, <1>2 DEF Timing
  <2>. QED BY <1>1, <2>1, RowsKept
<1>9. Counted'
  BY <1>1, <1>2, <1>3 DEF Counted, Uncounted, Sent, Turns
<1>10. Elements'
  BY <1>1, <1>2, <1>3 DEF Elements, Failed, Need
<1>. QED BY <1>4, <1>5, <1>6, <1>7, <1>8, <1>9, <1>10

LEMMA ReadyOpenKeeps ==
  ASSUME Typed, Typed', InStep, Timed, ReadyOpen
  PROVE  InStep'
<1>. USE DEF InStep
<1>1. /\ sec = "open" /\ sec' = "opening" /\ flagRing' = ""
      /\ UNCHANGED <<flagCSV, csv, ppc, sizeP, ring, free, parked>>
      /\ UNCHANGED <<rpc, sizeS, quit, tree, read, begun, program>>
  BY DEF ReadyOpen, MainStep, primary, pool
<1>2. SameView /\ Cached' = Cached
  BY <1>1, Quiet
<1>3. OneOut' /\ Turns' /\ Flags'
  BY <1>1, <1>2 DEF OneOut, Turns, Flags, Signalled, SameView
<1>4. Ends'
  BY <1>1, <1>2 DEF Ends, Turns, SameView
<1>5. Rows'
  BY <1>1, <1>2 DEF Rows, RowsUpTo, RowOpened, Signalled, Out, RowOf, SameView
<1>6. Counted' /\ Elements'
  BY <1>1, <1>2 DEF Counted, Uncounted, Sent, Elements, Failed, Need, SameView
<1>. QED BY <1>3, <1>4, <1>5, <1>6

LEMMA ReadyWriteKeeps ==
  ASSUME Typed, Typed', InStep, Timed, ReadyWrite
  PROVE  InStep'
<1>. USE DEF InStep
<1>1. /\ sec = "opening" /\ sec' = "ready" /\ flagRing' = "0"
      /\ UNCHANGED <<flagCSV, csv, ppc, sizeP, ring, free, parked>>
      /\ UNCHANGED <<rpc, sizeS, quit, tree, read, begun, program>>
  BY DEF ReadyWrite, MainStep, primary, pool
<1>2. SameView /\ Cached' = Cached
  BY <1>1, Quiet
<1>3. OneOut' /\ Turns'
  BY <1>1, <1>2 DEF OneOut, Turns, SameView
<1>4. Flags'
  BY <1>1, <1>2 DEF Flags, Signalled, Turns, SameView
<1>5. Ends'
  BY <1>1, <1>2 DEF Ends, Turns, SameView
<1>6. Rows'
  BY <1>1, <1>2 DEF Rows, RowsUpTo, RowOpened, Signalled, Out, RowOf, SameView
<1>7. Counted' /\ Elements'
  BY <1>1, <1>2 DEF Counted, Uncounted, Sent, Elements, Failed, Need, SameView
<1>. QED BY <1>3, <1>4, <1>5, <1>6, <1>7

LEMMA PrimaryKeeps == ASSUME Typed, Typed', InStep, Timed, Primary PROVE InStep'
BY WaitRingKeeps, ClearOpenKeeps, ClearWriteKeeps, CopyKeeps,
   EnqueueKeeps, StartRowKeeps, SignalOpenKeeps, SignalWriteKeeps DEF Primary

LEMMA CoreKeeps ==
  ASSUME Typed, Typed', InStep, Timed, NEW r \in Receivers, Receiver(r)
  PROVE  InStep'
BY LoopKeeps, EmptyKeeps, DequeueKeeps, FreeKeeps, AwaitRowKeeps,
   RowOpenKeeps, RowWriteKeeps, EndRowKeeps, NextOpenKeeps, NextWriteKeeps, ReadSizeKeeps,
   AddSizeKeeps, TestSizeKeeps, LastOpenKeeps, LastWriteKeeps, QuitKeeps DEF Receiver

LEMMA OtherKeeps ==
  ASSUME Typed, Typed', InStep, Timed, User \/ SecondaryMain \/ UNCHANGED vars
  PROVE  InStep'
<1>1. ~User
  BY DEF InStep, Turns, User, AskTree, AskArray, EnterExit, PrimaryStep
<1>2. CASE SecondaryMain
  BY <1>2, LaunchKeeps, ReadyOpenKeeps, ReadyWriteKeeps DEF SecondaryMain
<1>3. CASE UNCHANGED vars
  <2>1. /\ UNCHANGED <<flagRing, flagCSV, csv, ppc, sizeP, ring, free, parked>>
        /\ UNCHANGED <<sec, sizeS, quit, rpc, tree, read, begun, program>>
    BY <1>3 DEF vars, files, primary, pool, secondary
  <2>2. SameView /\ Cached' = Cached
    BY <2>1, Quiet
  <2>. USE DEF InStep
  <2>3. OneOut' /\ Turns'
    BY <2>1, <2>2 DEF SameView, Turns
  <2>4. Flags' /\ Ends'
    BY <2>1, <2>2 DEF SameView, Flags, Signalled, Ends
  <2>5. Counted'
    BY <2>1, <2>2 DEF SameView, Counted, Uncounted, Sent
  <2>6. Rows'
    BY <2>1, RowsKept
  <2>7. Elements'
    BY <2>1, <2>2 DEF SameView, Elements, Failed, Need
  <2>. QED BY <2>3, <2>4, <2>5, <2>6, <2>7
<1>. QED BY <1>1, <1>2, <1>3

-----------------------------------------------------------------------------
(* A run begins                                                            *)

LEMMA NothingCached ==
  ASSUME Typed, \A r \in Receivers : parked[r] = 0
  PROVE  Cached = 0
<1>1. parked \in [Receivers -> 0..0]
  BY DEF Typed
<1>2. Cached \in 0..(Cardinality(Receivers) * 0)
  BY <1>1, Sizes, SumBetween DEF Cached
<1>3. Cardinality(Receivers) * 0 = 0
  BY Sizes, Times
<1>. QED BY <1>2, <1>3

\* the programs are started, and have done nothing yet
Fresh ==
  /\ ppc = Start /\ sizeP = FirstSize
  /\ ring = <<>> /\ free = Pool /\ parked = Each(0)
  /\ sec = "off" /\ sizeS = Increment /\ quit = FALSE /\ rpc = Each("off")
  /\ begun.row = Len(csv)

LEMMA FreshInStep ==
  ASSUME Typed, Fresh, Timed, flagRing # "0", flagCSV # "0"
  PROVE  InStep
<1>1. /\ ppc = "wait" /\ sizeP = Increment /\ ring = <<>> /\ Len(ring) = 0 /\ free = Pool
      /\ sec = "off" /\ sizeS = Increment /\ ~quit
      /\ \A r \in Receivers : rpc[r] = "off" /\ parked[r] = 0
  BY DEF Fresh, Start, FirstSize, Each
<1>2. ~OutThere /\ Late = {} /\ \A r \in Receivers : ~Holder(r)
  BY <1>1 DEF OutThere, Late, Holder, Holding
<1>3. OneOut
  BY <1>1, <1>2 DEF OneOut
<1>4. Turns
  BY <1>1, <1>2, Sizes DEF Turns
<1>5. Flags
  BY <1>1, <1>2 DEF Flags, Signalled
<1>6. Ends
  BY <1>1, <1>2 DEF Ends
<1>7. Counted
  <2>1. Uncounted = 0
    <3>1. Cardinality(Late) = 0
      BY <1>2, FS_EmptySet
    <3>2. 0 * Increment = 0
      BY Sizes, Times
    <3>3. Uncounted = 0 + Cardinality(Late) * Increment
      BY <1>2 DEF Uncounted
    <3>. QED BY <3>1, <3>2, <3>3
  <2>2. Sent = Increment
    BY <1>1 DEF Sent
  <2>. QED BY <1>1, <2>1, <2>2, Sizes DEF Counted
<1>8. Rows
  <2>1. RowsUpTo(0)
    <3>1. ~RowOpened
      BY <1>1 DEF RowOpened, Timing
    <3>2. sizeP = (0 + 1) * Increment
      BY <1>1, Sizes
    <3>3. Len(csv) = begun.row + 2 * 0
      BY DEF Fresh, Typed
    <3>. QED BY <3>1, <3>2, <3>3 DEF RowsUpTo
  <2>2. \A i \in Nat : ~(1 <= i /\ begun.row + i <= Len(csv))
    <3>1. begun.row = Len(csv) /\ Len(csv) \in Nat
      BY DEF Fresh, Typed
    <3>. QED BY <3>1
  <2>3. \A r \in Receivers : rpc[r] \notin Timing
    BY <1>1 DEF Timing
  <2>. QED BY <1>1, <2>1, <2>2, <2>3 DEF Rows
<1>9. Elements
  <2>1. Cached = 0
    BY <1>1, NothingCached
  <2>2. free + Cached = Pool
    BY <1>1, <2>1, Sizes
  <2>. QED BY <1>1, <2>2 DEF Elements
<1>. QED BY <1>3, <1>4, <1>5, <1>6, <1>7, <1>8, <1>9 DEF InStep

LEMMA FreshSingle ==
  ASSUME Fresh, ~Timed, flagRing = "1", flagCSV = "1", csv = <<>>
  PROVE  Single
BY DEF Fresh, Single, Start, Each

LEMMA KillFresh == ASSUME Kill PROVE Fresh' /\ UNCHANGED <<files, program>>
<1>1. begun'.row = Len(csv')
  BY DEF Kill, files
<1>. QED BY <1>1 DEF Kill, Fresh, Start, FirstSize, Pool, Timed, Each

-----------------------------------------------------------------------------
(* The programs that send one message                                      *)

LEMMA SingleKept ==
  ASSUME Typed, Single, ~Timed, [Next]_vars, ~Kill
  PROVE  Single'
<1>. USE DEF Single
<1>1. CASE AskTree \/ AskArray \/ EnterExit
  BY <1>1 DEF AskTree, AskArray, EnterExit, PrimaryStep, files, pool, secondary, Pool
<1>2. CASE CopyTree
  BY <1>2 DEF CopyTree, PrimaryStep, files, pool, secondary
<1>3. CASE CopyArray
  BY <1>3 DEF CopyArray, PrimaryStep, files, pool, secondary
<1>4. CASE Enqueue
  BY <1>4 DEF Enqueue, PrimaryStep, files, pool, secondary
<1>5. CASE WaitRing \/ ClearOpen \/ ClearWrite \/ StartRow \/ SignalOpen \/ SignalWrite
  BY <1>5 DEF WaitRing, ClearOpen, ClearWrite, StartRow, SignalOpen, SignalWrite,
     PrimaryStep
<1>6. CASE SecondaryMain
  <2>1. CASE Launch
    BY <2>1 DEF Launch, MainStep, primary, pool, Pool
  <2>2. CASE ReadyOpen \/ ReadyWrite
    BY <2>2 DEF ReadyOpen, ReadyWrite, MainStep
  <2>. QED BY <1>6, <2>1, <2>2 DEF SecondaryMain
<1>7. ASSUME NEW r \in Receivers, Receiver(r) PROVE Single'
  <2>1. CASE Loop(r)
    BY <2>1 DEF Loop, Core, Typed, files, pool, primary, Pool
  <2>2. CASE Empty(r)
    BY <2>2 DEF Empty, Core, Typed, files, pool, primary, Pool
  <2>3. CASE Dequeue(r)
    BY <2>3 DEF Dequeue, Core, Typed, files, pool, primary
  <2>4. CASE Quit(r)
    BY <2>4 DEF Quit, Core, Typed, files, pool, primary
  <2>5. CASE DestroyTree(r) \/ PutArray(r)
    <3>1. PICK n \in Nat : Freed(r, n)
      BY <2>5 DEF DestroyTree, PutArray, Typed
    <3>2. rpc[r] = "destroy" /\ ppc \notin {"ask", "copy", "segv", "panic", "enqueue"}
      BY <3>1 DEF Freed, Core
    <3>. QED BY <3>1, <3>2 DEF Freed, Core, Typed, files, primary
  <2>6. CASE AwaitRow(r) \/ RowOpen(r) \/ RowWrite(r) \/ EndRow(r) \/ NextOpen(r)
    BY <2>6 DEF AwaitRow, RowOpen, RowWrite, EndRow, NextOpen, Core
  <2>7. CASE NextWrite(r) \/ ReadSize(r) \/ AddSize(r) \/ TestSize(r) \/ LastOpen(r) \/ LastWrite(r)
    BY <2>7 DEF NextWrite, ReadSize, AddSize, TestSize, LastOpen, LastWrite, Core
  <2>. QED BY <1>7, <2>1, <2>2, <2>3, <2>4, <2>5, <2>6, <2>7 DEF Receiver
<1>8. CASE UNCHANGED vars
  BY <1>8 DEF vars, files, primary, pool, secondary, Pool
<1>. QED BY <1>1, <1>2, <1>3, <1>4, <1>5, <1>6, <1>7, <1>8 DEF Next, Primary, User

-----------------------------------------------------------------------------
(* Where a copy fails                                                      *)

LEMMA FailedStays ==
  ASSUME [Next]_vars, Failed'
  PROVE  \/ Failed /\ UNCHANGED <<ppc, sizeP, begun, program>>
         \/ CopyTree \/ CopyArray \/ AskArray
<1>1. CASE Kill
  BY <1>1 DEF Kill, Failed, Start
<1>2. CASE User
  BY <1>2 DEF User, AskTree, EnterExit, PrimaryStep, Failed
<1>3. CASE Primary
  BY <1>3 DEF Primary, WaitRing, ClearOpen, ClearWrite, Enqueue, StartRow, SignalOpen,
     SignalWrite, PrimaryStep, Failed
<1>4. CASE SecondaryMain
  BY <1>4 DEF SecondaryMain, Launch, ReadyOpen, ReadyWrite, MainStep, primary, Failed
<1>5. ASSUME NEW r \in Receivers, Receiver(r)
      PROVE  UNCHANGED <<ppc, sizeP, begun, program>>
  BY <1>5 DEF Receiver, Loop, Empty, Dequeue, DestroyTree, PutArray, Freed, AwaitRow, RowOpen,
     RowWrite, EndRow, NextOpen, NextWrite, ReadSize, AddSize, TestSize, LastOpen, LastWrite,
     Quit, Core, primary
<1>6. CASE UNCHANGED vars
  BY <1>6 DEF vars, primary, Failed
<1>. QED BY <1>1, <1>2, <1>3, <1>4, <1>5, <1>6 DEF Next, Failed

\* at a copy all elements are in the pool, but for those that are cached
LEMMA CopyFinds ==
  ASSUME MInv, begun.clean, ppc = "copy"
  PROVE  /\ ring = <<>> /\ free + Cached = Pool
         /\ free \in Nat /\ Cached \in Nat /\ Pool \in Nat /\ Parkable \in Nat
         /\ Cached <= Parkable
<1>1. free \in Nat /\ Pool \in Nat /\ Typed
  BY Sizes DEF MInv, Typed
<1>2. CASE Timed
  <2>1. InStep
    BY <1>2 DEF MInv
  <2>2. ~OutThere
    BY <2>1 DEF InStep, Turns
  <2>3. ring = <<>> /\ \A r \in Receivers : rpc[r] # "destroy"
    BY <2>2 DEF OutThere, Holder, Holding
  <2>4. free + Cached = Pool
    BY <2>1, <2>3 DEF InStep, Elements, Failed
  <2>5. Parkable = Cardinality(Receivers) * (FlushAt - 1)
    BY <1>2 DEF Parkable
  <2>6. Cached \in 0..Parkable
    BY <1>1, <2>5, CachedIs
  <2>7. Parkable \in Nat
    <3>1. FlushAt - 1 \in Nat /\ Cardinality(Receivers) \in Nat
      BY Sizes
    <3>. QED BY <2>5, <3>1, Times
  <2>. QED BY <1>1, <2>3, <2>4, <2>6, <2>7
<1>3. CASE ~Timed
  <2>1. Single
    BY <1>3 DEF MInv
  <2>2. ring = <<>> /\ free = Pool /\ \A r \in Receivers : parked[r] = 0
    BY <2>1 DEF Single
  <2>3. Cached = 0 /\ Parkable = 0
    BY <1>1, <1>3, <2>2, NothingCached DEF Parkable
  <2>. QED BY <1>1, <2>2, <2>3
<1>. QED BY <1>2, <1>3

LEMMA TightKept ==
  ASSUME MInv, [Next]_vars
  PROVE  FailsOnlyWhenTight'
<1>. SUFFICES ASSUME begun'.clean, Failed'
              PROVE  \/ Need(sizeP)' > Pool' - Parkable'
                     \/ program' = "oneWayArray" /\ sizeP' > ElementSize
  BY DEF FailsOnlyWhenTight
<1>1. CASE Failed /\ UNCHANGED <<ppc, sizeP, begun, program>>
  BY <1>1 DEF MInv, FailsOnlyWhenTight, Need, SendsTree, Timed, Pool, Parkable
<1>2. CASE CopyTree \/ CopyArray
  <2>1. /\ ppc = "copy" /\ UNCHANGED <<sizeP, begun, program>>
        /\ Need(sizeP) \in Nat /\ free < Need(sizeP)
    <3>1. CASE CopyTree
      BY <3>1 DEF MInv, Typed, CopyTree, PrimaryStep, Failed, Need
    <3>2. CASE CopyArray
      BY <3>2 DEF MInv, Typed, CopyArray, PrimaryStep, Failed, Need
    <3>. QED BY <1>2, <3>1, <3>2
  <2>2. Need(sizeP)' = Need(sizeP) /\ Pool' = Pool /\ Parkable' = Parkable
    BY <2>1 DEF Need, SendsTree, Timed, Pool, Parkable
  <2> DEFINE n == Need(sizeP)
             c == Cached
             p == Pool
             k == Parkable
  <2>3. /\ free + c = p /\ free \in Nat /\ c \in Nat /\ p \in Nat /\ k \in Nat /\ c <= k
        /\ n \in Nat /\ free < n
    BY <2>1, CopyFinds
  <2>4. n > p - k
    <3> HIDE DEF n, c, p, k
    <3>. QED BY <2>3
  <2>. QED BY <2>2, <2>4
<1>3. CASE AskArray
  <2>1. ~Timed
    BY <1>3 DEF MInv, InStep, Turns, AskArray, PrimaryStep
  <2>2. program' = program /\ ~SendsTree /\ sizeP' > ElementSize
    BY <1>3 DEF AskArray, PrimaryStep, Failed
  <2>3. program = "oneWayArray"
    BY <2>1, <2>2, MpAssumption DEF SendsTree, Timed, MInv
  <2>. QED BY <2>2, <2>3
<1>. QED BY <1>1, <1>2, <1>3, FailedStays

-----------------------------------------------------------------------------
(* The theorems                                                            *)

LEMMA ProgramStays == ASSUME [Next]_vars PROVE program' = program
<1>1. CASE Kill \/ Primary \/ User
  BY <1>1 DEF Kill, Primary, User, WaitRing, ClearOpen, ClearWrite, CopyTree, CopyArray,
     Enqueue, StartRow, SignalOpen, SignalWrite, AskTree, AskArray, EnterExit, PrimaryStep
<1>2. CASE SecondaryMain
  BY <1>2 DEF SecondaryMain, Launch, ReadyOpen, ReadyWrite, MainStep
<1>3. ASSUME NEW r \in Receivers, Receiver(r) PROVE program' = program
  BY <1>3 DEF Receiver, Loop, Empty, Dequeue, DestroyTree, PutArray, Freed, AwaitRow, RowOpen,
     RowWrite, EndRow, NextOpen, NextWrite, ReadSize, AddSize, TestSize, LastOpen, LastWrite,
     Quit, Core
<1>4. CASE UNCHANGED vars
  BY <1>4 DEF vars
<1>. QED BY <1>1, <1>2, <1>3, <1>4 DEF Next

LEMMA BegunStays == ASSUME [Next]_vars, ~Kill PROVE begun' = begun
<1>1. CASE Primary \/ User
  BY <1>1 DEF Primary, User, WaitRing, ClearOpen, ClearWrite, CopyTree, CopyArray,
     Enqueue, StartRow, SignalOpen, SignalWrite, AskTree, AskArray, EnterExit, PrimaryStep
<1>2. CASE SecondaryMain
  BY <1>2 DEF SecondaryMain, Launch, ReadyOpen, ReadyWrite, MainStep
<1>3. ASSUME NEW r \in Receivers, Receiver(r) PROVE begun' = begun
  BY <1>3 DEF Receiver, Loop, Empty, Dequeue, DestroyTree, PutArray, Freed, AwaitRow, RowOpen,
     RowWrite, EndRow, NextOpen, NextWrite, ReadSize, AddSize, TestSize, LastOpen, LastWrite,
     Quit, Core
<1>4. CASE UNCHANGED vars
  BY <1>4 DEF vars
<1>. QED BY <1>1, <1>2, <1>3, <1>4 DEF Next

LEMMA InitInv == Init => MInv
<1>. SUFFICES ASSUME Init PROVE MInv
  OBVIOUS
<1>1. Typed /\ Fresh
  BY InitTyped DEF Init, Fresh
<1>2. flagRing = "1" /\ flagCSV = "1" /\ csv = <<>>
  BY DEF Init
<1>3. Timed => InStep
  BY <1>1, <1>2, FreshInStep
<1>4. ~Timed => Single
  BY <1>1, <1>2, FreshSingle
<1>5. ~Failed
  BY DEF Init, Failed, Start
<1>6. program \in Programs
  BY DEF Init
<1>. QED BY <1>1, <1>3, <1>4, <1>5, <1>6 DEF MInv, FailsOnlyWhenTight

TimedStart == Typed /\ Fresh /\ Timed /\ flagRing # "0" /\ flagCSV # "0"
SingleStart == Fresh /\ ~Timed /\ flagRing = "1" /\ flagCSV = "1" /\ csv = <<>>

\* what holds of a fresh start holds of the one after a kill
LEMMA AfterKill == (TimedStart' => InStep') /\ (SingleStart' => Single')
<1>1. TimedStart => InStep
  BY FreshInStep DEF TimedStart
<1>2. SingleStart => Single
  BY FreshSingle DEF SingleStart
<1>. QED BY <1>1, <1>2, PTL

LEMMA NextInv == MInv /\ [Next]_vars => MInv'
<1>. SUFFICES ASSUME MInv, [Next]_vars PROVE MInv'
  OBVIOUS
<1>1. Typed /\ Typed' /\ FailsOnlyWhenTight' /\ program' \in Programs
  BY TypedKept, TightKept, ProgramStays DEF MInv
<1>2. Timed' = Timed
  BY ProgramStays, SameProgram
<1>3. CASE Kill
  <2>1. Fresh' /\ UNCHANGED <<files, program>>
    BY <1>3, KillFresh
  <2>2. begun'.clean => flagRing' # "0" /\ flagCSV' # "0"
    BY <1>3, <2>1 DEF Kill, files
  <2>3. ~Timed => Single'
    BY <1>2, <2>1, AfterKill DEF MInv, Single, SingleStart, files
  <2>4. Timed /\ begun'.clean => InStep'
    BY <1>1, <1>2, <2>1, <2>2, AfterKill DEF TimedStart
  <2>. QED BY <1>1, <1>2, <2>3, <2>4 DEF MInv
<1>4. CASE ~Kill
  <2>1. begun' = begun
    BY <1>4, BegunStays
  <2>2. Timed /\ begun.clean => InStep'
    <3>. SUFFICES ASSUME Timed, InStep PROVE InStep'
      BY DEF MInv
    <3>. QED BY <1>1, <1>4, PrimaryKeeps, CoreKeeps, OtherKeeps DEF Next
  <2>3. ~Timed => Single'
    BY <1>1, <1>4, SingleKept DEF MInv
  <2>. QED BY <1>1, <1>2, <2>1, <2>2, <2>3 DEF MInv
<1>. QED BY <1>3, <1>4

THEOREM Invariant == Spec => []MInv
BY InitInv, NextInv, PTL DEF Spec

(* In every run that does not begin with a signal left by a killed one the *)
(* rows of treeTimes.csv are start and end times of the same tree, in the  *)
(* order of the sizes.                                                     *)
THEOREM RowsArePaired == Spec => []RowsPaired
<1>1. MInv => RowsPaired
  <2>. SUFFICES ASSUME MInv, begun.clean, NEW i \in DOMAIN ThisRun
                PROVE  ThisRun[i] = RowOf(i)
    BY DEF RowsPaired, RowOf
  <2>1. csv \in Seq(Row) /\ begun.row \in Nat /\ begun.row <= Len(csv) /\ Len(csv) \in Nat
    BY DEF MInv, Typed
  <2> DEFINE b == begun.row
  <2>2. ThisRun = SubSeq(csv, b + 1, Len(csv))
    BY DEF ThisRun
  <2>3. /\ DOMAIN ThisRun = 1..(Len(csv) - b)
        /\ \A j \in 1..(Len(csv) - b) : ThisRun[j] = csv[b + j]
    <3>1. b \in Nat /\ b <= Len(csv) /\ Len(csv) \in Nat
      BY <2>1
    <3> HIDE DEF b
    <3>2. \A j \in 1..(Len(csv) - b) : (b + 1) + j - 1 = b + j
      BY <3>1
    <3>. QED BY <2>1, <2>2, <3>1, <3>2
  <2>4. i \in Nat /\ 1 <= i /\ b + i <= Len(csv) /\ ThisRun[i] = csv[b + i]
    <3>1. b \in Nat /\ Len(csv) \in Nat /\ i \in 1..(Len(csv) - b) /\ ThisRun[i] = csv[b + i]
      BY <2>1, <2>3
    <3> HIDE DEF b
    <3>. QED BY <3>1
  <2>5. CASE Timed
    BY <2>4, <2>5 DEF MInv, InStep, Rows
  <2>6. CASE ~Timed
    <3>1. Len(csv) = 0
      BY <2>6 DEF MInv, Single
    <3>. QED BY <2>1, <2>4, <3>1
  <2>. QED BY <2>5, <2>6
<1>. QED BY <1>1, Invariant, PTL

(* In such a run the primary copies a tree while no other is on its way or *)
(* being freed, and all elements are in the pool or in the caches.         *)
THEOREM TreesAreBuiltAlone == Spec => []TreeBuiltAlone
<1>1. MInv => TreeBuiltAlone
  BY CopyFinds DEF TreeBuiltAlone, Cached, SumOf
<1>. QED BY <1>1, Invariant, PTL

(* So its copy fails only if the pool has no room for the message next to  *)
(* what the caches may park.                                               *)
THEOREM FailuresAreTight == Spec => []FailsOnlyWhenTight
<1>1. MInv => FailsOnlyWhenTight
  BY DEF MInv
<1>. QED BY <1>1, Invariant, PTL

(* A run that began so and ends leaves both flags as the next one needs    *)
(* them.                                                                   *)
THEOREM RunsLeaveFlagsReady == Spec => []ReadyForNextRun
<1>1. MInv => ReadyForNextRun
  <2>. SUFFICES ASSUME MInv, begun.clean, AllGone PROVE flagRing = "1" /\ flagCSV = "1"
    BY DEF ReadyForNextRun
  <2>1. CASE Timed
    <3>1. InStep /\ ppc = "done"
      BY <2>1 DEF MInv, AllGone
    <3>2. PICK r \in Receivers : rpc[r] = "gone"
      BY Sizes DEF AllGone
    <3>3. quit /\ ~OutThere /\ \A s \in Receivers : rpc[s] # "closing"
      BY <3>1, <3>2 DEF InStep, Ends, AllGone
    <3>. QED BY <3>1, <3>3 DEF InStep, Ends, Flags
  <2>2. CASE ~Timed
    BY <2>2 DEF MInv, Single
  <2>. QED BY <2>1, <2>2
<1>. QED BY <1>1, Invariant, PTL
=============================================================================
