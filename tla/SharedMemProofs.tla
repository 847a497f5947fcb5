---------------------------- MODULE SharedMemProofs ----------------------------
(***************************************************************************)
(* That the round trip of shared_mem/main.c loses no element of the pool,  *)
(* runs out of them only when the pool is tight, and answers each message  *)
(* once, for any number of rounds, sizes of pool and caches, and choice of *)
(* the cores.                                                              *)
(***************************************************************************)
EXTENDS SharedMem, TLAPS

-----------------------------------------------------------------------------
(* The invariant                                                           *)

\* elements that the message of round ci, its copy at the server of
\* roundTripArray.c, and the answer to it occupy
OfMessage == IF cpc = "send" \/ requests # <<>> \/ spc = "free" THEN Need(ci) ELSE 0
OfServer == IF mode = "once" /\ spc \in {"get", "reply", "put"} THEN 1 ELSE 0
OfAnswer == IF spc = "reply" \/ replies # <<>> THEN 1 ELSE 0
Held == OfMessage + OfServer + OfAnswer

\* no element is lost; when one was missing the program is over
Conserved ==
  cpc # "panic" /\ spc # "panic" =>
    free + Parked + Held = Pool

Typed ==
  /\ mode \in {"char", "node", "other", "once"}
  /\ free \in Nat /\ cache \in [Cores -> 0..FlushAt-1]
  /\ ci \in Nat \ {0} /\ si \in Nat /\ msg \in Nat

\* where the message of round ci is, by where the client and the server are
Resting ==
  /\ cpc \in {"build", "copy", "send", "crashed", "panic"}
  /\ requests = <<>> /\ replies = <<>> /\ spc = "await" /\ si = ci
Sent ==
  /\ cpc = "recv" /\ requests = <<ci>> /\ replies = <<>>
  /\ spc = "await" /\ si = ci
Served ==
  /\ cpc = "recv" /\ requests = <<>> /\ replies = <<>>
  /\ spc \in {"free", "get", "reply", "panic"} /\ si = ci /\ msg = ci
  /\ spc = "free" => mode # "once"
AfterReply ==
  IF mode = "once" THEN spc \in {"put", "done"}
  ELSE spc = IF si = Points + 1 THEN "done" ELSE "await"
Answered ==
  /\ cpc = "recv" /\ requests = <<>> /\ replies = <<ci>>
  /\ si = ci + 1 /\ AfterReply
Ended ==
  /\ cpc = "done" /\ requests = <<>> /\ replies = <<>>
  /\ spc \in {"put", "done"} /\ (spc = "put" => mode = "once")

Phases == Resting \/ Sent \/ Served \/ Answered \/ Ended

LastShown == IF printed = <<>> THEN 0 ELSE printed[Len(printed)][2]
Shown == printed \in Seq(Nat \X Nat) /\ LastShown = ci - 1

\* what each side can still rely on when it takes an element
ReceiveCoreUnused ==
  ReceiveCore \notin {ClientCore, ServerCore} /\ cache[ReceiveCore] # 0 =>
    mode = "once" /\ cpc = "done"
ReplyFits == mode \notin {"once", "other"} /\ spc = "get" => Enough(ServerCore, 1)

IInv ==
  /\ Typed /\ Phases /\ Shown /\ Conserved
  /\ ReceiveCoreUnused /\ ReplyFits /\ PanicsOnlyWhenTight

-----------------------------------------------------------------------------
(* The pool                                                                *)

LEMMA ConstantsTyped ==
  /\ Points \in Nat \ {0} /\ Inc \in Nat \ {0}
  /\ CacheSize \in Nat /\ FlushAt \in Nat /\ CacheSize < FlushAt
  /\ RingSize \in Nat \ {0} /\ PoolSize \in Nat /\ NodePool \in Nat
BY SharedMemAssumption

LEMMA NeedTyped == ASSUME NEW i \in Nat PROVE Need(i) \in Nat
BY ConstantsTyped DEF Need

LEMMA NeedPositive ==
  ASSUME NEW i \in Nat \ {0}, mode # "other" PROVE Need(i) \in Nat \ {0}
BY ConstantsTyped DEF Need

\* rounding a up to a multiple of b adds less than b
LEMMA RoundUp ==
  ASSUME NEW a \in Nat \ {0}, NEW b \in Nat \ {0}
  PROVE  /\ ((a + b - 1) \div b) * b \in Nat
         /\ ((a + b - 1) \div b) * b - a \in 0..b-1
<1>1. ASSUME NEW x \in Nat, NEW y \in Nat \ {0}
      PROVE  /\ x % y \in 0..y-1
             /\ x = y * (x \div y) + (x % y) /\ x \div y \in Nat
  BY SMT
<1>. DEFINE up == a + b - 1
            q == up \div b
<1>2. up \in Nat
  OBVIOUS
<1>. HIDE DEF up
<1>3. q \in Nat /\ up = b * q + (up % b) /\ up % b \in 0..b-1
  BY <1>1, <1>2
<1>. HIDE DEF q
<1>4. q * b \in Nat /\ q * b = b * q
  BY <1>3
<1>. QED BY <1>3, <1>4 DEF up, q

\* a cache never holds more than FlushAt - 1, and what it gains or loses is
\* what the pool's ring loses or gains, but for the elements handed over
LEMMA GetBounds ==
  ASSUME Typed, NEW c \in Cores, NEW n \in Nat, Enough(c, n)
  PROVE  /\ LenAfterGet(cache[c], n) \in 0..FlushAt-1
         /\ free + cache[c] - n - LenAfterGet(cache[c], n) \in Nat
<1>. DEFINE missing == n - cache[c]
            batch == CacheSize + 1
            fetched == ((missing + batch - 1) \div batch) * batch
<1>1. cache[c] \in 0..FlushAt-1 /\ free \in Nat /\ missing \in Int
  BY ConstantsTyped DEF Typed
<1>2. CASE missing <= 0
  BY <1>1, <1>2, ConstantsTyped DEF LenAfterGet
<1>3. CASE missing > 0
  <2>1. fetched \in Nat /\ fetched - missing \in 0..CacheSize
    <3>1. missing \in Nat \ {0} /\ batch \in Nat \ {0}
      BY <1>1, <1>3, ConstantsTyped
    <3>. HIDE DEF missing, batch
    <3>2. fetched \in Nat /\ fetched - missing \in 0..batch-1
      BY <3>1, RoundUp
    <3>. HIDE DEF fetched
    <3>. QED BY <3>2, ConstantsTyped DEF batch
  <2>2. LenAfterGet(cache[c], n) = IF fetched <= free THEN fetched - missing ELSE 0
    BY <1>3, <1>1, ConstantsTyped DEF LenAfterGet
  <2>. HIDE DEF fetched
  <2>3. CASE fetched <= free
    BY <1>1, <2>1, <2>2, <2>3, ConstantsTyped
  <2>4. CASE ~(fetched <= free)
    BY <1>1, <2>2, <2>4, ConstantsTyped DEF Enough
  <2>. QED BY <2>3, <2>4
<1>. QED BY <1>1, <1>2, <1>3

LEMMA PutBounds ==
  ASSUME Typed, NEW c \in Cores, NEW n \in Nat
  PROVE  /\ LenAfterPut(cache[c], n) \in 0..FlushAt-1
         /\ free + cache[c] + n - LenAfterPut(cache[c], n) \in Nat
<1>1. cache[c] \in 0..FlushAt-1 /\ free \in Nat
  BY ConstantsTyped DEF Typed
<1>2. ASSUME NEW x \in Nat, NEW y \in Nat \ {0} PROVE x % y \in 0..y-1
  BY SMT
<1>3. CASE cache[c] + n < FlushAt
  BY <1>1, <1>3, ConstantsTyped DEF LenAfterPut
<1>4. CASE ~(cache[c] + n < FlushAt)
  <2>. DEFINE rest == (cache[c] + n - FlushAt) % (FlushAt - CacheSize)
  <2>1. rest \in 0..(FlushAt-CacheSize)-1
    <3>1. cache[c] + n - FlushAt \in Nat /\ FlushAt - CacheSize \in Nat \ {0}
      BY <1>1, <1>4, ConstantsTyped
    <3>. QED BY <3>1, <1>2
  <2>2. LenAfterPut(cache[c], n) = CacheSize + rest
    BY <1>4 DEF LenAfterPut
  <2>. HIDE DEF rest
  <2>. QED BY <1>1, <1>4, <2>1, <2>2, ConstantsTyped
<1>. QED BY <1>3, <1>4

LEMMA ParkedAfter ==
  ASSUME Typed, NEW c \in Cores, NEW len \in 0..FlushAt-1,
         cache' = [cache EXCEPT ![c] = len]
  PROVE  /\ Parked \in Nat /\ Parked' \in Nat
         /\ Parked' = Parked + len - cache[c]
         /\ cache' \in [Cores -> 0..FlushAt-1]
BY ConstantsTyped DEF Typed, Parked, Cores

\* n gets that all succeed
LEMMA Took ==
  ASSUME Typed, NEW c \in Cores, NEW n \in Nat, Enough(c, n), Take(c, n)
  PROVE  /\ free' \in Nat /\ cache' \in [Cores -> 0..FlushAt-1]
         /\ Parked \in Nat /\ Parked' \in Nat
         /\ free' + Parked' + n = free + Parked
         /\ \A d \in Cores \ {c} : cache'[d] = cache[d]
<1>. DEFINE len == LenAfterGet(cache[c], n)
<1>1. len \in 0..FlushAt-1 /\ free + cache[c] - n - len \in Nat
  BY GetBounds
<1>2. cache' = [cache EXCEPT ![c] = len] /\ free' = free + cache[c] - n - len
  BY DEF Take
<1>. HIDE DEF len
<1>3. /\ Parked \in Nat /\ Parked' \in Nat /\ Parked' = Parked + len - cache[c]
      /\ cache' \in [Cores -> 0..FlushAt-1]
  BY <1>1, <1>2, ParkedAfter
<1>4. cache[c] \in Nat /\ free \in Nat /\ len \in Nat
  BY <1>1, ConstantsTyped DEF Typed
<1>. QED BY <1>1, <1>2, <1>3, <1>4 DEF Typed

\* n gets of which some fail
LEMMA TookAll ==
  ASSUME Typed, NEW c \in Cores, NEW n \in Nat, ~Enough(c, n), Take(c, n)
  PROVE  /\ free' \in Nat /\ cache' \in [Cores -> 0..FlushAt-1]
         /\ \A d \in Cores \ {c} : cache'[d] = cache[d]
BY ConstantsTyped DEF Take, Typed

LEMMA Gave ==
  ASSUME Typed, NEW c \in Cores, NEW n \in Nat, Give(c, n)
  PROVE  /\ free' \in Nat /\ cache' \in [Cores -> 0..FlushAt-1]
         /\ Parked \in Nat /\ Parked' \in Nat
         /\ free' + Parked' = free + Parked + n
         /\ free' + cache'[c] = free + cache[c] + n
         /\ \A d \in Cores \ {c} : cache'[d] = cache[d]
<1>. DEFINE len == LenAfterPut(cache[c], n)
<1>1. len \in 0..FlushAt-1 /\ free + cache[c] + n - len \in Nat
  BY PutBounds
<1>2. cache' = [cache EXCEPT ![c] = len] /\ free' = free + cache[c] + n - len
  BY DEF Give
<1>. HIDE DEF len
<1>3. /\ Parked \in Nat /\ Parked' \in Nat /\ Parked' = Parked + len - cache[c]
      /\ cache' \in [Cores -> 0..FlushAt-1]
  BY <1>1, <1>2, ParkedAfter
<1>4. cache[c] \in Nat /\ free \in Nat /\ len \in Nat /\ cache'[c] = len
  BY <1>1, <1>2, ConstantsTyped DEF Typed
<1>. QED BY <1>1, <1>2, <1>3, <1>4 DEF Typed

\* one element, to or from those who use it
LEMMA MovedToHeld ==
  ASSUME free \in Nat, Parked \in Nat, Held \in Nat,
         free' \in Nat, Parked' \in Nat, Held' \in Nat,
         free + Parked + Held = Pool, free' + Parked' + 1 = free + Parked, Held' = Held + 1
  PROVE  free' + Parked' + Held' = Pool
<1>1. PICK f \in Nat, p \in Nat, h \in Nat : f = free' /\ p = Parked' /\ h = Held'
  OBVIOUS
<1>2. f + p + 1 = free + Parked /\ h = Held + 1
  BY <1>1
<1>3. f + p + h = Pool
  BY <1>2
<1>. QED BY <1>1, <1>3

LEMMA MovedFromHeld ==
  ASSUME free \in Nat, Parked \in Nat, Held \in Nat,
         free' \in Nat, Parked' \in Nat, Held' \in Nat,
         free + Parked + Held = Pool, free' + Parked' = free + Parked + 1, Held' = Held - 1
  PROVE  free' + Parked' + Held' = Pool
<1>1. PICK f \in Nat, p \in Nat, h \in Nat : f = free' /\ p = Parked' /\ h = Held'
  OBVIOUS
<1>2. f + p = free + Parked + 1
  BY <1>1
<1>3. h = Held - 1
  BY <1>1
<1>4. f + p + h = Pool
  BY <1>2, <1>3
<1>. QED BY <1>1, <1>4

LEMMA ParkedTyped == ASSUME Typed PROVE Parked \in Nat
BY ConstantsTyped DEF Typed, Parked, Cores

\* rings and caches as they were
LEMMA PoolUntouched ==
  ASSUME Typed, UNCHANGED <<free, cache>>
  PROVE  /\ free' \in Nat /\ cache' \in [Cores -> 0..FlushAt-1]
         /\ Parked \in Nat /\ Parked' = Parked
BY ParkedTyped DEF Typed, Parked

-----------------------------------------------------------------------------
(* The invariant holds                                                     *)

LEMMA CoresTyped == ClientCore \in Cores /\ ServerCore \in Cores /\ ReceiveCore \in Cores
BY DEF Cores

LEMMA InitHolds == ASSUME Init PROVE IInv
<1>1. Typed /\ Phases
  BY ConstantsTyped DEF Init, Typed, Phases, Resting, Pool
<1>2. Shown
  BY DEF Init, Shown, LastShown
<1>3. Conserved
  BY <1>1, ConstantsTyped
     DEF Init, Conserved, Parked, Held, OfMessage, OfServer, OfAnswer, Pool, Cores
<1>4. ReceiveCoreUnused /\ ReplyFits /\ PanicsOnlyWhenTight
  BY CoresTyped DEF Init, ReceiveCoreUnused, ReplyFits, PanicsOnlyWhenTight
<1>. QED BY <1>1, <1>2, <1>3, <1>4 DEF IInv

LEMMA BuildHolds == ASSUME IInv, Build \/ AskBytes PROVE IInv'
<1>1. /\ cpc = "build" /\ cpc' \in {"copy", "crashed"}
      /\ UNCHANGED <<free, cache, requests, replies, ci, printed, server, mode>>
  BY DEF Build, AskBytes, Client
<1>2. Typed' /\ Phases' /\ Shown'
  BY <1>1 DEF IInv, Typed, Phases, Resting, Sent, Served, Answered, Ended,
       Shown, LastShown, server
<1>3. Conserved'
  BY <1>1, PoolUntouched DEF IInv, Conserved, Held, OfMessage, OfServer, OfAnswer,
       Need, Pool, server
<1>4. (ReceiveCoreUnused /\ ReplyFits /\ PanicsOnlyWhenTight)'
  BY <1>1 DEF IInv, ReceiveCoreUnused, ReplyFits, PanicsOnlyWhenTight, Enough,
       Need, Pool, server
<1>. QED BY <1>2, <1>3, <1>4 DEF IInv

LEMMA CopyHolds == ASSUME IInv, Copy PROVE IInv'
<1>1. /\ cpc = "copy" /\ cpc' = IF Enough(ClientCore, Need(ci)) THEN "send" ELSE "panic"
      /\ Take(ClientCore, Need(ci))
      /\ UNCHANGED <<requests, replies, ci, printed, server, mode>>
  BY DEF Copy, Client
<1>2. Typed /\ Need(ci) \in Nat /\ Resting
  BY <1>1, NeedTyped DEF IInv, Typed, Phases, Sent, Served, Answered, Ended
<1>3. /\ free' \in Nat /\ cache' \in [Cores -> 0..FlushAt-1]
      /\ \A d \in Cores \ {ClientCore} : cache'[d] = cache[d]
  BY <1>1, <1>2, Took, TookAll, CoresTyped
<1>4. Typed' /\ Phases' /\ Shown'
  BY <1>1, <1>2, <1>3 DEF IInv, Typed, Phases, Resting, Shown, LastShown, server
<1>5. (ReceiveCoreUnused /\ ReplyFits)'
  BY <1>1, <1>2, <1>3, CoresTyped DEF IInv, ReceiveCoreUnused, ReplyFits, Resting, server
<1>6. CASE Enough(ClientCore, Need(ci))
  <2>1. Parked \in Nat /\ Parked' \in Nat /\ free' + Parked' + Need(ci) = free + Parked
    BY <1>1, <1>2, <1>6, Took, CoresTyped
  <2>2. Conserved'
    BY <1>1, <1>2, <1>3, <1>6, <2>1
       DEF IInv, Conserved, Held, OfMessage, OfServer, OfAnswer, Need, Pool, server, Resting, Typed
  <2>3. PanicsOnlyWhenTight'
    BY <1>1, <1>6, <1>2 DEF PanicsOnlyWhenTight, Resting, server
  <2>. QED BY <1>4, <1>5, <2>2, <2>3 DEF IInv
<1>7. CASE ~Enough(ClientCore, Need(ci))
  <2>1. free + Parked = Pool
    BY <1>1, <1>2, ParkedTyped DEF IInv, Conserved, Held, OfMessage, OfServer, OfAnswer, Resting, Typed
  <2>2. Parked - cache[ClientCore] <= FlushAt - 1
    BY <1>1, <1>2, CoresTyped, ConstantsTyped DEF IInv, ReceiveCoreUnused, Parked, Typed
  <2>3. Need(ci) + FlushAt - 1 > Pool
    BY <1>2, <1>7, <2>1, <2>2, ConstantsTyped, CoresTyped, ParkedTyped DEF Enough, Typed
  <2>4. (PanicsOnlyWhenTight /\ Conserved)'
    BY <1>1, <1>2, <1>7, <2>3 DEF PanicsOnlyWhenTight, Conserved, Resting, Need, Pool, server
  <2>. QED BY <1>4, <1>5, <2>4 DEF IInv
<1>. QED BY <1>6, <1>7

LEMMA SendHolds == ASSUME IInv, Send PROVE IInv'
<1>1. cpc = "send" /\ cpc' = "recv" /\ UNCHANGED <<replies, ci, printed, server, mode>>
  BY DEF Send, Client
<1>2. Typed /\ Resting
  BY <1>1 DEF IInv, Phases, Sent, Served, Answered, Ended
<1>3. requests' = <<ci>> /\ UNCHANGED <<free, cache>>
  <2>1. Len(requests) < RingSize
    BY <1>2, ConstantsTyped DEF Resting
  <2>. QED BY <1>2, <2>1 DEF Send, Resting
<1>4. Typed' /\ Phases' /\ Shown'
  BY <1>1, <1>2, <1>3 DEF IInv, Typed, Phases, Resting, Sent, Shown, LastShown, server
<1>5. Conserved'
  BY <1>1, <1>2, <1>3, PoolUntouched
     DEF IInv, Conserved, Held, OfMessage, OfServer, OfAnswer, Need, Pool, server, Resting
<1>6. (ReceiveCoreUnused /\ ReplyFits /\ PanicsOnlyWhenTight)'
  BY <1>1, <1>2, <1>3 DEF IInv, ReceiveCoreUnused, ReplyFits, PanicsOnlyWhenTight, Enough,
       Need, Pool, server, Resting
<1>. QED BY <1>4, <1>5, <1>6 DEF IInv

LEMMA AwaitHolds == ASSUME IInv, Await PROVE IInv'
<1>1. /\ requests # <<>> /\ spc = "await"
      /\ spc' = IF mode = "once" THEN "get" ELSE "free"
      /\ msg' = Head(requests) /\ requests' = Tail(requests)
      /\ UNCHANGED <<free, cache, replies, si, client, mode>>
  BY DEF Await, Server
<1>2. Typed /\ Sent /\ msg' = ci /\ requests' = <<>>
  <2>1. Typed /\ Sent
    BY <1>1 DEF IInv, Phases, Resting, Sent, Served, Answered, Ended
  <2>. QED BY <1>1, <2>1 DEF Sent
<1>3. Typed' /\ Phases' /\ Shown'
  BY <1>1, <1>2 DEF IInv, Typed, Phases, Sent, Served, Shown, LastShown, client
<1>4. Conserved'
  BY <1>1, <1>2, PoolUntouched
     DEF IInv, Conserved, Held, OfMessage, OfServer, OfAnswer, Need, Pool, client, Sent, Typed
<1>5. (ReceiveCoreUnused /\ ReplyFits /\ PanicsOnlyWhenTight)'
  BY <1>1, <1>2 DEF IInv, ReceiveCoreUnused, ReplyFits, PanicsOnlyWhenTight, Enough,
       Need, Pool, client, Sent
<1>. QED BY <1>3, <1>4, <1>5 DEF IInv

LEMMA ReleaseHolds == ASSUME IInv, Release PROVE IInv'
<1>1. /\ mode # "once" /\ spc = "free" /\ spc' = "get" /\ Give(ServerCore, Need(msg))
      /\ UNCHANGED <<requests, replies, si, msg, client, mode>>
  BY DEF Release, Server
<1>2. /\ Typed /\ Served /\ Need(msg) \in Nat /\ msg = ci
      /\ mode # "other" => Need(msg) \in Nat \ {0}
  BY <1>1, NeedPositive, NeedTyped DEF IInv, Typed, Phases, Resting, Sent, Served, Answered, AfterReply,
       Ended
<1>3. /\ free' \in Nat /\ cache' \in [Cores -> 0..FlushAt-1]
      /\ Parked \in Nat /\ Parked' \in Nat
      /\ free' + Parked' = free + Parked + Need(ci)
      /\ free' + cache'[ServerCore] = free + cache[ServerCore] + Need(ci)
      /\ \A d \in Cores \ {ServerCore} : cache'[d] = cache[d]
  BY <1>1, <1>2, Gave, CoresTyped
<1>4. Typed' /\ Phases' /\ Shown'
  BY <1>1, <1>2, <1>3 DEF IInv, Typed, Phases, Served, Shown, LastShown, client
<1>5. Conserved'
  BY <1>1, <1>2, <1>3
     DEF IInv, Conserved, Held, OfMessage, OfServer, OfAnswer, Need, Pool, client, Served, Typed
<1>6. ReplyFits'
  BY <1>1, <1>2, <1>3, CoresTyped, ConstantsTyped DEF ReplyFits, Enough, Typed
<1>7. (ReceiveCoreUnused /\ PanicsOnlyWhenTight)'
  BY <1>1, <1>2, <1>3, CoresTyped
     DEF IInv, ReceiveCoreUnused, PanicsOnlyWhenTight, Need, Pool, client, Served
<1>. QED BY <1>4, <1>5, <1>6, <1>7 DEF IInv

LEMMA GetReplyHolds == ASSUME IInv, GetReply PROVE IInv'
<1>1. /\ spc = "get" /\ spc' = IF Enough(ServerCore, 1) THEN "reply" ELSE "panic"
      /\ Take(ServerCore, 1)
      /\ UNCHANGED <<requests, replies, si, msg, client, mode>>
  BY DEF GetReply, Server
<1>2. Typed /\ Served
  BY <1>1 DEF IInv, Phases, Resting, Sent, Served, Answered, AfterReply,
       Ended
<1>3. /\ free' \in Nat /\ cache' \in [Cores -> 0..FlushAt-1]
      /\ \A d \in Cores \ {ServerCore} : cache'[d] = cache[d]
  BY <1>1, <1>2, Took, TookAll, CoresTyped
<1>4. Typed' /\ Phases' /\ Shown'
  BY <1>1, <1>2, <1>3 DEF IInv, Typed, Phases, Served, Shown, LastShown, client
<1>5. (ReceiveCoreUnused /\ ReplyFits)'
  BY <1>1, <1>2, <1>3, CoresTyped DEF IInv, ReceiveCoreUnused, ReplyFits, Served, client
<1>6. CASE Enough(ServerCore, 1)
  <2>1. Parked \in Nat /\ Parked' \in Nat /\ free' + Parked' + 1 = free + Parked
    BY <1>1, <1>2, <1>6, Took, CoresTyped
  <2>2. Conserved'
    <3>1. Held \in Nat /\ Held' \in Nat /\ Held' = Held + 1
      BY <1>1, <1>2, <1>6 DEF Held, OfMessage, OfServer, OfAnswer, Served, client
    <3>2. free + Parked + Held = Pool /\ Pool' = Pool
      BY <1>1, <1>2 DEF IInv, Conserved, Served, Pool
    <3>3. free' + Parked' + Held' = Pool
      <4>1. free \in Nat /\ free' \in Nat
        BY <1>2, <1>3 DEF Typed
      <4>2. free + Parked + Held = Pool
        BY <3>2
      <4>. QED BY <2>1, <3>1, <4>1, <4>2, MovedToHeld
    <3>. QED BY <3>2, <3>3 DEF Conserved
  <2>3. PanicsOnlyWhenTight'
    BY <1>1, <1>6, <1>2 DEF PanicsOnlyWhenTight, Served, client
  <2>. QED BY <1>4, <1>5, <2>2, <2>3 DEF IInv
<1>7. CASE ~Enough(ServerCore, 1)
  <2>1. mode \in {"once", "other"}
    BY <1>1, <1>7 DEF IInv, ReplyFits
  <2>2. free + Parked + (IF mode = "once" THEN 1 ELSE 0) = Pool
    BY <1>1, <1>2, <2>1, ParkedTyped
       DEF IInv, Conserved, Held, OfMessage, OfServer, OfAnswer, Served, Typed
  <2>3. Parked - cache[ServerCore] <= FlushAt - 1
    BY <1>1, <1>2, CoresTyped, ConstantsTyped DEF IInv, ReceiveCoreUnused, Parked, Typed, Served
  <2>4. Pool <= FlushAt
    BY <1>2, <1>7, <2>2, <2>3, ConstantsTyped, CoresTyped, ParkedTyped DEF Enough, Typed
  <2>5. (PanicsOnlyWhenTight /\ Conserved)'
    BY <1>1, <1>2, <1>7, <2>1, <2>4
       DEF PanicsOnlyWhenTight, Conserved, Served, Need, Pool, client
  <2>. QED BY <1>4, <1>5, <2>5 DEF IInv
<1>. QED BY <1>6, <1>7

LEMMA ReplyHolds == ASSUME IInv, Reply PROVE IInv'
<1>1. /\ spc = "reply" /\ si' = si + 1
      /\ spc' = IF mode = "once" THEN "put" ELSE IF si = Points THEN "done" ELSE "await"
      /\ UNCHANGED <<requests, msg, client, mode>>
  BY DEF Reply, Server
<1>2. Typed /\ Served
  BY <1>1 DEF IInv, Phases, Resting, Sent, Served, Answered, AfterReply,
       Ended
<1>3. replies' = <<ci>> /\ UNCHANGED <<free, cache>>
  <2>1. Len(replies) < RingSize
    BY <1>2, ConstantsTyped DEF Served
  <2>. QED BY <1>2, <2>1 DEF Reply, Served
<1>4. Typed' /\ Phases' /\ Shown'
  BY <1>1, <1>2, <1>3, ConstantsTyped
     DEF IInv, Typed, Phases, Served, Answered, AfterReply, Shown, LastShown, client
<1>5. Conserved'
  BY <1>1, <1>2, <1>3, PoolUntouched
     DEF IInv, Conserved, Held, OfMessage, OfServer, OfAnswer, Need, Pool, client, Served
<1>6. (ReceiveCoreUnused /\ ReplyFits /\ PanicsOnlyWhenTight)'
  BY <1>1, <1>2, <1>3 DEF IInv, ReceiveCoreUnused, ReplyFits, PanicsOnlyWhenTight, Enough,
       Need, Pool, client, Served
<1>. QED BY <1>4, <1>5, <1>6 DEF IInv

LEMMA ReceiveHolds == ASSUME IInv, Receive \/ ReceiveBack PROVE IInv'
<1>. DEFINE core == IF mode = "once" THEN ReceiveCore ELSE ClientCore
<1>1. /\ cpc = "recv" /\ replies # <<>> /\ replies' = Tail(replies) /\ ci' = ci + 1
      /\ cpc' = IF mode = "once" \/ ci = Points THEN "done" ELSE "build"
      /\ printed' = Append(printed, <<ci, Head(replies)>>)
      /\ Give(core, 1)
      /\ UNCHANGED <<requests, server, mode>>
  BY DEF Receive, ReceiveBack, Client
<1>2. Typed /\ Answered /\ core \in Cores
  BY <1>1, CoresTyped DEF IInv, Phases, Resting, Sent, Served, Answered, AfterReply,
       Ended
<1>3. /\ free' \in Nat /\ cache' \in [Cores -> 0..FlushAt-1]
      /\ Parked \in Nat /\ Parked' \in Nat
      /\ free' + Parked' = free + Parked + 1
      /\ \A d \in Cores \ {core} : cache'[d] = cache[d]
  BY <1>1, <1>2, Gave
<1>4. replies' = <<>> /\ Head(replies) = ci
  BY <1>1, <1>2 DEF Answered
<1>5. Shown'
  <2>1. printed \in Seq(Nat \X Nat) /\ <<ci, ci>> \in Nat \X Nat
    BY <1>2 DEF IInv, Shown, Typed
  <2>2. printed' = Append(printed, <<ci, ci>>)
    BY <1>1, <1>4
  <2>3. /\ printed' \in Seq(Nat \X Nat) /\ printed' # <<>>
        /\ printed'[Len(printed')] = <<ci, ci>>
    BY <2>1, <2>2
  <2>4. LastShown' = ci /\ ci' - 1 = ci
    BY <1>1, <1>2, <2>3 DEF LastShown, Typed
  <2>. QED BY <2>3, <2>4 DEF Shown
<1>6. Typed' /\ Phases'
  <2>1. Typed'
    BY <1>1, <1>2, <1>3 DEF Typed, server
  <2>2. Phases'
    BY <1>1, <1>2, <1>4, ConstantsTyped
       DEF Phases, Answered, AfterReply, Resting, Ended, server, Typed
  <2>. QED BY <2>1, <2>2
<1>7. Conserved'
  <2>1. Held \in Nat /\ Held' \in Nat /\ Held' = Held - 1
    BY <1>1, <1>2, <1>4 DEF Held, OfMessage, OfServer, OfAnswer, AfterReply, Answered, server
  <2>2. free + Parked + Held = Pool /\ Pool' = Pool
    BY <1>1, <1>2 DEF IInv, Conserved, AfterReply, Answered, Pool
  <2>3. free' + Parked' + Held' = Pool
    <3>1. free \in Nat /\ free' \in Nat
      BY <1>2, <1>3 DEF Typed
    <3>2. Parked \in Nat /\ Parked' \in Nat /\ free' + Parked' = free + Parked + 1
      BY <1>3
    <3>3. free + Parked + Held = Pool
      BY <2>2
    <3>. QED BY <2>1, <3>1, <3>2, <3>3, MovedFromHeld
  <2>. QED BY <2>2, <2>3 DEF Conserved
<1>8. (ReceiveCoreUnused /\ ReplyFits /\ PanicsOnlyWhenTight)'
  BY <1>1, <1>2, <1>3, CoresTyped
     DEF IInv, ReceiveCoreUnused, ReplyFits, PanicsOnlyWhenTight, AfterReply, Answered, server
<1>. QED BY <1>5, <1>6, <1>7, <1>8 DEF IInv

LEMMA PutBackHolds == ASSUME IInv, PutBack PROVE IInv'
<1>1. /\ spc = "put" /\ spc' = "done" /\ Give(ServerCore, 1)
      /\ UNCHANGED <<requests, replies, si, msg, client, mode>>
  BY DEF PutBack, Server
<1>2. Typed /\ (Answered \/ Ended) /\ mode = "once"
  BY <1>1 DEF IInv, Phases, Resting, Sent, Served, Answered, AfterReply, Ended
<1>3. /\ free' \in Nat /\ cache' \in [Cores -> 0..FlushAt-1]
      /\ Parked \in Nat /\ Parked' \in Nat
      /\ free' + Parked' = free + Parked + 1
      /\ \A d \in Cores \ {ServerCore} : cache'[d] = cache[d]
  BY <1>1, <1>2, Gave, CoresTyped
<1>4. Typed' /\ Phases' /\ Shown'
  BY <1>1, <1>2, <1>3
     DEF IInv, Typed, Phases, Answered, AfterReply, Ended, Shown, LastShown, client
<1>5. Conserved'
  <2>1. Held \in Nat /\ Held' \in Nat /\ Held' = Held - 1
    BY <1>1, <1>2 DEF Held, OfMessage, OfServer, OfAnswer, Answered, Ended, client
  <2>2. free + Parked + Held = Pool /\ Pool' = Pool
    BY <1>1, <1>2 DEF IInv, Conserved, Answered, Ended, Pool
  <2>3. free' + Parked' + Held' = Pool
    <3>1. free \in Nat /\ free' \in Nat
      BY <1>2, <1>3 DEF Typed
    <3>2. Parked \in Nat /\ Parked' \in Nat /\ free' + Parked' = free + Parked + 1
      BY <1>3
    <3>3. free + Parked + Held = Pool
      BY <2>2
    <3>. QED BY <2>1, <3>1, <3>2, <3>3, MovedFromHeld
  <2>. QED BY <2>2, <2>3 DEF Conserved
<1>6. (ReceiveCoreUnused /\ ReplyFits /\ PanicsOnlyWhenTight)'
  BY <1>1, <1>2, <1>3, CoresTyped
     DEF IInv, ReceiveCoreUnused, ReplyFits, PanicsOnlyWhenTight, Answered, Ended, client
<1>. QED BY <1>4, <1>5, <1>6 DEF IInv

LEMMA StutterHolds == ASSUME IInv, UNCHANGED vars PROVE IInv'
BY DEF IInv, vars, client, server, Typed, Phases, Resting, Sent, Served, Answered,
  AfterReply, Ended, Shown, LastShown, Conserved, Held, OfMessage, OfServer, OfAnswer, Parked,
  Pool, Need, ReceiveCoreUnused, ReplyFits, Enough, PanicsOnlyWhenTight

LEMMA Inductive == Spec => []IInv
<1>1. Init => IInv
  BY InitHolds
<1>2. IInv /\ [Next]_vars => IInv'
  BY BuildHolds, CopyHolds, SendHolds, AwaitHolds, ReleaseHolds, GetReplyHolds,
     ReplyHolds, ReceiveHolds, PutBackHolds, StutterHolds
     DEF Next, ClientStep, ServerStep
<1>. QED BY <1>1, <1>2, PTL DEF Spec

-----------------------------------------------------------------------------
(* What follows                                                            *)

(* shared_mem/main.c and roundTripArray.c leak no element: between two     *)
(* rounds and at the end all are in the pool's ring or in a cache.         *)
THEOREM NoElementLost == Spec => []PoolWhole
<1>1. IInv => PoolWhole
  BY ParkedTyped DEF IInv, Typed, PoolWhole, Conserved, Held, OfMessage, OfServer, OfAnswer,
     Phases, Resting, Sent, Served, Answered, AfterReply,
       Ended
<1>. QED BY <1>1, Inductive, PTL

(* The rte_panic of a get happens only when what a cache may hold is       *)
(* missing in the pool.                                                    *)
THEOREM PoolNeedsOneCacheMore == Spec => []PanicsOnlyWhenTight
<1>1. IInv => PanicsOnlyWhenTight
  BY DEF IInv
<1>. QED BY <1>1, Inductive, PTL

(* The rings of main.c and roundTripArray.c carry one message or answer at *)
(* a time, and each time printed is that of the message sent last.         *)
THEOREM RingsImplementRoundTrip == Spec => RefinesRoundTrip
<1>. USE DEF RT!Ask, RT!Answer, RT!Show, RT!Next, RT!vars, Unanswered, FirstOf
<1>1. Init => RT!Init
  BY DEF Init, RT!Init
<1>. DEFINE last == IF printed = <<>> THEN 0 ELSE printed[Len(printed)][2]
<1>2. ASSUME IInv, [Next]_vars PROVE [RT!Next]_(RT!vars)
  <2>1. CASE Build \/ AskBytes
    BY <1>2, <2>1 DEF Build, AskBytes, Client, server
  <2>2. CASE Copy
    BY <1>2, <2>2 DEF Copy, Client, server
  <2>3. CASE Send
    <3>1. Resting /\ Typed /\ last = ci - 1
      BY <1>2, <2>3 DEF Send, Client, IInv, Phases, Sent, Served, Answered, Ended,
         Shown, LastShown
    <3>2. requests' = <<ci>> /\ UNCHANGED <<replies, printed, spc, msg>>
      BY <2>3, <3>1, ConstantsTyped DEF Send, Client, server, Resting
    <3>3. RT!Ask
      BY <3>1, <3>2 DEF Resting, Typed
    <3>. QED BY <3>3
  <2>4. CASE Receive \/ ReceiveBack
    <3>1. /\ cpc = "recv" /\ replies # <<>> /\ replies' = Tail(replies)
          /\ printed' = Append(printed, <<ci, Head(replies)>>)
          /\ UNCHANGED <<requests, spc, msg>>
      BY <2>4 DEF Receive, ReceiveBack, Client, server
    <3>2. /\ Answered /\ Typed /\ replies = <<ci>>
          /\ printed \in Seq(Nat \X Nat) /\ <<ci, ci>> \in Nat \X Nat
      BY <1>2, <3>1 DEF IInv, Phases, Resting, Sent, Served, Answered, Ended, Shown, Typed
    <3>3. /\ replies' = <<>> /\ printed' = Append(printed, <<ci, ci>>)
          /\ printed' # <<>> /\ printed'[Len(printed')] = <<ci, ci>>
      BY <3>1, <3>2
    <3>4. RT!Show
      BY <3>1, <3>2, <3>3 DEF Answered, AfterReply, Typed
    <3>. QED BY <3>4
  <2>5. CASE Await
    <3>1. /\ requests # <<>> /\ spc = "await" /\ spc' \in {"get", "free"}
          /\ msg' = Head(requests) /\ requests' = Tail(requests)
          /\ UNCHANGED <<replies, printed>>
      BY <2>5 DEF Await, Server, client
    <3>2. requests = <<ci>>
      BY <1>2, <3>1 DEF IInv, Phases, Resting, Sent, Served, Answered, Ended
    <3>. QED BY <3>1, <3>2
  <2>6. CASE Release \/ PutBack
    <3>1. /\ spc \in {"free", "put"}
          /\ spc' = IF spc = "free" THEN "get" ELSE "done"
          /\ UNCHANGED <<requests, replies, msg, printed>>
      BY <2>6 DEF Release, PutBack, Server, client
    <3>. QED BY <3>1
  <2>7. CASE GetReply
    BY <1>2, <2>7 DEF GetReply, Server, client
  <2>8. CASE Reply
    <3>1. /\ spc = "reply" /\ spc' \in {"put", "done", "await"}
          /\ UNCHANGED <<requests, msg, printed>>
      BY <2>8 DEF Reply, Server, client
    <3>2. Served /\ Typed
      BY <1>2, <3>1 DEF IInv, Phases, Resting, Sent, Served, Answered, AfterReply, Ended
    <3>3. replies' = <<ci>>
      BY <2>8, <3>2, ConstantsTyped DEF Reply, Served
    <3>4. RT!Answer
      BY <3>1, <3>2, <3>3 DEF Served, Typed
    <3>. QED BY <3>4
  <2>9. CASE UNCHANGED vars
    BY <2>9 DEF vars, client, server
  <2>. QED BY <1>2, <2>1, <2>2, <2>3, <2>4, <2>5, <2>6, <2>7, <2>8, <2>9
       DEF Next, ClientStep, ServerStep
<1>. QED BY <1>1, <1>2, Inductive, PTL DEF Spec, RefinesRoundTrip, RT!Spec
=============================================================================
