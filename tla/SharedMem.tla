------------------------------ MODULE SharedMem ------------------------------
(***************************************************************************)
(* The round-trip benchmark of shared_mem/main.c.  In each round the       *)
(* client (the secondary process) takes elements from the memory pool, one *)
(* for a message of characters or one per node of a tree, and puts a       *)
(* pointer to them into one ring; the server (the primary) notes the time, *)
(* gives the elements back, takes one for the time it noted and puts it    *)
(* into the other ring; the client prints the difference and gives that    *)
(* element back.  Each core keeps elements in a cache of its own, which    *)
(* only processes running on that core can take from.                      *)
(*   simple_mp/other/roundTripArray.c makes one such round, of a size that *)
(* the user enters, with the parts of the processes exchanged: the primary *)
(* is the client, and receives on a core other than main's.                *)
(***************************************************************************)
EXTENDS Integers, Sequences

CONSTANTS Points, Inc,          \* NUM_DATAPOINTS, DATA_INC
          PoolSize, NodePool,   \* pool_size in char mode, in node mode
          CacheSize, FlushAt,   \* a core's cache: flushed to CacheSize at FlushAt
          RingSize,             \* messages a ring can hold
          ClientCore, ServerCore,
          ReceiveCore           \* the client's in roundTripArray.c

ASSUME SharedMemAssumption ==
  /\ Points \in Nat \ {0} /\ Inc \in Nat \ {0} /\ PoolSize \in Nat /\ NodePool \in Nat
  /\ CacheSize \in Nat /\ FlushAt \in Nat /\ CacheSize < FlushAt
  /\ RingSize \in Nat \ {0}

VARIABLES mode,                 \* argv[1]: "char", "node" or "other"; or "once",
                                \* which is roundTripArray
          free, cache,          \* elements in the pool's ring and in the caches
          requests, replies,    \* the rings PRI_2_SEC and SEC_2_PRI
          cpc, ci,              \* client: where it is, its round
          spc, si, msg,         \* server: where it is, its round, msg
          printed               \* rounds printed, with the round of the reply

client == <<cpc, ci, printed>>
server == <<spc, si, msg>>
vars == <<mode, free, cache, requests, replies, client, server>>

Cores == {ClientCore, ServerCore, ReceiveCore}

Pool == IF mode = "node" THEN NodePool ELSE PoolSize

\* elements of the message of round i; with another argument than the two, the
\* client sends null pointers and the server frees them as trees
Need(i) == CASE mode = "node" -> i * Inc
             [] mode = "other" -> 0
             [] OTHER -> 1

Init ==
  /\ mode \in {"char", "node", "other", "once"}
  /\ free = Pool /\ cache = [c \in Cores |-> 0]
  /\ requests = <<>> /\ replies = <<>>
  /\ cpc = "build" /\ ci = 1 /\ printed = <<>>
  /\ spc = "await" /\ si = 1 /\ msg = 0

-----------------------------------------------------------------------------
(* The memory pool.  Elements are taken and given one by one through the   *)
(* cache of core c; these are the results of doing so n times.             *)

\* an empty cache is filled, with one more to hand out, if the ring holds
\* that many; otherwise the element comes from the ring alone
LenAfterGet(len, n) ==
  LET batch   == CacheSize + 1
      missing == n - len
      fetched == ((missing + batch - 1) \div batch) * batch
  IN IF missing <= 0 THEN -missing
     ELSE IF fetched <= free THEN fetched - missing ELSE 0

\* a cache that reaches FlushAt is flushed to CacheSize
LenAfterPut(len, n) ==
  IF len + n < FlushAt THEN len + n
  ELSE CacheSize + ((len + n - FlushAt) % (FlushAt - CacheSize))

Enough(c, n) == n <= free + cache[c]

\* n gets: the last ones fail when the pool and the cache are empty
Take(c, n) ==
  LET len == IF Enough(c, n) THEN LenAfterGet(cache[c], n) ELSE 0
  IN /\ cache' = [cache EXCEPT ![c] = len]
     /\ free' = IF Enough(c, n) THEN free + cache[c] - n - len ELSE 0

Give(c, n) ==
  LET len == LenAfterPut(cache[c], n)
  IN /\ cache' = [cache EXCEPT ![c] = len]
     /\ free' = free + cache[c] + n - len

-----------------------------------------------------------------------------
(* The client                                                              *)

Client(from, to) == cpc = from /\ cpc' = to /\ UNCHANGED <<server, mode>>

\* deleteTree of the last tree and buildTree.  In the first round there is
\* no tree and deleteTree reads through the null pointer: the build may
\* trap there, or go on as if it returned.  It frees no tree later either.
Build ==
  /\ mode # "once"
  /\ \/ Client("build", "copy")
     \/ mode = "node" /\ ci = 1 /\ Client("build", "crashed")
  /\ UNCHANGED <<free, cache, requests, replies, ci, printed>>

\* rte_mempool_get or copyTreeSHM, with rte_panic when an element is missing
Copy ==
  /\ Client("copy", IF Enough(ClientCore, Need(ci)) THEN "send" ELSE "panic")
  /\ Take(ClientCore, Need(ci))
  /\ UNCHANGED <<requests, replies, ci, printed>>

Send ==
  /\ Client("send", "recv")
  /\ IF Len(requests) < RingSize
     THEN requests' = Append(requests, ci) /\ UNCHANGED <<free, cache>>
     ELSE Give(ClientCore, 1) /\ UNCHANGED requests
  /\ UNCHANGED <<replies, ci, printed>>

\* Mutated forms: the client looks for a reply once; it keeps the element of
\* the reply
ReceiveOnce ==
  /\ Client("recv", IF ci = Points THEN "done" ELSE "build")
  /\ printed' = Append(printed, <<ci, IF replies = <<>> THEN 0 ELSE Head(replies)>>)
  /\ replies' = IF replies = <<>> THEN <<>> ELSE Tail(replies)
  /\ Give(ClientCore, 1)
  /\ ci' = ci + 1
  /\ UNCHANGED requests

ReceiveKeeps ==
  /\ replies # <<>>
  /\ Client("recv", IF ci = Points THEN "done" ELSE "build")
  /\ printed' = Append(printed, <<ci, Head(replies)>>)
  /\ replies' = Tail(replies)
  /\ ci' = ci + 1
  /\ UNCHANGED <<requests, free, cache>>

\* client_recv, and on to the next round
Receive ==
  /\ mode # "once" /\ replies # <<>>
  /\ Client("recv", IF ci = Points THEN "done" ELSE "build")
  /\ printed' = Append(printed, <<ci, Head(replies)>>)
  /\ replies' = Tail(replies)
  /\ Give(ClientCore, 1)
  /\ ci' = ci + 1
  /\ UNCHANGED requests

-----------------------------------------------------------------------------
(* The server: server_recv                                                 *)

Server(from, to) == spc = from /\ spc' = to /\ UNCHANGED <<client, mode>>

Await ==
  /\ requests # <<>>
  /\ Server("await", IF mode = "once" THEN "get" ELSE "free")
  /\ msg' = Head(requests)
  /\ requests' = Tail(requests)
  /\ UNCHANGED <<free, cache, replies, si>>

\* Mutated form: of a tree, only the root is given back
ReleaseRoot ==
  /\ mode # "once"
  /\ Server("free", "get")
  /\ Give(ServerCore, 1)
  /\ UNCHANGED <<requests, replies, si, msg>>

\* rte_mempool_put or deleteTreeSHM
Release ==
  /\ mode # "once"
  /\ Server("free", "get")
  /\ Give(ServerCore, Need(msg))
  /\ UNCHANGED <<requests, replies, si, msg>>

GetReply ==
  /\ Server("get", IF Enough(ServerCore, 1) THEN "reply" ELSE "panic")
  /\ Take(ServerCore, 1)
  /\ UNCHANGED <<requests, replies, si, msg>>

Reply ==
  /\ Server("reply", IF mode = "once" THEN "put" ELSE IF si = Points THEN "done" ELSE "await")
  /\ IF Len(replies) < RingSize
     THEN replies' = Append(replies, msg) /\ UNCHANGED <<free, cache>>
     ELSE Give(ServerCore, 1) /\ UNCHANGED replies
  /\ si' = si + 1
  /\ UNCHANGED <<requests, msg>>

-----------------------------------------------------------------------------
(* What roundTripArray.c does differently                                  *)

\* the size that the user enters, and the message; if it is not one of the
\* six the message is written through a null pointer
AskBytes ==
  /\ mode = "once"
  /\ Client("build", "copy") \/ Client("build", "crashed")
  /\ UNCHANGED <<free, cache, requests, replies, ci, printed>>

\* lcore_recv of the primary, on its own core; quit ends it
ReceiveBack ==
  /\ mode = "once" /\ replies # <<>>
  /\ Client("recv", "done")
  /\ printed' = Append(printed, <<ci, Head(replies)>>)
  /\ replies' = Tail(replies)
  /\ Give(ReceiveCore, 1)
  /\ ci' = ci + 1
  /\ UNCHANGED requests

\* lcore_recv of the secondary gives the message back when it has answered
PutBack ==
  /\ Server("put", "done")
  /\ Give(ServerCore, 1)
  /\ UNCHANGED <<requests, replies, si, msg>>

ClientStep == Build \/ Copy \/ Send \/ Receive \/ ReceiveBack
ServerStep == Await \/ Release \/ GetReply \/ Reply \/ PutBack
Next == ClientStep \/ ServerStep \/ AskBytes

Spec == Init /\ [][Next]_vars

\* both processes poll their ring and wait for nothing else, but for the user
FairSpec == Spec /\ WF_vars(ClientStep) /\ WF_vars(ServerStep)

-----------------------------------------------------------------------------
(* Properties *)

(* Neither ring nor cache nor pool goes beyond what it holds, and neither  *)
(* process beyond the last round.                                          *)
TypeOK ==
  /\ mode \in {"char", "node", "other", "once"}
  /\ free \in 0..Pool /\ cache \in [Cores -> 0..FlushAt-1]
  /\ requests \in Seq(1..Points) /\ Len(requests) <= RingSize
  /\ replies \in Seq(1..Points) /\ Len(replies) <= RingSize
  /\ cpc \in {"build", "copy", "send", "recv", "done", "crashed", "panic"}
  /\ spc \in {"await", "free", "get", "reply", "put", "done", "panic"}
  /\ ci \in 1..Points+1 /\ si \in 1..Points+1 /\ msg \in 0..Points

FirstOf(list) == IF list = <<>> THEN 0 ELSE list[1]

\* the message on its way to the server or not yet answered
Unanswered ==
  IF spc \in {"free", "get", "reply", "panic"} THEN msg ELSE FirstOf(requests)

RT == INSTANCE RoundTrip WITH
        request <- Unanswered,
        reply <- FirstOf(replies),
        last <- IF printed = <<>> THEN 0 ELSE printed[Len(printed)][2],
        inStep <- TRUE

(* The two rings carry one message or answer at a time, and every time the *)
(* client prints is between sending a message and the server's receiving   *)
(* that same one.                                                          *)
RefinesRoundTrip == RT!Spec

Parked ==
  cache[ClientCore]
    + (IF ServerCore = ClientCore THEN 0 ELSE cache[ServerCore])
    + (IF ReceiveCore \in {ClientCore, ServerCore} THEN 0 ELSE cache[ReceiveCore])

(* Between two rounds, and at the end, every element is back, in the       *)
(* pool's ring or in a cache: neither process leaks one that the other     *)
(* took.                                                                   *)
PoolWhole ==
  cpc \in {"build", "copy"} \/ (cpc = "done" /\ spc = "done") => free + Parked = Pool

(* The elements that one cache may hold are all that the pool needs beyond *)
(* what a message takes: a message that fails to fit is larger than the    *)
(* pool less the cache of the core that gave the last one back, and there  *)
(* is always an element for the reply, even where no element has just been *)
(* given back for it, in roundTripArray.c, where the message still has its *)
(* own, and of a null pointer, if the pool is larger than a full cache and *)
(* one.                                                                    *)
PanicsOnlyWhenTight ==
  /\ cpc = "panic" => Need(ci) + FlushAt - 1 > Pool
  /\ spc = "panic" => mode \in {"once", "other"} /\ Pool <= FlushAt

(* Both processes go through all the rounds, or the one that the user      *)
(* asked for, and end, in tree mode unless the first build crashes or a    *)
(* tree does not fit.                                                      *)
Completes ==
  mode # "once" \/ cpc = "copy" ~>
    \/ cpc = "done" /\ spc = "done"
    \/ mode = "node" /\ cpc \in {"crashed", "panic"}

(* main.c:62 and 114, rte_panic("Failed to get message buffer"): the pool  *)
(* always has the elements that a message or a reply needs.                *)
NoPanic == cpc # "panic" /\ spc # "panic"
=============================================================================
