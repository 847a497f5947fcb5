------------------------------- MODULE KeyFifo -------------------------------
(***************************************************************************)
(* What the table of shmht promises whoever uses it: each key owns a queue *)
(* of the values inserted under it, insert appends, search shows the       *)
(* oldest, remove drops the oldest, bulk removal drops some of the oldest  *)
(* of each queue, and all queues together hold at most Capacity values.    *)
(* Hashing, collisions and the layout of the shared memory do not show.    *)
(***************************************************************************)
EXTENDS Integers, Sequences, FiniteSets

CONSTANTS Keys, Values, Capacity,
          Acceptable(_, _)   \* the key and the value fit their fields

VARIABLES queue,   \* the values stored under each key, oldest first
          ret      \* the last call and what it returned

vars == <<queue, ret>>

EINVAL == -22

Positions == UNION {{<<k, i>> : i \in 1..Len(queue[k])} : k \in Keys}
Size == Cardinality(Positions)

Init ==
  /\ queue = [k \in Keys |-> <<>>]
  /\ ret = <<"create">>

Insert(k, v) ==
  /\ ret' = <<"insert", 1>>
  /\ Acceptable(k, v) /\ Size < Capacity
  /\ queue' = [queue EXCEPT ![k] = Append(@, v)]

Refuse(k, v) ==
  /\ ret' = <<"insert", IF Acceptable(k, v) THEN -1 ELSE EINVAL>>
  /\ ~Acceptable(k, v) \/ Size = Capacity
  /\ UNCHANGED queue

Search(k) ==
  /\ ret' = IF queue[k] = <<>> THEN <<"search">>
            ELSE <<"search", Head(queue[k]), Head(queue[k])>>
  /\ UNCHANGED queue

Remove(k) ==
  \/ ret' = <<"remove", 0>> /\ queue[k] = <<>> /\ UNCHANGED queue
  \/ ret' = <<"remove", 1>> /\ queue[k] # <<>> /\ queue' = [queue EXCEPT ![k] = Tail(@)]

Count == ret' = <<"count", Size>> /\ UNCHANGED queue

Flush == ret' = <<"flush", 0>> /\ queue' = [k \in Keys |-> <<>>]

\* how much it drops of each queue is not promised, nor what it returns
Prune ==
  /\ \E n \in 0..Capacity : ret' = <<"older", n>>
  /\ queue' \in [Keys -> Seq(Values)]
  /\ \A k \in Keys : \E n \in 0..Len(queue[k]) :
       queue'[k] = SubSeq(queue[k], n + 1, Len(queue[k]))

Next ==
  \/ \E k \in Keys : Search(k) \/ Remove(k)
  \/ \E k \in Keys, v \in Values : Insert(k, v) \/ Refuse(k, v)
  \/ Count \/ Flush \/ Prune

Spec == Init /\ [][Next]_vars
===============================================================================
