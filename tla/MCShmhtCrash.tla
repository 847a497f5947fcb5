----------------------------- MODULE MCShmhtCrash -----------------------------
(* Two keys that collide at index 0 and one alone at the last index.       *)
EXTENDS ShmhtCrash, TLC

CONSTANTS k1, k2, k3

MCIndex == [k \in Keys \cup {NoKey} |-> IF k = k3 THEN N - 1 ELSE 0]

\* the two keys of index 0 are interchangeable
Symmetry == Permutations({k1, k2})

(* What an unused primary entry holds matters here: a kill can bring it    *)
(* back.  Of an unused collision entry only the link does, since a kill    *)
(* while it is filled leaves it outside every chain.  Of no consequence    *)
(* are the sizes and seconds (one value, no ticks), the positions of a     *)
(* table that is to be flushed anyway, what unused buckets hold and what   *)
(* the last call returned.                                                 *)
Seen == <<[s \in Slots |-> LET e == entries[s] IN
             IF e.used THEN <<e.key, e.next, e.bucket,
                              IF killed = "none" THEN e.position ELSE 0>>
             ELSE IF s \in Primary THEN <<e.key, e.next, e.bucket>>
             ELSE <<e.next>>],
          [b \in Primary |-> buckets[b].used], entrycount, killed>>
===============================================================================
