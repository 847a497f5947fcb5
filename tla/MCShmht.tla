---------------------------- MODULE MCShmht --------------------------------
(* The table with two keys that collide at index 0 and one alone at the    *)
(* last index; NoKey, the zero bytes of a fresh entry, is at index 0 too.  *)
EXTENDS ShmhtOlder

CONSTANTS k1, k2, k3

MCIndex == [k \in Keys \cup {NoKey} |-> IF k = k3 THEN N - 1 ELSE 0]

(* Besides the used entries, only the key of the last primary slot is ever *)
(* read (through the index -1 of an unset candidate).  Whether the last    *)
(* call was a removal is kept, so that one that changes nothing is still a *)
(* step after any other call.                                              *)
Live == <<[s \in Slots |-> IF entries[s].used THEN <<entries[s]>> ELSE <<>>],
          [n \in Primary |-> IF buckets[n].used THEN <<buckets[n].val>> ELSE <<>>],
          entries[N - 1].key, entrycount, clock, ret[1] = "older">>
===============================================================================
