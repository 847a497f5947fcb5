------------------------------ MODULE ShmhtOlder ------------------------------
(***************************************************************************)
(* shmht_remove_older_entries on top of the table: with the write lock     *)
(* held it scans both entry arrays once, keeps N*p/100 candidates, and     *)
(* removes each of them through __shmht_remove__.  A candidate is kept as  *)
(* (sec, is_in_col, position), and removed later by the key that is then   *)
(* in that place; the removal takes the first entry of that key.           *)
(***************************************************************************)
EXTENDS ShmhtTable

CONSTANT Percents   \* the percentages it is called with: it refuses those above 100

ASSUME PercentsAssumption == Percents \subseteq 0..100

Deletes(p) == (N * p) \div 100

LongMax == MaxClock + 1

\* older_storage is filled with sec LONG_MAX, is_in_col -1 and index -1: the
\* place in front of the collision area, which is the last primary slot
Unset == [sec |-> LongMax, slot |-> N - 1]

PlaceOf(s) == IF s \in Primary THEN entries[s].position ELSE N + entries[s].position

\* Mutated form: the newest entries are kept
KeepIfNewer(store, s) ==
  LET later == {i \in DOMAIN store : store[i].sec = LongMax \/ entries[s].sec > store[i].sec}
  IN IF ~entries[s].used \/ later = {} THEN store
     ELSE [store EXCEPT ![Lowest(later)] = [sec |-> entries[s].sec, slot |-> PlaceOf(s)]]

\* insert_older_if_necessary: the first candidate that is newer is replaced
KeepIfOlder(store, s) ==
  LET later == {i \in DOMAIN store : entries[s].sec < store[i].sec}
  IN IF ~entries[s].used \/ later = {} THEN store
     ELSE [store EXCEPT ![Lowest(later)] = [sec |-> entries[s].sec, slot |-> PlaceOf(s)]]

\* the candidates after n places of the scan: entries, then collision entries
Scan(p) ==
  LET scan[n \in 0..2*N] ==
        IF n = 0 THEN [i \in 1..Deletes(p) |-> Unset] ELSE KeepIfOlder(scan[n-1], n - 1)
  IN scan

Candidates(p) == Scan(p)[2*N]

RemovePlace(h, candidate) == RemoveFrom(h, h.entries[candidate.slot].key)

\* the segment after n of the candidates are removed
Removals(p) ==
  LET candidates == Candidates(p)
      after[n \in 0..Deletes(p)] ==
        IF n = 0 THEN Segment ELSE RemovePlace(after[n-1], candidates[n])
  IN after

RemoveOlder(p) ==
  /\ LET h == Removals(p)[Deletes(p)]
     IN entries' = h.entries /\ buckets' = h.buckets /\ entrycount' = h.entrycount
  /\ ret' = <<"older", Deletes(p)>>
  /\ UNCHANGED clock

OlderNext == Next \/ \E p \in Percents : RemoveOlder(p)

OlderSpec == Init /\ [][OlderNext]_vars

-------------------------------------------------------------------------------
(* Properties *)

SecsOf(e) == {e[s].sec : s \in {t \in Slots : e[t].used}}
Since(e, t) == Cardinality({s \in Slots : e[s].used /\ e[s].sec = t})

\* this step is the removal of the older entries (vars changes)
Pruned == ret'[1] = "older" /\ clock' = clock

(* The properties of ShmhtTable hold with these removals too, KeyFifo's    *)
(* promise among them: a key loses its values in the order they came in,   *)
(* though the places to remove come from a scan that earlier removals have *)
(* made stale.                                                             *)

(* With a clock that never goes back, a call that is to delete something   *)
(* from a table that has something erases one of the oldest entries.       *)
AnOldestErased ==
  [][ Pruned /\ ret'[2] > 0 /\ entrycount > 0 =>
        LET oldest == Lowest(SecsOf(entries))
        IN Since(entries', oldest) < Since(entries, oldest) ]_vars

(* shmht.h: "The erased elements are the oldests": when an entry of some   *)
(* second is erased, every entry of an earlier second is.                  *)
ErasesTheOldest ==
  [][ Pruned => \A t, u \in SecsOf(entries) :
        Since(entries', u) < Since(entries, u) /\ t < u => Since(entries', t) = 0 ]_vars
===============================================================================
