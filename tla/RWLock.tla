-------------------------------- MODULE RWLock --------------------------------
(***************************************************************************)
(* What the lock of shmht_sem.h promises its callers: any number of        *)
(* readers, or one writer alone, and a writer that has announced itself    *)
(* holds off every new reader until it has had its turn or withdraws.      *)
(* Nothing here knows about semaphores, signals or crashes: a process that *)
(* dies leaves the set it was in, which is what ending or withdrawing is.  *)
(* The lock can be removed by a writer.  From then on it excludes nobody   *)
(* any more, and nobody new gets in either: whoever had announced a write  *)
(* may still slip in, and whoever is inside leaves.                        *)
(***************************************************************************)
CONSTANT Procs

VARIABLES readers,   \* processes inside a read section
          waiting,   \* processes that announced a write and are not inside
          writers,   \* processes inside a write section
          removed    \* the lock has been removed

vars == <<readers, waiting, writers, removed>>

Init ==
  /\ readers = {}
  /\ waiting = {}
  /\ writers = {}
  /\ removed = FALSE

Outside(p) == p \notin readers \cup waiting \cup writers

BeginRead(p) ==
  /\ ~removed
  /\ Outside(p)
  /\ waiting = {} /\ writers = {}
  /\ readers' = readers \cup {p}
  /\ UNCHANGED <<waiting, writers, removed>>

EndRead(p) ==
  /\ ~removed
  /\ p \in readers
  /\ readers' = readers \ {p}
  /\ UNCHANGED <<waiting, writers, removed>>

Announce(p) ==
  /\ ~removed
  /\ Outside(p)
  /\ waiting' = waiting \cup {p}
  /\ UNCHANGED <<readers, writers, removed>>

Withdraw(p) ==
  /\ ~removed
  /\ p \in waiting
  /\ waiting' = waiting \ {p}
  /\ UNCHANGED <<readers, writers, removed>>

BeginWrite(p) ==
  /\ ~removed
  /\ p \in waiting
  /\ readers = {} /\ writers = {}
  /\ waiting' = waiting \ {p}
  /\ writers' = {p}
  /\ UNCHANGED <<readers, removed>>

EndWrite(p) ==
  /\ ~removed
  /\ p \in writers
  /\ writers' = writers \ {p}
  /\ UNCHANGED <<readers, waiting, removed>>

\* a writer ends by removing the lock
Remove(p) ==
  /\ ~removed
  /\ p \in writers
  /\ removed' = TRUE
  /\ writers' = writers \ {p}
  /\ UNCHANGED <<readers, waiting>>

Drain ==
  /\ removed /\ removed'
  /\ readers' \subseteq readers
  /\ waiting' \subseteq waiting
  /\ writers' \subseteq writers \cup waiting

Next ==
  \/ \E p \in Procs :
       \/ BeginRead(p) \/ EndRead(p)
       \/ Announce(p) \/ Withdraw(p) \/ BeginWrite(p) \/ EndWrite(p)
       \/ Remove(p)
  \/ Drain

Spec == Init /\ [][Next]_vars
===============================================================================
