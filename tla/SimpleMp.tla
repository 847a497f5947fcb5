------------------------------ MODULE SimpleMp ------------------------------
(***************************************************************************)
(* The one-way benchmarks of simple_mp.  In main.c, which is               *)
(* other/oneWayTreeTimed.c again, the primary process copies trees of      *)
(* growing size into a memory pool and sends their roots through a ring;   *)
(* the receiving cores of the secondary process take them, give the        *)
(* elements back and write the times.  They keep in step through two files *)
(* of one character: flagRing.txt lets the primary build the next tree and *)
(* flagCSV.txt lets the receiver add its end time to the row that the      *)
(* primary has begun.  fopen "w" empties a file and fclose writes the      *)
(* character, so a reader may find it empty, which it takes for "not yet". *)
(* Files outlive a run; ring and pool do not.  other/oneWayArrayTimed.c    *)
(* sends an array instead, in one element and with the get checked.        *)
(* other/oneWayTree.c and other/oneWayArray.c send one message of a size   *)
(* that the user enters, without the files.  (The primary runs lcore_recv  *)
(* too, on a ring nobody sends to: it is left out.)                        *)
(***************************************************************************)
EXTENDS Integers, Sequences, FiniteSets, FiniteSetsExt

CONSTANTS Programs,             \* the programs looked at
          Receivers,            \* the slave lcores of the secondary process
          Increment, Final,     \* increment, finalTreeSize or finalArraySize
          Word,                 \* values of an unsigned int
          Entered,              \* sizes the user may enter, 0 for no number, and a
                                \* negative size as the unsigned int that it becomes
          PoolSize,             \* elements of main.c's pool, one per tree node
          TreePool, ArrayPool,  \* of oneWayTree.c's, of those for arrays
          ElementSize,          \* elmnt_size of an array, and its buffer's size
          CacheSize, FlushAt,   \* a core's cache: flushed to CacheSize at FlushAt
          RingSize,             \* trees the ring can hold
          MaxKills              \* bound on killed runs

ASSUME MpAssumption ==
  /\ Programs \subseteq {"oneWayTreeTimed", "oneWayArrayTimed",
                          "oneWayTree", "oneWayArray"}
  /\ IsFiniteSet(Receivers) /\ Receivers # {}
  /\ Word \in Nat \ {0} /\ Entered \subseteq 0..(Word - 1)
  /\ Increment \in Nat \ {0} /\ Final \in Nat
  /\ Final % Increment = 0 /\ Increment <= Final
  /\ CacheSize \in Nat /\ FlushAt \in Nat /\ CacheSize < FlushAt
  /\ PoolSize \in Nat /\ TreePool \in Nat /\ ArrayPool \in Nat
  /\ ElementSize \in Nat /\ RingSize \in Nat \ {0} /\ MaxKills \in Nat

VARIABLES program,
          flagRing, flagCSV,    \* "" while the file is empty
          csv,                  \* the file of times: who wrote, about which tree
          ppc, sizeP,           \* primary: main, its treeSize
          ring, free,           \* trees on their way, elements not taken
          sec, sizeS, quit,     \* secondary: main, its treeSize, quit
          rpc, tree, read,      \* per core: lcore_recv, msg and treeSize while in use
          parked,               \* per core: elements in its cache
          begun                 \* history: kills, first row, flags at the start

files == <<flagRing, flagCSV, csv>>
primary == <<ppc, sizeP>>
secondary == <<sec, sizeS, quit, rpc, tree, read>>
pool == <<free, parked>>
vars == <<files, primary, ring, pool, secondary, begun, program>>

Each(x) == [r \in Receivers |-> x]

Timed == program \in {"oneWayTreeTimed", "oneWayArrayTimed"}
SendsTree == program \in {"oneWayTreeTimed", "oneWayTree"}

Pool == CASE program = "oneWayTreeTimed" -> PoolSize
          [] program = "oneWayTree" -> TreePool
          [] OTHER -> ArrayPool

\* elements of a message of size n
Need(n) == IF SendsTree THEN n ELSE 1

Start == IF Timed THEN "wait" ELSE "ask"
FirstSize == IF Timed THEN Increment ELSE 0

Init ==
  /\ program \in Programs
  /\ flagRing = "1" /\ flagCSV = "1" /\ csv = <<>>
  /\ ppc = Start /\ sizeP = FirstSize
  /\ ring = <<>> /\ free = Pool /\ parked = Each(0)
  /\ sec = "off" /\ sizeS = Increment /\ quit = FALSE
  /\ rpc = Each("off") /\ tree = Each(0) /\ read = Each(0)
  /\ begun = [kills |-> 0, row |-> 0, clean |-> TRUE]

\* both programs are killed, at any point, and started again: the files stay
Kill ==
  /\ begun.kills < MaxKills
  /\ begun' = [kills |-> begun.kills + 1, row |-> Len(csv),
               clean |-> flagRing # "0" /\ flagCSV # "0"]
  /\ ppc' = Start /\ sizeP' = FirstSize
  /\ ring' = <<>> /\ free' = Pool /\ parked' = Each(0)
  /\ sec' = "off" /\ sizeS' = Increment /\ quit' = FALSE
  /\ rpc' = Each("off") /\ tree' = Each(0) /\ read' = Each(0)
  /\ UNCHANGED <<files, program>>

-----------------------------------------------------------------------------
(* The primary process: while (treeSize <= finalTreeSize)                  *)

PrimaryStep(from, to) ==
  ppc = from /\ ppc' = to /\ UNCHANGED <<secondary, begun, program>>

WaitRing ==
  /\ flagRing = "0"
  /\ PrimaryStep("wait", "clear")
  /\ UNCHANGED <<files, sizeP, ring, pool>>

ClearOpen ==
  /\ PrimaryStep("clear", "clearing")
  /\ flagRing' = ""
  /\ UNCHANGED <<flagCSV, csv, sizeP, ring, pool>>

\* Mutated form: the signal is left in the file
ClearLeavesZero ==
  /\ PrimaryStep("clearing", "copy")
  /\ flagRing' = "0"
  /\ UNCHANGED <<flagCSV, csv, sizeP, ring, pool>>

ClearWrite ==
  /\ PrimaryStep("clearing", "copy")
  /\ flagRing' = "1"
  /\ UNCHANGED <<flagCSV, csv, sizeP, ring, pool>>

\* buildTree, startTime, memCpyTree: an element per node, taken unchecked
CopyTree ==
  /\ SendsTree
  /\ \/ /\ free >= sizeP
        /\ PrimaryStep("copy", "enqueue")
        /\ free' = free - sizeP
     \/ /\ free < sizeP
        /\ PrimaryStep("copy", "segv")
        /\ free' = 0
  /\ UNCHANGED <<files, sizeP, ring, parked>>

\* an array fits one element, and to have none is a panic
CopyArray ==
  /\ ~SendsTree
  /\ \/ /\ free > 0
        /\ PrimaryStep("copy", "enqueue")
        /\ free' = free - 1
     \/ /\ free = 0
        /\ PrimaryStep("copy", "panic")
        /\ UNCHANGED free
  /\ UNCHANGED <<files, sizeP, ring, parked>>

\* a full ring: only the root is given back
Enqueue ==
  /\ PrimaryStep("enqueue", IF Timed THEN "row" ELSE "enter")
  /\ IF Len(ring) < RingSize
     THEN ring' = Append(ring, sizeP) /\ UNCHANGED free
     ELSE free' = free + 1 /\ UNCHANGED ring
  /\ UNCHANGED <<files, sizeP, parked>>

StartRow ==
  /\ PrimaryStep("row", "signal")
  /\ csv' = Append(csv, <<"start", sizeP>>)
  /\ sizeP' = sizeP + Increment
  /\ UNCHANGED <<flagRing, flagCSV, ring, pool>>

SignalOpen ==
  /\ PrimaryStep("signal", "signalling")
  /\ flagCSV' = ""
  /\ UNCHANGED <<flagRing, csv, sizeP, ring, pool>>

SignalWrite ==
  /\ PrimaryStep("signalling", IF sizeP <= Final THEN "wait" ELSE "done")
  /\ flagCSV' = "0"
  /\ UNCHANGED <<flagRing, csv, sizeP, ring, pool>>

Primary ==
  \/ WaitRing \/ ClearOpen \/ ClearWrite \/ CopyTree \/ CopyArray
  \/ Enqueue \/ StartRow \/ SignalOpen \/ SignalWrite

-----------------------------------------------------------------------------
(* The user of the programs that send one message                          *)

\* buildTree takes the size as unsigned, so that a negative one is huge; no
\* number, or the end of the input: nothing is sent
AskTree ==
  /\ SendsTree
  /\ \E n \in Entered :
       /\ PrimaryStep("ask", IF n = 0 THEN "enter" ELSE "copy")
       /\ sizeP' = n
  /\ UNCHANGED <<files, ring, pool>>

\* a larger array is written past the end of its buffer, and one of a negative
\* size in front of it: that may trap
AskArray ==
  /\ ~SendsTree
  /\ \E n \in Entered :
       /\ \/ PrimaryStep("ask", IF n = 0 THEN "enter" ELSE "copy")
          \/ n > ElementSize /\ PrimaryStep("ask", "segv")
       /\ sizeP' = n
  /\ UNCHANGED <<files, ring, pool>>

\* at the end of the input quit stays 0, and main waits for its own cores
EnterExit ==
  /\ PrimaryStep("enter", "done") \/ PrimaryStep("enter", "stuck")
  /\ UNCHANGED <<files, sizeP, ring, pool>>

User == AskTree \/ AskArray \/ EnterExit

-----------------------------------------------------------------------------
(* The secondary process: main launches the cores, then signals once       *)

MainStep(from, to) ==
  sec = from /\ sec' = to
  /\ UNCHANGED <<flagCSV, csv, primary, ring, pool, sizeS, quit, tree, read, begun,
                 program>>

Launch ==
  /\ MainStep("off", IF Timed THEN "open" ELSE "ready")
  /\ rpc' = [r \in Receivers |-> "loop"]
  /\ UNCHANGED flagRing

ReadyOpen == MainStep("open", "opening") /\ flagRing' = "" /\ UNCHANGED rpc
ReadyWrite == MainStep("opening", "ready") /\ flagRing' = "0" /\ UNCHANGED rpc

SecondaryMain == Launch \/ ReadyOpen \/ ReadyWrite

-----------------------------------------------------------------------------
(* The secondary process: lcore_recv on core r                             *)

Core(r, from, to) ==
  rpc[r] = from /\ rpc' = [rpc EXCEPT ![r] = to]
  /\ UNCHANGED <<primary, sec, begun, program>>

\* while (!quit)
Loop(r) ==
  /\ Core(r, "loop", IF quit THEN "gone" ELSE "poll")
  /\ UNCHANGED <<files, ring, pool, sizeS, quit, tree, read>>

Empty(r) ==
  /\ ring = <<>>
  /\ Core(r, "poll", "loop")
  /\ UNCHANGED <<files, ring, pool, sizeS, quit, tree, read>>

Dequeue(r) ==
  /\ ring # <<>>
  /\ Core(r, "poll", "destroy")
  /\ tree' = [tree EXCEPT ![r] = Head(ring)]
  /\ ring' = Tail(ring)
  /\ UNCHANGED <<files, pool, sizeS, quit, read>>

\* what a cache holds after n elements are put into it one by one
CacheAfter(c, n) ==
  IF c + n < FlushAt THEN c + n
  ELSE CacheSize + ((c + n - FlushAt) % (FlushAt - CacheSize))

\* what follows when the message is freed; parked and free after n puts
Freed(r, n) ==
  /\ Core(r, "destroy", IF Timed THEN "await" ELSE "quit")
  /\ LET c == CacheAfter(parked[r], n)
     IN /\ parked' = [parked EXCEPT ![r] = c]
        /\ free' = free + parked[r] + n - c
  /\ UNCHANGED <<files, ring, sizeS, quit, tree, read>>

\* Mutated form: only the root is given back
DestroyRoot(r) == SendsTree /\ Freed(r, 1)

\* destroyTreePool
DestroyTree(r) == SendsTree /\ Freed(r, tree[r])

PutArray(r) == ~SendsTree /\ Freed(r, 1)

\* Mutated form: the end time is written without waiting
AwaitNothing(r) ==
  /\ Core(r, "await", "clear")
  /\ UNCHANGED <<files, ring, pool, sizeS, quit, tree, read>>

AwaitRow(r) ==
  /\ flagCSV = "0"
  /\ Core(r, "await", "clear")
  /\ UNCHANGED <<files, ring, pool, sizeS, quit, tree, read>>

RowOpen(r) ==
  /\ Core(r, "clear", "clearing")
  /\ flagCSV' = ""
  /\ UNCHANGED <<flagRing, csv, ring, pool, sizeS, quit, tree, read>>

RowWrite(r) ==
  /\ Core(r, "clearing", "row")
  /\ flagCSV' = "1"
  /\ UNCHANGED <<flagRing, csv, ring, pool, sizeS, quit, tree, read>>

EndRow(r) ==
  /\ Core(r, "row", "next")
  /\ csv' = Append(csv, <<"end", tree[r]>>)
  /\ tree' = [tree EXCEPT ![r] = 0]
  /\ UNCHANGED <<flagRing, flagCSV, ring, pool, sizeS, quit, read>>

NextOpen(r) ==
  /\ Core(r, "next", "opening")
  /\ flagRing' = ""
  /\ UNCHANGED <<flagCSV, csv, ring, pool, sizeS, quit, tree, read>>

NextWrite(r) ==
  /\ Core(r, "opening", "read")
  /\ flagRing' = "0"
  /\ UNCHANGED <<flagCSV, csv, ring, pool, sizeS, quit, tree, read>>

\* treeSize += increment, on a variable that all the cores share
ReadSize(r) ==
  /\ Core(r, "read", "add")
  /\ read' = [read EXCEPT ![r] = sizeS]
  /\ UNCHANGED <<files, ring, pool, sizeS, quit, tree>>

AddSize(r) ==
  /\ Core(r, "add", "test")
  /\ sizeS' = read[r] + Increment
  /\ read' = [read EXCEPT ![r] = 0]
  /\ UNCHANGED <<files, ring, pool, quit, tree>>

\* Mutated form: the last tree does not end the loop
TestTooLate(r) ==
  /\ Core(r, "test", IF sizeS > Final + Increment THEN "last" ELSE "loop")
  /\ UNCHANGED <<files, ring, pool, sizeS, quit, tree, read>>

TestSize(r) ==
  /\ Core(r, "test", IF sizeS > Final THEN "last" ELSE "loop")
  /\ UNCHANGED <<files, ring, pool, sizeS, quit, tree, read>>

LastOpen(r) ==
  /\ Core(r, "last", "closing")
  /\ flagRing' = ""
  /\ UNCHANGED <<flagCSV, csv, ring, pool, sizeS, quit, tree, read>>

\* Mutated form: the flag is left for a tree that does not come
LastLeavesZero(r) ==
  /\ Core(r, "closing", "quit")
  /\ flagRing' = "0"
  /\ UNCHANGED <<flagCSV, csv, ring, pool, sizeS, quit, tree, read>>

LastWrite(r) ==
  /\ Core(r, "closing", "quit")
  /\ flagRing' = "1"
  /\ UNCHANGED <<flagCSV, csv, ring, pool, sizeS, quit, tree, read>>

Quit(r) ==
  /\ Core(r, "quit", "loop")
  /\ quit' = TRUE
  /\ UNCHANGED <<files, ring, pool, sizeS, tree, read>>

Receiver(r) ==
  \/ Loop(r) \/ Empty(r) \/ Dequeue(r) \/ DestroyTree(r) \/ PutArray(r)
  \/ AwaitRow(r) \/ RowOpen(r) \/ RowWrite(r) \/ EndRow(r)
  \/ NextOpen(r) \/ NextWrite(r) \/ ReadSize(r) \/ AddSize(r)
  \/ TestSize(r) \/ LastOpen(r) \/ LastWrite(r) \/ Quit(r)

Next == Kill \/ User \/ Primary \/ SecondaryMain \/ \E r \in Receivers : Receiver(r)

Spec == Init /\ [][Next]_vars

\* every thread that can run does: they spin or block on nothing else; the
\* user need not enter anything
FairSpec ==
  /\ Spec
  /\ WF_vars(Primary) /\ WF_vars(SecondaryMain)
  /\ \A r \in Receivers : WF_vars(Receiver(r))

-----------------------------------------------------------------------------
(* Properties *)

ThisRun == SubSeq(csv, begun.row + 1, Len(csv))

(* In a run that does not begin with a signal left by a killed one, every  *)
(* row of treeTimes.csv is a start time and the end time of the same tree, *)
(* and the rows are in the order of the sizes, however many cores receive. *)
(* A start that a killed run left without its end is not of this run.      *)
RowsPaired ==
  begun.clean =>
    \A i \in DOMAIN ThisRun :
      ThisRun[i] = <<IF i % 2 = 1 THEN "start" ELSE "end",
                     ((i + 1) \div 2) * Increment>>

(* In such a run the primary builds and times a tree while no other is on  *)
(* its way or being freed: all elements are back, but for those the cores  *)
(* keep in their caches.                                                   *)
TreeBuiltAlone ==
  begun.clean /\ ppc = "copy" =>
    /\ ring = <<>>
    /\ free + MapThenSumSet(LAMBDA r : parked[r], Receivers) = Pool

Failed == ppc \in {"segv", "panic"}

\* elements that the receiving cores may keep when a message is copied
Parkable == IF Timed THEN Cardinality(Receivers) * (FlushAt - 1) ELSE 0

(* So rte_mempool_get, unchecked for a tree and answered with a panic for  *)
(* an array, fails in such a run only if the elements of the pool beyond   *)
(* the message do not cover what the caches may park; a program that asks  *)
(* for the size fails at its copy only if the message is larger than the   *)
(* pool or, being an array, than its buffer; a negative size is larger.    *)
FailsOnlyWhenTight ==
  begun.clean /\ Failed =>
    \/ Need(sizeP) > Pool - Parkable
    \/ program = "oneWayArray" /\ sizeP > ElementSize

\* all messages are sent and received, and the secondary process has ended
AllGone ==
  /\ IF Timed THEN ppc = "done" ELSE ppc \in {"enter", "done", "stuck"} /\ sizeP # 0
  /\ \A r \in Receivers : rpc[r] = "gone"

(* A run that began so and ends leaves both flags as the next one needs    *)
(* them.                                                                   *)
ReadyForNextRun == begun.clean /\ AllGone => flagRing = "1" /\ flagCSV = "1"

\* all trees are received, but the cores have lost count of them
Miscounted ==
  /\ Timed /\ Cardinality(Receivers) > 1
  /\ ppc = "done" /\ ring = <<>> /\ sizeS <= Final
  /\ \A r \in Receivers : rpc[r] \in {"loop", "poll"}

\* the user has not entered a size, or entered none
Unasked == ~Timed /\ sizeP = 0

(* Such a run comes to its end: no wait for a flag is for ever.  Only if   *)
(* several cores receive, and an increment of the treeSize that they share *)
(* is lost, do they go on polling after the last tree.  (The other ways    *)
(* out are that the copy failed and that the user gave nothing to send.)   *)
EndsUnlessMiscounted ==
  begun.clean ~> (AllGone \/ Miscounted \/ Failed \/ Unasked \/ ~begun.clean)

(* main.c:193 "quit program once all Tree's have been created": both       *)
(* processes end.                                                          *)
QuitsWhenAllSent == <>AllGone
=============================================================================
