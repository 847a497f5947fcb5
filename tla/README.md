# Formal models of the IPC benchmarks

The repository compares ways for two processes to exchange messages: a hash
table in System V shared memory (`src/shmht_vs_socket`), DPDK rings and memory
pools (`src/simple_mp`, `src/shared_mem`) and TCP sockets (`src/sockets`).
This directory holds TLA+ models of the parts that carry protocol or data
structure logic, TLC configurations that check them on small instances, and
proofs checked by TLAPS.  `PROJECT.json` lists components, runs, the mutants
that show each property can fail, the source lines behind each definition,
hazards, findings and theorems.

To check a run, in this directory: `tlc -config ShmhtOlder.cfg MCShmht`.
To check the proofs of a module: `tlapm ShmhtTableProofs.tla`.

## 1. Inventory

| Component | State | Operations | What is hard | What makes it correct |
|---|---|---|---|---|
| Read/write lock, `shmht_sem.h` | two semaphores, the kernel's undo list per process | `read_lock`, `read_unlock`, `write_lock`, `write_unlock`, `write_end_proc` | interleavings, signals between the two semops of a writer, kills, removal of the set under sleepers | a writer is inside alone; the semaphores count the holders; nobody starves whom the lock means to serve |
| Hash table, `shmht.c` | entry, collision and bucket arrays, `entrycount` | insert, search, remove, count, flush | chains across two arrays, stale contents of unused entries, long call sequences, a kill between two stores of a call | the chains partition the used entries, each with a bucket of its own; a bounded queue per key; a killed call makes no later one loop or write outside the arrays |
| Bulk removal, `shmht.c` | the same, plus a candidate array | `shmht_remove_older_entries` | places remembered from a scan go stale during the removals | the layout stays sound; the oldest go |
| Table creation and destruction, `shmht.c` | segment, semaphore set, handles | `create_shmht`, `shmht_destroy` | two creators, create against destroy, ids stored before the table is ready, a kill between two kernel calls | all who use the table use the same segment and lock, and who comes later changes nothing that others have stored |
| Table exchange demo, `write_table.c`, `read_table.c`, `destroy_table.c` | two keys of the table | one round trip per run | pointers used after the lock is released, leftovers of killed programs | message and answer arrive and both programs end |
| DPDK one-way benchmark, `simple_mp/main.c` | two flag files, ring, pool, `treeSize`, CSV file | send loop, receive loop | handshake through truncated files, files left by a killed run, several receiving cores | rows pair the times of one tree; a tree is built alone; the run ends |
| Its variants, `oneWay*.c` of `simple_mp/other` | the same, an array instead of trees, or one message whose size the user enters | the same, without the files for one message | a pool of few elements of which caches keep some; a size that nothing checks | the same |
| DPDK round trip, `shared_mem/main.c`, and its ancestor `simple_mp/other/roundTripArray.c` | two rings, pool with per-core caches | client and server loops | the pool at its limit with elements parked in caches | no element lost, no reply for another message, the pool suffices |
| Socket round trip, `sockets/client.c`, `server.c` | byte streams, buffers | client and server loops | partial sends and receives, closed peer, messages without a frame | each side reads its own message, and only that |
| Tree encoding, `node.h` of `sockets` and `shared_mem` | trees, character arrays | `buildTree`, `serialize`, `deserialize` | lengths computed apart from the encoding | the computed length is the encoded one |
| Socket echo demo, `shmht_vs_socket/server.c`, `client.c` | byte streams | one round trip | one read for a message that comes in pieces, ignored errors | an answer to this message, and both end |
| Hash function, timers, DPDK command line, measurements | - | - | - | - |

How they interact: the table's operations run between lock and unlock of the
first component; creation decides which segment and semaphore set a process
uses; the demo programs are clients of the table.  The DPDK programs and the
socket programs are independent of these and of each other.

## 2. Modules

| Module | Models | Uses |
|---|---|---|
| `ShmhtSem` | the lock, its kernel side and the calls around it | instantiates `RWLock` |
| `RWLock` | abstract: a read/write lock with announced writers, which a writer can remove | |
| `ShmhtSemProofs` | theorems about `ShmhtSem` | extends it |
| `ShmhtTable` | the three arrays and insert, search, remove, count, flush | instantiates `KeyFifo` |
| `KeyFifo` | abstract: a bounded table with a FIFO queue of values per key | |
| `ShmhtOlder` | `shmht_remove_older_entries` | extends `ShmhtTable` |
| `ShmhtCrash` | insert, remove and flush store by store, killed after any store | extends `ShmhtTable` |
| `ShmhtTableProofs` | theorems about `ShmhtTable`: the layout, and that it implements `KeyFifo` | extends it |
| `ShmhtOlderProofs` | theorems about `ShmhtOlder` | extends it and `ShmhtTableProofs` |
| `TableExchange` | `create_shmht`, `shmht_destroy` and the three demo programs | relies on what `RWLock` and `KeyFifo` promise |
| `ShmhtCrashProofs` | theorems about `ShmhtCrash` | extends it and `ShmhtTableProofs` |
| `TableExchangeProofs` | theorems about `TableExchange`: one table, one lock, the messages | extends it |
| `SimpleMp` | both processes of `simple_mp/main.c`, and the one-way programs of `simple_mp/other` | |
| `SimpleMpProofs` | theorems about `SimpleMp` | extends it |
| `RoundTrip` | abstract: one message under way, answered once, and its answer printed | |
| `SharedMem` | both processes of `shared_mem/main.c`, and `roundTripArray.c` | instantiates `RoundTrip` |
| `SharedMemProofs` | theorems about `SharedMem` | extends it |
| `Sockets` | `client.c` and `server.c` of `sockets`, and those of `shmht_vs_socket` | instantiates `RoundTrip` |
| `SocketsProofs` | theorems about `Sockets` and `TreeCodec` | extends `MCSockets` |
| `TreeCodec` | `buildTree`, `serialize`, `deserialize` | joined to `Sockets` in `MCSockets` |
| `MCShmht`, `MCShmhtCrash`, `MCSockets` | definitions for the runs: the hash, symmetry and views, the trees | |

Definitions after a comment "Mutated form" are not part of any specification.
They are plausible mistakes in the definition below them; each
property of a passing run is known to fail when one of them takes that
definition's place.

### The lock (`ShmhtSem`)

`semval` are the two semaphores, `semadj` the kernel's `SEM_UNDO` adjustments,
`exists` whether the set is there, and `call`, `at` say which library call each
process is in and where: blocked in `semop`, inside, or in `write_end_proc`
after a failed second `semop`.  Each sembuf table of the header is a record;
`SemOp` applies one at once or is not enabled, as the kernel does.
`WriteAnnounce`, `WriteLock`, `WriteLockFails`, `WriteEndProc` and
`WriteUnlock` are the five points of the write side, `ReadCall`, `ReadLock`,
`ReadLockFails` and `ReadUnlock` those of the read side, `Destroy` the removal
of the set by a process that holds the write lock, and `Crash` a kill anywhere.
A lock operation may fail at any time it is blocked: a signal, or the set's
removal.  `RWLock` says what is left of the lock then: nobody new gets in, but
writers that had announced themselves may (`Drain`), as the code lets them.

### The table (`ShmhtTable`, `ShmhtOlder`, `KeyFifo`)

`entries` are the primary slots `0..N-1` followed by the collision slots
`N..2N-1`, which is how they lie in the segment; `buckets` and `entrycount` are
as in the code, `clock` is `gettimeofday`'s seconds and `ret` what the last
call returned.  A value stands for bytes of a length and is identified by it.
Every call is one step because it runs under the lock.  Nothing is erased when
something is removed: an unused entry keeps its key, link and position here as
there, and the operators that walk chains and look for free places read the
same marks in the same order as the code (`Walk`, `Found`, `Previous`,
`LastOf`, `Lowest`).  `Index` stands for the hash of the key, any function.

`RemoveOlder` is one step too: the scan over both arrays keeps candidates as
(second, place), and the removal of each goes through `RemoveFrom` with the key
found in that place at that moment, so that the places gone stale are there.
`Scan` and `Removals` are the states of its loops, turn by turn.
An unset candidate has index -1 in the collision area, which is the last
primary slot.  The clock is taken to never go back.

### Calls killed half-way (`ShmhtCrash`)

A process killed inside a call leaves the stores it has made, and the kernel
undoes its semaphores: the next call finds the lock free and the table half
changed.  The module lists the stores of insert, remove and flush in the order
of the code (`InsertStores`, `RemoveStores`, `FlushStores`); a call is all of
them in one step, or the first n when it dies.  No step between is needed,
since nobody looks at the table in the meantime.  That the stores of a whole
call add up to the step of `ShmhtTable` is itself checked
and proved (`StoresMakeTheCall`).  A key is stored as bytes, size and hash: between them
the entry matches no key.  `entrycount` is unsigned and wraps at `Word`.

What later calls can rely on after one killed insert or remove: searches and
inserts still come to an end, at most one entry is lost to the counter, and an
insert that collides and that the counter lets in finds a free collision entry,
also after killed flushes (`KillCostsOneEntry`).  Nothing is promised
about values: a bucket may be written by one entry and read through another.
After two killed calls not even that holds.  Two killed inserts can leave an
entry linked to itself, two killed removes let the counter admit an insert
without room, which then uses index -1; the run therefore kills one insert or
remove between two flushes.  A killed flush leaves the counter as it was, so
the table may refuse inserts until it is flushed again.

### Creation, destruction, the demo (`TableExchange`)

`shm` and `sem` are what the key leads to, `mem` the contents of every segment
ever made, `seg` and `set` the handles of each process.  The steps of
`create_shmht` are its kernel calls and the stores that others go by: `Shmget`,
`ShmCreate`, `Bzero`, `Semget`, `SemCreate`, `SetVal`, `Store` (the semaphore's id,
with which the others lock), `StoreShmid` and `Reset` (`entrycount = 0`, which the
creator of the segment does last).  `shmht_destroy` is `RmSem`, which needs the
table's lock, and `RmShm`.  A program may be killed between any two steps (`Kill`);
the segment and the semaphores stay as they are.  Kills inside an operation of
the table are the subject of `ShmhtCrash`, and kills inside the lock that of
`ShmhtSem`: an operation is one step here.  `broken` remembers that a program was
killed with the table half made or half gone: nothing in the code ever completes
such a table.

Operations act on a queue per key, which the lock (section 5) and the table's
refinement (run `table`) stand for, except that buckets and the counter are
real: `shmht_search` returns a pointer to a bucket, and the programs read through
it after the lock is released, and `entrycount`, by which `shmht_insert` refuses,
is a word of its own that wraps at `Word`.  `served` is a history variable, the
programs started since the last destruction.  The three programs are started by
hand.  With `AnyOrder = FALSE` that is only in the orders their use intends
(`Intended`): nobody else is running, or the table is there and its creator
through with `create_shmht` (`Made`); one writer and one reader use it; and it
is destroyed when they are done, before the next ones start.  With `TRUE` it is
in any order, at any time.

### One-way benchmark (`SimpleMp`)

`program` is one of the four one-way programs.  They differ in what a message
takes from the pool (an element per node, unchecked, or one element with the
get checked), in the pool's size, and in whether they keep in step through the
files or send one message of a size that the user enters (`User`, `Entered`; a
negative one as the unsigned number that `buildTree` makes of it).

`flagRing` and `flagCSV` are the contents of the two files, `""` between
`fopen("w")` and `fclose`, which is when a reader finds `EOF`.  `ppc` is the
primary's loop, `sec` the secondary's main and `rpc` the loop of each receiving
core.  `sizeS` is the secondary's `treeSize`, which all its cores share, so
`treeSize += increment` is a read and a write.  `Kill` ends both programs and
starts them again with the files as they are; `begun` is a history variable
that remembers where the run's rows begin and whether it began with a signal
left behind.

### Round trip (`SharedMem`)

`free` counts the elements in the pool's ring and `cache` those in each core's
cache.  Elements are not told apart: what can go wrong is how many there are
and where.  `Take` and `Give` are the results of n single gets and puts through
a cache that is refilled and flushed in batches, in closed form.  Client and
server run on different cores, as their command lines require.  Mode "once" is
`roundTripArray.c`: one array of a size that the user enters, received on a core
of its own, and freed in another order.  Mode "other" is any argument but the
two that `main.c` knows: the client sends null pointers, which the server frees
as it does trees.

`RoundTrip` is what this benchmark and the next promise.  It has one message
under way at most, numbered by its round, and its answer, and the client's
next print is of that answer.  In `SharedMem` request and reply are what the
two rings hold, and nothing is ever out of step.

### Socket round trip (`Sockets`, `TreeCodec`)

A byte is represented by the round of the message it belongs to, which is all
that framing can confuse.  `Send` and `Read` pass on any number of the bytes
they could; the client's `Receive` takes whatever has arrived of the reply, all of it
or a part (`split` is a history variable that remembers a part).  `KillClient`
and `KillServer` end a side anywhere; the kernel then closes its socket, and
the other side's next call returns 0 or fails.  A server whose client never
connected stays in `accept`.  Both are started in the same
mode.  Mode "echo" is the demo of `shmht_vs_socket`, with one message as large as
the server's array, one read for it (`EchoRead`) and errors that are ignored.

The mapping to `RoundTrip` takes a message as asked when the last of its bytes
is in the stream (in the echo demo, the first), as answered when the time is,
and as shown when the first byte of the client's `after` is that of its round.
`inStep` becomes false for good when a side dies or fails, or a time comes in
pieces: from then on nothing is promised.

`TreeCodec` computes the trees and strings themselves, each by a recursive
function (over sizes, over the trees built, over the places of the string), and
`MCSockets` compares the lengths.

## 3. Runs

| Run | Configuration | Question and result |
|---|---|---|
| `lock` | `ShmhtSem` | Do the two semaphores exclude and count exactly, through signals, kills and destruction, do they implement `RWLock`, and who can starve?  They do; writers do not starve, readers only while writers keep announcing. |
| `lock_destroy` | `ShmhtSem_destroy` | Does everybody fail after `shmht_destroy`?  No: see section 4. |
| `table` | `ShmhtOlder` | Is the layout sound after every sequence of calls, bulk removal included, and is it a FIFO queue per key?  Yes. |
| `crash` | `ShmhtCrash` | What can later calls rely on after a call was killed half-way?  They end, and an insert finds room; a whole flush repairs the rest. |
| `older_oldest` | `ShmhtOlder_oldest` | Does bulk removal erase the oldest?  No. |
| `mp` | `SimpleMp` | Do the flag files keep two receiving cores and the primary in step, through a killed run, in all four one-way programs, and when does the pool suffice?  Yes if the killed run left no signal behind; if it covers the caches. |
| `mp_counter` | `SimpleMp_counter` | Do two receiving cores always quit?  No. |
| `shm` | `SharedMem` | Do the rings implement `RoundTrip`, is an element ever lost, and when does the pool suffice?  They do, none is, and if it covers one cache besides the message. |
| `shm_panic` | `SharedMem_panic` | Does the pool always suffice?  No. |
| `sockets` | `Sockets` | Is counting bytes enough to implement `RoundTrip`, however they are cut up and whoever dies?  Yes while times arrive whole. |
| `exchange` | `TableExchange` | Do message and answer arrive in the intended orders of the programs, does the counter stay right, and does a destruction leave nothing?  Yes, the last unless a program was killed with the table half made or half gone. |
| `exchange_create` | `TableExchange_create` | Does a program that comes to the table leave what others have stored?  Not when both come at once. |

Bounds, and why they are enough:

* `lock*`: five processes, two of which may destroy, let a reader, two writers
  and two destroyers meet at every point, with kills and signals everywhere; no
  symmetry, since the run has temporal properties.  The theorems lift the bound
  for the safety part.
* `table`: three slots, two keys that collide at index 0 and one at the last
  index, which is what an index of -1 reads.  A chain of three entries has a
  head, a middle and an end, so every case of the removal and of the linking
  occurs, a full table as well.  Values 1 and 2 are stored and 3 is too large.
  Two seconds and the percentages 34 and 100 give one candidate and as many as
  there are slots, unset ones among them.  No key is too long (`TooLong`), which
  would return like a value that is too large.  `VIEW Live` identifies states
  that differ in unused entries only: their contents are never read beyond the
  used mark, but for the key of the last primary slot, which is in the view.
  What the last call returned is not, except whether it was a bulk removal.
  Properties are evaluated on every step, also to a state seen before.
* `crash`: two slots, the same keys, one value and no ticks.  A chain of two and
  a neighbour at the index that -1 leads to are the shapes in which a dropped
  store shows; the view keeps what unused entries hold where a kill can bring
  it back.  One insert or remove is killed between two whole flushes, flushes
  any number of times.  A counter of three bits wraps.
* `older_oldest`: three seconds, so that an old, a newer and a new entry exist.
* `mp`: two receiving cores, three messages, a ring of one, one kill at any
  point, and a pool with exactly the two elements that two caches of one can
  park beyond the largest tree; pools of two for the other programs, so that
  the caches can empty them.  The user enters no number, a size that fits, one
  that does not, and -1, the largest of the unsigned sizes (`Word`).
  `mp_counter` needs four trees for an increment to be lost and no kill.
* `shm*`: caches of two, flushed at three, are the smallest in which gets and
  puts of a batch differ; sixteen trees of one to sixteen nodes go through all
  the remainders of the cache arithmetic, and the pool is as large as the last.
* `sockets`: four rounds let a byte be early, on time and late, with trees of
  two to eight nodes.  Two bytes of time can be split, and a buffer of seven
  makes every long message, and the echo demo's of seventeen, block the sender.
  `Limit` is exactly the longest message, as in the code.
* `exchange`: two writers, two readers and a destroyer, so there are leftovers
  and a second round on a new table, and two kills, of which the second meets
  what the first left; eight buckets are more than can be in use, and a word of
  four bits wraps when it passes 0.  `exchange_create` needs one writer and one
  reader.

`CHECK_DEADLOCK FALSE` is set where programs end.  The lock and table runs
check deadlock.

Fairness.  In `ShmhtSem` a process that is inside or withdrawing takes its next
step, since no code between lock and unlock waits; a reader that can go on is
woken (weak), and a sleeping writer is served when it can go on again and again
(strong), because the kernel serves the sleepers of a set in queue order.
Nobody has to start a call, be interrupted or die.  In the other modules each
thread or process is weakly fair as a whole: it polls, or blocks in a call that
another's step ends, and is scheduled.  Starting a program, what the user
enters, kills and the clock are never fair.

Assumptions in properties.  Those of `SimpleMp` speak of runs that do not begin
with a signal left by a killed one (`begun.clean`): the code does not reset the
files, and such a run goes wrong at once.  `OwnBytes`, `MessageDecodes` and
`RefinesRoundTrip` of `Sockets` speak of connections on which no time arrived
in pieces (`split`): the client reads it with one `recv` whose result it
ignores.  In the model that is possible, as it is in TCP, and sixteen bytes are
seldom cut.  `Delivered`, `OneTable`, `DestroyLeavesNothing`, `CountedInOrder`
and `BothEnd` speak of the intended orders, and where a table that was left half
made or half gone would matter, of runs without one (`broken`).
These assume away the races of programs started at the same moment, which the
code does nothing about; what they do to the table is what `exchange_create`
shows.  They also leave out a second
exchange on a table that was not destroyed: its reader finds the answer of the
first in front of the message.

`RowsPaired` looks at the rows since a run began.  A clean run that is killed
between `fclose(fpOut)` and the signal (`main.c:283-292`) leaves a start without
its end, to which the next run's first row is appended; `ThisRun` cuts that off.

## 4. Findings

Where the code does not do what its own comments, documentation or checks say,
a run shows the shortest way there:

* `lock_destroy`.  `shmht.h:132` says that after `shmht_destroy` all processes
  using the table will fail.  A writer whose second `semop` was interrupted, by
  a signal as in the trace or with `EIDRM` by the removal itself, goes to
  `write_end_proc`, whose own `semop` fails on the removed set, and that makes it
  return 0: success, without a lock, in a table that is being removed.
* `older_oldest`.  `shmht.h:25` says the erased elements are the oldest.
  `insert_older_if_necessary` overwrites the first newer candidate instead of
  shifting it, so one of the old ones is forgotten and a newer entry goes.  What does
  hold is `AnOldestErased`: one of the oldest entries always goes, and
  `ImplementsKeyFifo`: each key loses its values oldest first.
* `mp_counter`.  `main.c:193` says the program quits once all trees have been
  created.  The receiving cores share `treeSize` without a lock and signal the next
  tree before they have added to it; a lost increment makes them poll for ever.
  The documented start (`main.c:328`) has one receiving core and is not affected.
* `shm_panic`.  The pool of tree mode is exactly as large as the last tree,
  while the server's core keeps a part of it in its cache.  The client gets
  `rte_panic`, unless the pool covers the caches (`PanicsOnlyWhenTight`).  To get
  there it has to survive `deleteTree(NULL)` in round 1, which reads through the
  null pointer (`shared_mem/node.h:71`): the trace takes it to return.
* `exchange_create`.  `shmht.h:19` says the lock leaves no concurrency problem,
  and `shmht.h:42` that `create_shmht` takes the existing table.  It takes no lock.
  `shmget` is called without `IPC_EXCL`, so two processes that both found none take
  themselves for the creator and the second clears the segment.  And a lone creator
  stores the ids, by which others use the table, before it sets `entrycount` to 0:
  entries inserted in between are uncounted, the counter wraps when they are
  removed, inserts are refused from then on (`shmht.c:276`), and the demo programs
  poll for ever.  Both take fifteen steps; a trace shows one of them.

One more is visible in `RemoveOlder` and has no run: `shmht.h:124` says the
number of deleted entries is returned, and the code counts candidates, deleted
or not (`older_storage[i].index != LONG_MAX` is always true).

## 5. Proofs

`ShmhtSemProofs`, for any finite set of processes, of which any may destroy:

* `TypeCorrect`, `WriterAlone` (`ExclusiveWriter`), `SemaphoresAreExact`
  (`SemaphoresCountHolders`), `UndoIsExact` (`UndoMatchesHolding`),
  `WriterPreference` (`ReadersOnlyDrain`) and `SemaphoresImplementLock`
  (`RefinesRWLock`).
* Exclusion alone is not inductive: that a semaphore is 0 says something about
  who is inside only if it counts them, and it keeps counting them through a
  crash only if the undo adjustments are what the process holds.  `IInv` is the
  conjunction.  Lemmas say what one `SemOp` does, who is inside after each
  action, and how the cardinalities follow; the step lemma has a case per
  action.  In the refinement every step on a set that is gone maps to `Drain`.

`ShmhtTableProofs`, for any table length, keys, values and hash function:

* `TypeCorrect`, `NoBucketLeakedOrShared` (`BucketsOwned`), `CountIsExact`
  (`CountExact`), `InsertFindsRoom` (`RoomForInsert`), `EntriesKnowTheirPlace`
  (`PositionsRight`) and `ChainsHoldAllEntries` (`ChainsPartitionEntries`), of
  `Spec`, that is, without bulk removal.  `TableImplementsQueues`
  (`ImplementsKeyFifo`) comes last.
* `TInv` adds `LinksOwned`: the link of a used entry leads to a used entry, and
  no two to the same.  Without it, removing the head of a chain might copy an
  unused entry, with its old bucket, over it, or unlink an entry another still
  leads to.  The work is in two lemmas: `FreeStep` (unlinking in all its three
  forms frees exactly one entry and its bucket) and `GrowStep` (linking uses
  exactly one more).  `ChainEnds` shows that a chain ends within N steps, by
  counting, so that an insert finds its end.  `InsertFindsRoom` matters
  because the two asserts of `shmht_insert` are always true as written.
* That the chains partition the entries speaks of walks of any length, `TInv`
  of single links.  `CInv` is what bridges them, link by link: an entry in a
  primary slot has that slot's index, a link joins entries of one index, every
  used collision entry is led to, and a rank rises along links (`Acyclic`).
  From these, by least counterexamples, a walk stays on its index, meets no entry
  twice, and meets every entry of the index.
* The queue of a key is what the chain of its index holds under that key, in
  order (`Chain`, `Under`, `Queues`).  The proof has two halves.  One is about the
  segment: an insert, wherever it finds room, puts one place behind all of one
  chain (`GrowLists`), and a removal takes the first place of its key out of it
  (`FreeLists`), whether it unlinks that entry, marks it unused or copies the
  next one over it; no other chain changes.  It rests on `TInv` and `CInv`.  The
  other is about any lists of keys and values: what adding or dropping such a place does
  to the queue of each key (`QueueGrows`, `QueueDrops`, `QueueHead`).
* `QInv` adds to `TInv` and `CInv` what the returned values need: the length kept
  in an entry is that of its bucket (`Sized`, else a search would return an old
  length after an entry was copied), and `entrycount` is the total length of the
  queues (`Counted`, so the table refuses exactly when the queues are full).
* `Walk` and `Under` are recursive functions.  That they have the values their
  recursion says is proved by induction written as a least counterexample in a
  set of numbers (`LeastExists`, `Upwards`).

`ShmhtOlderProofs`, for any table length, keys, values, hash function and
percentages from 0 to 100, of `OlderSpec`, the specification of run `table`:

* `OlderTypeCorrect` (`TypeOK`), `OlderNoBucketLeaked` (`BucketsOwned`),
  `OlderCountIsExact` (`CountExact`), `OlderInsertFindsRoom` (`RoomForInsert`),
  `OlderChainsHoldAllEntries` (`ChainsPartitionEntries`),
  `OlderEntriesKnowTheirPlace` (`PositionsRight`), `OlderImplementsQueues`
  (`ImplementsKeyFifo`) and `OlderErasesAnOldest` (`AnOldestErased`).
* A bulk removal passes through many tables within one step.  The lemmas of
  `ShmhtTableProofs` about a removal are therefore stated of any arrays (`TIn`,
  `CIn`, `QIn`, `OneRemoved`), of which the invariants of the state are a case.
  `RemovalsSound` goes along the removals: each finds nothing under the key in
  its place, or takes the head of one queue.
* `OInv` adds to `QInv` that no used entry is later than the clock (`InTime`)
  and that seconds rise along every link (`OrderIn`), which holds because inserts
  link at the end, and removals copy entries only towards the head (`OrderKept`).
* `AnOldestErased` has two parts.  The scan: of each used entry passed, some
  candidate is at least as old (`Covers`), since an entry replaces only a later one;
  so in the end some candidate is the place of an oldest entry (`OldestIsCandidate`).  The
  removals: until one of that second is erased, the place keeps its key, and some
  used entry has that key and second (`Named`).  The entry itself may be copied
  elsewhere, but its place is then unused, and an unused entry keeps its key.
  When the candidate's turn comes, the first entry of the key on its chain is as
  old (`FoundIsOldest`), and that one goes.

`ShmhtCrashProofs`, for any table length, keys, values and hash function, and any
counter width of more than twice the length, with one insert or remove killed
between two whole flushes, and flushes killed any number of times:

* `StoresAddUp` (`StoresMakeTheCall`), `FlushRepairs` (`SoundUnlessKilled`),
  `NoCallLoops` (`ChainsEnd`) and `OneEntryUncounted` (`KillCostsOneEntry`).
* The first half says what the segment is after each store of a call
  (`InsertOutcome`, `RemoveStages`, `FlushStages`).  A list of stores of fixed
  shape is walked stage by stage (`AfterStages`); a flush, whose length is that
  of the table, by what it has cleared so far (`FlushedTo`).  The whole list is
  the step of `ShmhtTable` (`WholeInsert`, `WholeRemove`, `WholeFlush`), and each
  prefix leaves the entries in one of few forms: with one used entry more, one
  less or the same, a link shortened or not, an entry partly copied.
* The second half is the invariant `KInv`.  While no call was killed it includes
  `TInv` and `CInv`.  Otherwise two things are left.  `Shape` is about links,
  those in unused entries included, because an insert goes along them: a rank
  rises along every link, except that a zeroed collision entry 0 leads to
  itself (`next` is 0 in a segment of zeros), and while it does, whatever leads to
  it is led to by nothing and not in use together with it.  A call keeps this since it
  links only to an entry that leads nowhere (`ShapeLink`) and takes an entry out
  by a shortcut (`ShapeShort`).  A walk then passes distinct collision entries
  and ends by the pigeonhole principle (`WalkOut`).  `Gap` is about the counter:
  it is that of some number, possibly -1 and wrapped, with at most one used
  entry more.  So if all N collision entries and a head are in use, the counter
  is at least N (`CollisionLeft`).
* A whole flush needs nothing but the types of the segment to establish `TInv`
  and `CInv` again.

`SharedMemProofs`, for any number of rounds, sizes, pools and caches:

* `NoElementLost` (`PoolWhole`), `PoolNeedsOneCacheMore`
  (`PanicsOnlyWhenTight`) and `RingsImplementRoundTrip` (`RefinesRoundTrip`).
* `IInv` follows one message through its round.  `Phases` says where client and
  server are when it rests, is sent, served, answered or ended; `Conserved` says
  that free, cached and held elements add up to the pool, which needs what
  `Take` and `Give` conserve through a refill or a flush of the cache (lemmas of
  their own, with the arithmetic).  That the pool suffices but for one cache
  follows, because at a copy nothing is held and only the server's core has a
  cache the client cannot use.

`SocketsProofs`, for any number of rounds, message lengths and buffers, however
bytes are cut up and whoever is killed:

* `ServerCountsOwnBytes` (`OwnBytes`), `StreamsImplementRoundTrip`
  (`RefinesRoundTrip`) and `CountedBytesDecode` (`MessageDecodes`).
* That the bytes counted are of the round's message is not inductive: it needs
  that the stream holds no others, hence that the client does not begin a round
  before the server has counted the last one in full.  `InRound` says so while
  both run: bytes read and bytes under way together are at most what the client
  has sent, and an answer is under way only when both are none.  It holds for a
  dead client as well, whose bytes the server still reads.  `AtEnd` is what is
  left of it once the server has answered the last message, and `LastRead`,
  that the client's time is that of the round before, is for the refinement.

* `BuffersSuffice` (`TypeOK`) also speaks of sides that have lost step, where
  `InRound` says nothing.  `Bounds` is what holds regardless: each stream holds
  no more than was sent and not yet read, counted separately in each direction.
* `CountedBytesDecode` rests on what the three functions of `TreeCodec` compute,
  for every size: that the recursion of each has a solution is shown by extending
  one for smaller arguments (`BuildPrefixes`, `StringPrefixes`, `ReadSuffixes`: the
  reader only goes forward); a tree of n nodes becomes 2n + 1
  characters (`StringsTyped`); and where such a string stands in a list, the reader
  passes over just it and counts n (`TreeDecodes`).

`TableExchangeProofs`, for any set of programs, any buckets and kills between any two steps:

* `ProgramsUseOneTable` (`OneTable`), `DestroyedTablesLeaveNothing`
  (`DestroyLeavesNothing`), `EntriesAreCounted` (`CountedInOrder`) and
  `MessagesAreDelivered` (`Delivered`).
* `create_shmht` looks, creates and fills in separate kernel calls with nothing
  to exclude a second creator.  In the intended orders it is safe because whoever
  finds no complete table is the only program running, and remains so until it is
  through with `create_shmht` (`Alone`); `Handles` says what the handles of a program at each
  point of its calls lead to, and `Settled` that a table which is neither whole nor
  absent is in somebody's hands or was left by a kill (`broken`).
* The counter is that of the entries because `Reset` is the step of a creator that
  is alone, on a table it has cleared; and it never wraps, nor passes the number
  of buckets, since each entry has one (`Tally`).
* The messages: the exchange of a whole table is at one of seven stages, by what the two
  queues hold (`Stage`); each of a writer's and a reader's points is possible in
  some of them (`WriterAt`, `ReaderAt`).  That covers the pointer a program got from
  `shmht_search` and reads after the lock is released: by the time the
  bucket can be reused, it holds a value that sends its reader round again.
  On a table whose lock is gone no operation does anything (`Useless`).

`SimpleMpProofs`, for any number of receiving cores, trees, killed runs, sizes,
pools and caches, in all four programs:

* `RowsArePaired` (`RowsPaired`), `TreesAreBuiltAlone` (`TreeBuiltAlone`),
  `FailuresAreTight` (`FailsOnlyWhenTight`) and `RunsLeaveFlagsReady`
  (`ReadyForNextRun`).
* In a run that did not begin with a leftover signal at most one message is out:
  it is in the ring, or one core holds it, until that core signals for the next
  (`OneOut`).  `Turns`, `Flags` and `Ends` say where the primary is meanwhile and
  what the two files hold; `Counted` relates the primary's size to the `treeSize`
  that the cores share, which may lag when they race, so that a core never
  quits too early; `Rows` follows from who has the turn.
  `Elements` adds the caches of all cores to the pool; sums over a set
  are defined by a fold, and the lemmas at the head of the module derive from it
  what taking one core out of a sum does.

The assumptions are the named ones of the modules: the processes are a finite
set and `Destroyers` is part of it, `TableAssumption`, `WordAssumption`,
`PercentsAssumption`, `SharedMemAssumption`, `SocketsAssumption`, `ExchangeAssumption`
and `MpAssumption`.  The last has
`Increment <= Final` (`simple_mp/main.c:54`: 1000 and 1000000).

Every invariant, action property and refinement of the passing runs is proved.
Only model-checked: everything temporal under fairness (`WriterProgress`,
`ReaderProgress` and the like).  Liveness and `ENABLED` are out of reach of the
proof system.

## 6. Not modelled

* Bulk removal killed half-way.  It is a sequence of removals through the same
  code, so what one kill leaves behind is a prefix of whole removals and one
  that is cut, which is the case of `ShmhtCrash`.
* Bulk removal with a negative percentage, which the code does not refuse (the
  number of candidates becomes huge, and the array of them does not fit the
  stack), and the wrap of `tablelength * p` beyond 42 million entries, after
  which it keeps fewer candidates.
* Values after a kill inside insert or remove: the table makes no promise.
* The values of the semaphores while `create_shmht` makes them: `ShmhtSem` begins
  with a set that is made.  Of two processes that both found none the second sets
  to 0 (`shmht.c:122-130`) what the first may have locked.  In `TableExchange` the
  step `SetVal` is there, but operations being one step, no unit is out then.
* The hash function: only which keys share an index matters, and `Index` is any
  function.  Sizes and prime lengths of `create_shmht`: arithmetic before the
  first call, on which nothing else depends.
* The heap.  `deleteTree`, whose test is inverted, is a possible crash in the
  first round (`Build`), but the memory it leaks afterwards, and the tree that
  `deserialize` allocates and drops for each message (`sockets/server.c:76`),
  are not counted.  `inorder` is not called.
* `mp_commands.c` (never reached by `main.c`), timers, measurements and build
  files: no state.
* The primary of the one-way programs runs `lcore_recv` on its other cores too,
  on a ring nobody sends to.

## 7. Plan

Every safety property that a run checks has a theorem.  What is left is to take
bulk removal apart into its stores, as `ShmhtCrash` does with the other calls,
and to prove the liveness properties should the proof system come to support it.
