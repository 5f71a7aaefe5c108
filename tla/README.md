# OneFile in TLA+

OneFile (`stms/`, `ptms/`) is a family of word-based transactional memories. The
lock-free and wait-free ones have one idea in common: a transaction runs over a
redo log of its stores, becomes *the* last transaction by one compare-and-swap on
a global `curTx`, and its log is then applied, with a double-word
compare-and-swap per word, by its owner and by every thread that wants to go on.
No unit test drives the interleavings that make this hard: a helper that copies
a log its owner is rewriting, sleeps through three transactions and wakes up in
the middle of its stores; a reader of a node that is being freed. This directory
models them, checks the models with TLC and proves the safety of the engine, and of its
memory reclamation, of the persistent engine whose processes may die, of CRWWP-STM, and of
RomulusLog and RomulusLR with their power failures, for any number of threads with TLAPS.

It covers the lock-free STM all others descend from (`stms/OneFileLF.hpp`) with its memory
reclamation and its write-set, the wait-free STM, the lock-free persistent one with
process deaths and power failures, RomulusLog and RomulusLR, and CRWWP-STM with the thread registry they
all use. The last section says what is not modelled and why.

## 1. The system

### Components

| Component | State | Operations | What must hold | Modelled |
|---|---|---|---|---|
| OneFileLF engine, `stms/OneFileLF.hpp` | `curTx`; per thread `request`, `WriteSet`, `OpData`; `val`/`seq` of every `tmtype` | `transaction` (`updateTx`, `readTx`), `beginTx`, `commitTx`, `helpApply`, `pload`, `pstore` | transactions are atomic, attempts read one snapshot, stores are applied exactly once, lock-freedom | `OneFileLF`, `AtomicSTM` |
| OneFileLF reclamation, same file | `alog`, `rlog`, `newEra_`, `delEra_`, `he`, `retiredList` | `tmNew`, `tmDelete`, `tmMalloc`, `tmFree`, `deleteAllocsFromLog`, `retireRetiresFromLog`, `HazardErasOF::clean` | nothing is freed under a reader or a helper, nothing twice | `OneFileLFMem` |
| `WriteSet` | `log`, `numStores`, `buckets` | `addOrReplace`, `lookupAddr`, `operator=`, `apply` | one entry per word, lookups see the last store | `RedoLog`, `WriteSetHash` |
| `ThreadRegistry` | `usedTID`, `maxTid` | `register_thread_new`, `deregister_thread` | a tid has one thread at a time; scans up to `maxTid` miss nobody | `ThreadRegistry` |
| OneFileWF, `stms/OneFileWF.hpp` | as LF, and announced `TransFunc`s, results in words | `innerUpdateTx`, `readTransaction`, `transformAll`, `retireMyFunc` | each function takes effect exactly once and within four rounds; no function is freed while it is run | `OneFileWF`, `WaitFreeObject` |
| OneFilePTM-LF and its multi-process variant, `ptms/` | as LF in a mapped file, write-backs, fences, a persistent log per thread | `transaction`, `helpApply`, `persistAndFlushLog`, `mapPersistentRegion` | a closed transaction is persistent, an open one can be completed after a failure | `OneFilePTMLF`, `PersistentMemory`, partly |
| RomulusLog, `ptms/romuluslog` | two replicas, state IDLE/MUTATING/COPYING, log, announced functions | `ns_write_transaction`, `ns_read_transaction`, `recover` | after a failure both replicas have the same whole transactions, and all that anybody has seen (see findings) | `RomulusLog`, partly |
| RomulusLR, `ptms/romuluslr` | as RomulusLog, and `leftRight`, `versionIndex`, two read indicators, `g_right`, the side of each thread | `ns_write_transaction`, `toggleVersionAndWait`, `ns_read_transaction`, `recover` | as RomulusLog; a reader never waits, and sees what it or others have seen before | `RomulusLR`, partly |
| C-RW-WP locks, `ptms/rwlocks` | lock word, read indicator | `tryExclusiveLock`, `waitForReaders`, `sharedLock` | readers and writers exclude each other; neither waits for ever | in `RomulusLog`, partly |
| CRWWP-STM, `stms/CRWWPSTM.hpp` | lock word, read indicator, announced functions, results | `ns_updateTx`, `ns_readTx` | exclusion; a function takes effect once and its result reaches its caller | `CRWWPSTM`, `WaitFreeObject` |
| OneFilePTM-WF, `ptms/` | as OneFileWF and OneFilePTM-LF | | as theirs | no |
| `EsLoco`, in the PTMs | free lists by power of two, bump pointer | `malloc`, `free` | blocks do not overlap; memory is reused | no |
| Hazard pointers and eras, `common/` | published pointers or eras, retired lists | `protect`, `retire` | a protected object is not freed | no |
| Baseline queues, lists, trees, `datastructures/` | nodes | `enqueue`, `dequeue`, ... | linearizability | no |
| Transactional structures, `datastructures/` (`OFLF*`, `OFWF*`, `TinySTM*`, ...), `pdatastructures/` | `tmtype` fields | sequential code in transactions | follows from the engine | no |
| Vendored code (`tinystm`, `estm-0.3.0`, `trevor_brown_*`, `malloc.cpp`, `atlas`), thin wrappers, `graphs/` (benchmarks) | | | | no: not this project's logic |

### How they interact

A program calls `updateTx(lambda)`. `transaction()` loops: `beginTx` reads `curTx`,
helps that transaction if its `request` is open, publishes the hazard era
`curTx.seq` and starts over if `curTx` has moved; the lambda runs with `pload`
checking that no word it reads is newer than the attempt, throwing `AbortedTx`
otherwise, and `pstore` appending to the thread's `WriteSet`; `commitTx` opens the
request, moves `curTx` by compare-and-swap, applies the log and closes the
request through the same `helpApply`, and hands deleted objects to
`HazardErasOF`. All communication is through shared words; there are no locks
and no messages. The allocator is called from inside transactions, its logs are
rolled back by the *next* `beginTx`, and the eras it relies on are published by
`beginTx` and `helpApply`: hence two modules over the same actions. A thread's first
`ThreadRegistry::getTID()` registers it; its write-set, its `OpData` and its era are the
ones of its tid, and go to the next thread that gets the tid.

In OneFileWF the lambda is announced, in `operations[tid]`, and every transaction runs
all announced functions that have no result yet; the results are among its stores. The
persistent engine keeps `curTx`, the words, and a copy of each thread's log and
request in a file, and writes back what the next step relies on before the
compare-and-swap that makes it visible. RomulusLog and CRWWP-STM have a lock instead:
updates are announced in `fc[tid]`, whoever gets the writers' lock runs them all, and
the others find their slot empty. In RomulusLR readers do not meet the lock: the writer sends them to
the replica it is not working on, and waits for those that are late.

### What is hard

`PROJECT.json` lists each hazard at its line. In short, for the engine: a log copied while its owner
rewrites it (`helpApply`:616); checks separated from the compare-and-swaps they
justify by any amount of time (619-624, `apply`:366-368); value and sequence read
in two loads (`pload`:743-745); attempts that are doomed but still run user code;
`request` opened before `curTx` moves and closed by several threads at once
(469-473, 625-632); threads that go through the log from different positions (364);
eras published after the sequence they announce was read (446-455); inclusive
bounds on eras (244-248); logs that survive an aborted attempt or an early return
(444-445, 463); and a thread that stops for ever in the middle of its commit. For the others: a function
announced by two plain stores and read without a lock, run by whoever finds it while its
thread may have returned (OneFileWF:600, 843); a loop that gives up after four rounds (604);
power failures between a store and its write-back, a write-back and its fence, and in the
midst of recovery; a process that dies in its commit; a log that stops logging
(RomulusLog:219), and a replica that is only partly written back (453); a reader of RomulusLR that sleeps before it arrives, at an indicator nobody
looks at any more (676-680); readers and writers that each look for the other (CRWWPSTM:413, 325);
a reader that runs the function it has announced, and an early return with the lock
taken (430, 328).

## 2. The modules

| Module | Models | |
|---|---|---|
| `RedoLog` | `struct WriteSet` by what it means | operators on sequences of `[addr, val]` with distinct addresses |
| `OneFileLF` | the engine | one action per access to memory another thread can see |
| `AtomicSTM` | what a program may rely on | transactions in one step on a snapshot |
| `OneFileLFRefinement` | `OneFileLF` implements `AtomicSTM` | refinement mapping |
| `OneFileLFInv` | | the inductive invariant |
| `OneFileLFMem` | allocation, retirement, hazard eras | the actions of `OneFileLF` conjoined with what they do to objects |
| `OneFileLFMemInv` | | the inductive invariant of reclamation |
| `WriteSetHash` | `struct WriteSet` as it is: array, buckets, chains | one action per entry a search looks at |
| `ThreadRegistry` | `ThreadRegistry`, `ThreadCheckInCheckOut` | one action per shared access |
| `OneFileWF` | the wait-free engine with the reclamation of functions | one action per shared access, store buffers for `operations[]` |
| `WaitFreeObject` | what OneFileWF and CRWWP-STM promise a caller | calls that take effect in one step, several of them together |
| `PersistentMemory` | `PWB`, `PFENCE`, `PSYNC` of `common/pfences.h` | operators on memories that keep what a failure could leave |
| `OneFilePTMLF` | the persistent engine, one process or several | as `OneFileLF`, on `PersistentMemory`; `Die` and `Crash` |
| `OneFilePTMLFInv` | | the inductive invariant of the persistent engine |
| `RomulusLog` | RomulusLog and its lock | one action per shared access or fence; `PowerFailure`, `recover` |
| `RomulusLogInv` | | the inductive invariant of RomulusLog |
| `RomulusLR` | RomulusLR: the actions of `RomulusLog`, with left-right for its readers | one action per shared access; `PowerFailure`, `recover` |
| `RomulusLRInv` | | the inductive invariant of RomulusLR, on top of that of RomulusLog |
| `CRWWPSTM` | CRWWP-STM, composed with `ThreadRegistry` | one action per shared access; the inductive invariant |
| `CRWWPSTMRefinement` | `CRWWPSTM` implements `WaitFreeObject` | refinement mapping |
| `OneFileLFProofs` (with lemmas on `RedoLog`), `OneFileLFRefinementProofs`, `OneFileLFMemProofs`, `OneFilePTMLFProofs`, `WriteSetHashProofs`, `CRWWPSTMProofs` (with those of `ThreadRegistry`), `RomulusLogProofs`, `RomulusLRProofs` | | proofs |
| `MCOneFileLF`, `MCOneFileLFMem`, `MCWriteSetHash`, `MCOneFileWF`, `MCOneFilePTMLF`, `MCRomulusLog`, `MCRomulusLR`, `MCCRWWPSTM` | | instances for TLC |

### Correspondence of `OneFileLF`

Each thread has a `pc`. A label names the next shared access, so that every access
of `beginTx`, `commitTx`, `helpApply`, `apply` and `pload` is a step of its own:

| Code | Steps |
|---|---|
| `transaction()`, prologue of `beginTx` | `Transaction`; `Restart`, part of each step that repeats an attempt |
| `beginTx` 446-455 | `BeginLoadCurTx`, (`helpApply`), `BeginReset`, `BeginSetEra`, `BeginRecheck` |
| `helpApply` 613-622 | `HelpCheckRequest`, `HelpCopyNum`, `HelpCopyEntry` (once per entry), `HelpSetEra`, `HelpCheckCurTx`, `HelpRecheckRequest` |
| `WriteSet::apply` | `ApplyLoadVal`, `ApplyLoadSeq`, `ApplyDcas`, once per entry |
| `helpApply` 625-632 | `HelpClose` |
| the lambda: `pload`, `pstore`, `tmDelete` | `LoadVal`, `LoadSeq` or `LoadAbort`, `LoadReturn`; `Store`; `Delete` |
| `commitTx` | `CommitReadOnly`, `CommitCheck` or `CommitCheckFails`, `CommitOpen`, `CommitCas` or `CommitCasFails`, (`helpApply`), `CommitRetire` |
| `he.clear` | `ClearEra` |

Variables have the source's names where it has them (`curTx`, `request`, `he`, `lval`,
`lseq`, `numRetires`); `myTx` is `OpData::curTx`, `log[t]` the first `numStores`
entries of `writeSets[t]`, `mem` the `val`/`seq` pairs. `cmem` and `snap` are history
variables: what the published transactions amount to, and what that was when an
attempt began. No guard reads them.

What is abstracted, and why it is enough:

* *Memory order.* Steps are sequentially consistent. Every shared variable but the
  log is a `std::atomic`; the accesses on which an order *between different* variables
  rests are a compare-and-swap (`curTx`, the words, the helper's close) or a
  sequentially consistent store (`he.set`), and all others are acquire loads and
  release stores, which x86 (the only target of the `DCAS` assembly) keeps in order,
  stores after loads excepted. The release stores of the owner into its own
  `request` (469, 627) and of `he.clear` may be seen late: the first is followed by the
  compare-and-swap on `curTx`, a full fence; after the others the owner's view and
  that of others differ only in that a finished transaction looks open, or an era
  looks protected, a little longer.
* *The torn copy.* `operator=` copies plain, non-atomic fields under the hands of their
  owner, which C++ calls a data race. An entry read while its owner may be writing
  (`MayBeWriting`) is, by choice, the entry or `Garbage`, an entry whose address is not
  a word; `numStores` and the entries are read one by one, in order. A step of
  `apply` on `Garbage` is not enabled, so a run that got there would deadlock, and
  deadlock is checked. That it never happens is also proved (`HelperCopyIsExact`).
* *The hash map* that speeds up lookups from 30 stores on is left to `WriteSetHash`, which is
  proved to do what `RedoLog` says.
* *The load before the compare-and-swap of `request`* (630) is merged with it: the load
  only saves a failing compare-and-swap.
* *The program* is any sequence of loads, stores and deletes, at most `MaxOps[t][i]` in each
  attempt of the i-th transaction of thread `t`, chosen step by step; it may commit at any point. Transactions nested in others add
  nothing to the shared state (486) and are left out, as are loads and stores outside of
  transactions, which the code allows only on unshared objects.
* *Dead variables* are cleared, so that states which differ only in values nobody will
  read are one.
* *Sequences* are naturals; 54 bits do not wrap around in any run of the program.

### Correspondence of `OneFileLFMem`

Words are roots and one pointer per object, so that an address is a word and a value is
an object or `Null`. `TmNew`, `TmDelete` and `MLoadReturn` extend the steps of the body;
`DeleteAllocs` is the roll-back that the prologue of `beginTx` makes, conjoined with
every step that begins an attempt; `CommitRetire` is refined into `RetireAll` and
`HazardErasOF::clean`, one hazard era per step (`CleanKeepsCurrent`, `CleanScan`,
`CleanFree`, `CleanDone`). `malloc` returns any address that is not allocated, so memory
is reused at once. The program goes along pointers it has loaded or allocated
(`known`), deletes only what its transaction has made unreachable and what it has not
deleted already, and never links what it has deleted again (`MStore`): what a program that is
correct when run alone does. `TmNew` writes the
new object outside of the transaction (the constructor), which `cmem` and `snap`
follow; nobody else has a pointer to it, and that nobody does is what the run checks.
`tmMalloc` and `tmFree` do the same with another address, and words that begin with
sequence 0 instead of 1, both below that of any transaction.

### Correspondence of `WriteSetHash`

`numStores`, `log` and `buckets` are the fields of the source, with pointers as positions;
`buckets` start at the last entry, as in the constructor. A call of `addOrReplace` or
`lookupAddr` is `Call`, then `SearchArray` below `MAX_ARRAY_LOOKUP` stores or `SearchBucket` and
`Walk`, entry by entry, above; `Replace`, `AppendEntry` or `LookupEnd` finish it. The two
functions differ in one place: `addOrReplace` of OneFileLF (307) walks a bucket without a
look at the hash of its first entry, that of OneFileWF (421) compares it; `ChecksHead`
is that difference, and the proofs hold for both. `CopyNum` and `CopyEntry` are the assignment
operator: they overwrite entries, `next` pointers into another thread's log included
(`Foreign`), and leave the buckets alone. `Reset` is `numStores = 0`, all there is between
transactions. `CopiedEntries` says what a copied entry may look like. A pointer that
`buckets` holds is compared with `&log[numStores]` before it is followed, so leftovers
beyond the log are never read.

### Correspondence of `ThreadRegistry`

`LoadUsed`, `CasUsed`, `LoadMax` and `CasMax` are the four shared accesses of
`register_thread_new`; `Deregister` is the destructor of the thread-local
`ThreadCheckInCheckOut`, which runs when a thread ends. A member of `Procs` is a place for a
thread, in which `Lives` threads follow one another. The two stores that fail the loop
(62, 64) both lead to the next identifier. `full` is the assertion of line 75.

### Correspondence of `OneFileWF`

`FirstEra`, `Announce` and, whenever the processor likes, `DrainFunc` and `DrainSeq` are the
top of `innerUpdateTx`: the two stores of `rawStore` (366-369) go through a store buffer, in order,
which the comment of lines 602-603 is about. A locked instruction of the thread waits for
the buffer. A round is `RoundReset`, `LoadCurTx`, `CheckAnswered`, `HelpApply`, `ResetLog`,
`SetEra`, `Recheck`, then `transformAll` for each thread (`RawOpSeq`, `RawOpVal`, `RawOpCheck`,
`RawResult`, `CheckTx`, `RunLoadVal`, `RunFunc` or `RunAbort`), then `commitTx`. `Leaving` is
lines 627-632 and the load of the result; `Reading` is `readTransaction`, which after
`MAX_READ_TRIES` goes to `FirstEra`. Deleting functions is modelled with the eras of their
announcement and retirement, one hazard era per step.

The program has one word, `Obj`, with the sequence of the calls that have changed it; a call
returns its place in it. A function lost, run twice, run on half a memory, or answered with
another's result then shows in `ImplementsWaitFreeObject`. Two steps are coarser
than in `OneFileLF`, where their halves are told apart: `apply` loads value and sequence
of a word together, and a write-set is copied at once, spoilt if its owner writes before the
copier's next step. `tmNew` and `tmDelete` inside functions are those of `OneFileLFMem`.

### Correspondence of `PersistentMemory` and `OneFilePTMLF`

A memory gives, for each line, the sequence of the contents that a power failure could leave,
the last of which is what the caches hold. A store appends; `PWB` notes the content of the
moment for its thread, and a fence, or a locked instruction, of that thread drops what is older
than what it has noted. A failure keeps any content of each line. In `OneFilePTMLF` the
lines are `curTx`, the words (each a line of its own, so that more can be torn than in the
machine), and each thread's `PWriteSet`, whose log and request are flushed together (421): the
`flushFromTo` of `OneFilePTMLF.hpp` (117-122) aligns the address it begins with, as neither that of
`pfences.h` nor the `flush_range` of RomulusLog does, so it meets every line of the log.

The steps are those of `OneFileLF` with `PersistAndFlushLog` before and `CommitFlush`
after the compare-and-swap on `curTx`, and `FlushModifications` before the request is
closed. Each transaction of the program adds one to all words, so that one that is lost, torn or
repeated shows. Two faults are modelled, for the two programs: `Die`, in the multi-process
variant, ends a thread anywhere; another process takes its identifier with the write-set as it is in
the region. `Crash`, for one process, is a power failure: memory keeps what it may,
everything volatile, the write-sets included, is as after `mapPersistentRegion`.

### Correspondence of `RomulusLog`

`WriteTransaction`, `TryExclusiveLock`, `CheckDone`, `Collect`, `SetMutating`,
`WaitForReaders`, `RunFunction`, `PStore`, `SetCopying`, `PSync`, `Answer`, `CopyToBack`, `SetIdle`,
`ExclusiveUnlock` follow `ns_write_transaction` (395-467) line by line; `Arrive`, `IsLocked`, `Depart`, `Spin`,
`Read`, `SharedUnlock` are `sharedLock`, the user's read and `sharedUnlock` of
`CRWWP_SpinLock.hpp`. `tryLock` loads before it swaps (74-76); the load only saves a
swap that fails. Between two fences, what no other thread sees is one step: it leaves
the memory in which a failure can keep any part of it. The log is a sequence of
words, cut at `LogLimit` as in lines 216-222. `PowerFailure` is possible at any step, also while
`recover()` copies; who was in a call does not repeat it. A word's value is the
set of the calls that have stored it, each with its number in `ran`, the order in which functions
were run, cut at recovery to what has survived; a store adds a member to what the function
has loaded, so that a store lost, repeated, or made by a call that others do not know of shows in the value. A
function stores its words, and a reader loads them, in any order (`todo`). `due` are the calls whose effect
a caller or a reader has seen.

What `CopyToBack` writes back is less than what it copies. `add_to_log` makes entries of the 64 bytes of a
line of main (249-252); `back_addr` is `g_main_size` behind `main_addr`, with the sizes of the source 44
modulo 64 (RomulusLog.cpp:73-75), so in back an entry begins 44 bytes into one line, fills it, and goes
on for 44 bytes in the next; and `flush_range` (148-153), which does not align its start, issues one `PWB`, for the first
line. A word of the model is what a program stores in a line of main. `Meets[w]` are the words in the line of back in
which the entry of `w` begins: `w` itself if it is in the first 20 bytes of its line, and, if it is logged or not,
the word in the last 44 bytes of the line before. `Flushed` are the words so met when the log is applied, and all of them
when `copyMainToBack` flushes the whole range in one go, as it does in recovery, too. `Meets` is a constant: the runs
give it the displacement of the source (`Displaced`), and the proofs hold for any. In main every entry
is a line, and met whole. Four history variables tell the executions of the findings apart: `behind`, the words of
back that were not written back when last copied; `stale`, those a power failure may have left old there;
`overflowed`, that the log has dropped a store; and `spoilt`, that a failure has come after an overflow, or has
left `MUTATING` with words `behind`, which is when `recover()` relies on memory that is not there.

### Correspondence of `RomulusLR`

Most of `RomulusLR.hpp` repeats `RomulusLog.hpp`: announcement, lock, log, write-backs, states and
recovery are the actions of that module (`LockWriters`, `Mutate`, `AnswerAndCopy`, `LRRecover`), whose
`lock` is `writersMutex` here and whose read indicator `reading` has no use. Its `flush_range` (198-203) and
`back_addr` (404-406) are the same, too, and `AnswerAndCopy` (647) writes back what `CopyToBack` does. New are, in
`ns_write_transaction` (581-662), `SetRight`, `ReadBack`, `ReadMain`, `ClearRight` and the loops of
`toggleVersionAndWait` (298-308), which scan one slot of an indicator at a time and start again
when they meet a reader; and `ns_read_transaction` (670-685) with a step for the load of `versionIndex`,
the arrival, the load of `leftRight`, each word, and the departure. `PLoad` is the `pload` that looks at
`g_right` and the thread's side (938-943): a combiner, and a reader sent to main, load from main. `side` is
never reset, as `tl_lrromulus` is not, so that a thread that has read comes to the lock from
the right. `g_right` is a plain `bool`: between the sequentially consistent accesses of
`leftRight` and the indicators its order is theirs. `since` remembers how many calls had been seen by
anybody when a read transaction began.

### Correspondence of `CRWWPSTM`

`Writer` is `ns_updateTx` (309-355), `Reader` is `ns_readTx` (406-434), each shared access a step;
the module extends `ThreadRegistry`, whose `tid` and `maxTid` it uses, so threads register while
others scan, leave, and hand their slot on. `isEmpty` reads `maxTid` for each slot
(269), the scan of `fc` once (335). A function runs in one step: nobody else may touch the
object then, which `FunctionsExclude` checks. The object and what a call returns
are those of `WaitFreeObject`.

### The abstract specifications

`WaitFreeObject` is a set of calls, each with an instant between call and return at which it
takes effect; `Execute` lets the calls of several threads take effect in one step, the writes in some
order and each read somewhere between them, which is what a transaction of OneFileWF does. A reader may look again, as
one that is overtaken does; its last look counts. `OneFileWF` maps the instant to `CommitCas`,
`CRWWPSTMRefinement` to `RunMutation` and `ReadFunc`; the call then returns the result of
that instant, whoever ran it.

`AtomicSTM` has a committed memory, a version, and for each thread a snapshot, a set of
its own stores and a phase. An attempt takes its snapshot in one step after its call,
all its loads come from the snapshot under its own stores, it commits in one step if
the version is still that of its snapshot, and gives up only if it is not. That is
opacity (also doomed attempts see one memory), strict serializability (the instant
lies between call and return) and the progress claim of the comment of `beginTx`
("the while-loop restarts only if there was at least one other thread completing a
transaction", 438-439) in one specification. `OneFileLFRefinement` maps the snapshot
to `BeginRecheck`, the commit to `CommitCas`, and every other step to a stutter, a load or
a store.

## 3. What TLC checks

| Run | Instance | Question |
|---|---|---|
| `two_threads` | `OneFileLF`: 2 threads, a transaction each of up to 2 operations, 2 words, 2 values; only thread 0 is fair | `Opacity`, `PublishesOnLatest`, `NoLateWrite`, the inductive invariant `Inv` of the proofs (with `TypeOK`), `ClosedMeansApplied`, `ImplementsAtomicSTM`, `FairThreadsFinish` |
| `reclaim` | `OneFileLFMem`: 2 threads, a root and a node; 4 transactions of 4, 1, 1 and 2 operations, and 1 of 2 | a reader holds a pointer to a node, or a helper a write-set that stores into it, while it is unlinked, deleted, freed two transactions later and allocated again; allocations are published by a commit or rolled back by the next attempt: `ProgramPointersAreLive`, `RetiredOnce`, `ApplyTouchesLiveWords`, `HelperCopyIsExact`, `PrivateState` |
| `alloc_only` | 1 thread | violated: see findings |
| `write_set_hash` | `WriteSetHash`: 3 words in 2 buckets, 4 entries, array search below 1 | `LooksUpLikeRedoLog`, `WalksOwnEntries`, `AddsLikeRedoLog`, `CallsEnd` |
| `wait_free` | `OneFileWF`: 2 threads, one update against four and a read, one try of a reader | `RoundsSuffice`, `RunsLiveFunctions`, `ImplementsWaitFreeObject` |
| `persistent` | `OneFilePTMLF`: 2 threads, 2 transactions each on 2 words, thread 1 dies anywhere | `ClosedIsPersistent`, `OpenLogIsPersistent`, `FairThreadsFinish` |
| `restart` | the same in one process, one power failure | violated: see findings |
| `romulus_log` | `RomulusLog`: 3 threads, update calls on overlapping pairs of 3 words and a reader, a log of 2 entries, one word at the head of its line and one in the tail of the line before, 2 power failures | `RInv`, the inductive invariant of the proofs (with `TypeOK`), `ReplicasAreWhole`, `NothingIsLost`, `ReadersSeeWhole`, `RunsLiveFunctionsOnce`, `CallsReturn` |
| `romulus_overflow` | the same without failures | violated: see findings |
| `romulus_behind` | the same with 2 threads, a log that does not overflow and 1 power failure | violated: see findings |
| `romulus_lr` | `RomulusLR`: 3 threads, a read and two update calls against an update call and a read, 2 words, one at the head of its line and one in the tail of the line before, a log of 2 entries, 1 power failure | `LRInv`, the inductive invariant of the proofs (with `LRTypeOK` and the `RInv` of `RomulusLog`), `ReadersSeeRecent`, `SurvivesFailures`, `CallsReturn` |
| `flat_combining` | `CRWWPSTM`: 3 threads, two writers and a reader, 3 identifiers; one is fair in registering | `TidsAreUnique`, `RegisteredIsCovered`, `NeverFull`, `FairThreadsRegister` of the registry; `FunctionsExclude`, `RunsLiveFunctions`, `CallsReturn`, `ImplementsObject` |

Why the bounds suffice. A helper can be late by a whole transaction of the thread it
helps only if that thread makes two: in `reclaim` thread 0 makes four, so that thread 1's copy
may mix the logs of two, and its close may meet a later request. In
`two_threads` each may help the other, and a copy may meet the reset of the owner's
next attempt. Both threads may close a request under each other. That a helper begins with the
entry `tid*8 % n` (364) makes no difference for logs of up to two entries, where this is the first,
but the theorem `ClosedIsApplied` holds for every `n` and every number of threads. Two words are needed for a reader to see half of a
transaction. `clean` keeps what the current transaction has
retired, so freeing a node takes a transaction after the one that deletes it, and one
before that stores into the node if a helper is to be caught with it. Two
values tell an overwritten word from an old one. A
write-set of four entries holds three (319), enough for a chain of two in one bucket and an
entry of the other between them, with leftovers of earlier transactions and copies at
every place.

A round of `innerUpdateTx` ends without a commit because another thread has published a
transaction, so four updates of thread 1 are what can exhaust the four rounds of thread 0, and
with one round fewer the run does find a call that returns unserved (mutant `ThreeRounds`).
A function is freed in a transaction after the one that follows its retirement, which
four calls allow. In `persistent` and `restart` a second transaction of each thread meets what
the first, or a dead predecessor, has left. In `romulus_log` two calls together, or the second
call of thread 0 with that of thread 1, exceed the log; the second failure hits the recovery from the
first. Of the three words `a` is met by the flush of its own entry, `b` only by that of the entry of `c`,
and `c` by its own: a call on `a` and `b` leaves back half written back, one on `b` and `c` does not, and the call
of thread 1 makes good what that of thread 0 has left. In `romulus_lr` the second update of thread 0 toggles `versionIndex` back while a reader
that has loaded it before the first is asleep, which takes four toggles and a reader that has not
arrived; one failure suffices, recovery being that of `romulus_log`. A registry with as many identifiers as
threads leaves no slack: a thread that misses one it could have had is `full`.

Fairness. `FairSpec` of `OneFileLF` and `OneFilePTMLF` asks for weak fairness of the steps of the
threads in `Fair` only, which is thread 0; thread 1 may stop for ever anywhere, inside its commit
too (or die, in `persistent`). A thread the scheduler runs always has an enabled step (nothing
blocks in this code), so weak fairness is no more than "the thread is scheduled". Thread 0 then
finishes, for each attempt it repeats was overtaken by a commit and there are at most
`MaxTx` of those: the bound of the runs makes lock-freedom (somebody finishes) into
a statement about one thread. `RomulusLog` and CRWWP-STM are blocking: all threads are scheduled
while they are in a call, and `recover()` runs to its end. A thread between calls need not come
back, and only one of those that register in `flat_combining` is scheduled while it does so.
In `write_set_hash` weak fairness is of the steps of a call that has begun. For
`OneFileWF` no temporal property is run, as the run of four rounds is
too large for it; its only loop is bounded (604), and
`RoundsSuffice` says that leaving it after the last round is right, so what would be left to
check is that a finite sequence of steps ends.

Each property has a *mutant* in `PROJECT.json`: an operator placed before the definition it
replaces, with a mistake a programmer might make there (the second check of the request
dropped, a bound of an era exclusive, the loop of `apply` one short, a fence forgotten, a lock
kept on an early return), under which TLC finds the property violated by the same run.

### Findings

* `commitTx` of OneFileLF returns at line 463 when a transaction has no stores and no deletes,
  *before* `myopd.numAllocs = 0` (477). The objects a transaction allocated without storing a
  pointer to them in a transactional word (it may return them, `tmNew` may be all it does) stay in
  `alog`, and the first thing the thread's next `beginTx` does is to delete them, although the
  comment of `tmNew` (535-539) reserves that for "a failed commit of the transaction".
  `alloc_only` shows the shortest such run with property `FirstAttemptFreesNothing`.
* `mapPersistentRegion` of OneFilePTM-LF says "recover(); // Not needed on x86" (623), because "the
  DCAS has atomicity" (804). One DCAS has, a transaction of two has not: `restart` shows
  a helper that has applied one word when power fails, with `curTx` not yet written back by
  its owner. The word survives, the new `curTx` does not, nobody completes the
  transaction (`RecoverIsNotNeeded`). If `curTx` survives as well, the transaction is
  open after the restart, but the write-sets that helpers copy are volatile and empty, and it
  is closed with nothing more applied.
* When RomulusLog's log exceeds a quarter of the used size, `add_to_log` drops further stores (219-222)
  and the second replica is copied whole (455); but main is written back through the log only
  (439, the `PWB` in `pstore` being commented out, 730). `romulus_overflow` shows a store that is
  not persistent at the point where "all applied mutativeFunc are visible and persisted" (445).
  RomulusLR has the same lines (321-324, 931).
* RomulusLog writes back only a part of what it copies to back: `apply_pwb(back_addr)` (453) hands entries aligned
  to main's lines (249-252) to `flush_range`, which issues one `PWB` per 64 bytes from an unaligned address
  (148-153), and back is 44 bytes off (RomulusLog.cpp:73-75). Nothing is lost while back is not needed. But
  once the next update has set `MUTATING` (428), a power failure makes `recover()` copy back over main
  (RomulusLog.cpp:211-213), old words and new ones. `romulus_behind` shows a call on two words that
  has returned; after the failure one of its words is new and the other old (`AnsweredMeansDurable`), in spite of the
  "`PSYNC()` here to have ACID Durability" (443). RomulusLR has the same lines (198-203, 404-406, 647). There a failure
  that leaves `IDLE` leaves stale words in back, too, and as `recover()` does nothing then,
  a reader that a later writer sends to back before it has copied those words (619-622) may see them; RomulusLog's
  readers never look at back. `AlignedAnswersDurable` proves that the displacement is the cause: with
  `back_addr` aligned as `main_addr` is, or with a `flush_range` that aligns its start, `AnsweredMeansDurable`
  holds until the log overflows.

What is asked of RomulusLog and RomulusLR besides is asked of all other executions: `ReplicasAreWhole`,
`NothingIsLost`, `ReadersSeeWhole`, `SurvivesFailures` and `ReadersSeeRecent` are void once a failure has
followed an overflow, or has left `MUTATING` with words behind (`spoilt`). `ReplicasAreWhole` says of back that it is as main but
for words that are `stale`, and durable but for words that are `behind`; `ReadersSeeRecent` says nothing of a reader that is on back
while a word there is `stale`. Both are as strong as the code allows: a failure that leaves `IDLE` or `COPYING` spoils nothing.

## 4. What is proved

`OneFileLFProofs` begins with what the operators on redo logs preserve and return
(`AddOrReplaceWriteSet`, `LookupAfterAdd`, ...), and proves, for every `N`,
`Words`, `Vals`, `MaxTx` and `MaxOps`:

| Theorem | |
|---|---|
| `Invariance` | `Spec => []Inv` |
| `TypeCorrect` | `Spec => []TypeOK` |
| `LoadsAreOpaque` | `Spec => []Opacity` |
| `ClosedIsApplied` | `Spec => []ClosedMeansApplied` |
| `CopiesAreExact` | `Spec => []HelperCopyIsExact` |
| `LateWritesFail` | `Spec => NoLateWrite` (an action property) |
| `CommitsOnLatest` | `Spec => PublishesOnLatest` (an action property) |

`OneFileLFRefinementProofs` proves the refinement itself, for the same constants:

| Theorem | |
|---|---|
| `Refinement` | `Spec => ImplementsAtomicSTM` |

`OneFileLFMemProofs` proves, of `OneFileLFMem`, for the same constants and every `Roots` and
`Objs`:

| Theorem | |
|---|---|
| `MemInvariance` | `MSpec => []MemInv` |
| `MemTypeCorrect` | `MSpec => []MemTypeOK` |
| `PointersAreLive` | `MSpec => []ProgramPointersAreLive` |
| `AppliesToLiveWords` | `MSpec => []ApplyTouchesLiveWords` |
| `RetiredIsOnce` | `MSpec => []RetiredOnce` |
| `MemLoadsAreOpaque` | `MSpec => []Opacity` |
| `MemCopiesAreExact` | `MSpec => []HelperCopyIsExact` |
| `AllocationsArePrivate` | `MSpec => []PrivateState` |

`OneFilePTMLFProofs` proves, of `OneFilePTMLF` whose threads die anywhere and are replaced
(`Spec`), for every `N`, `MaxTx` and set of `Words`:

| Theorem | |
|---|---|
| `PInvariance` | `Spec => []PInv` |
| `PTypeCorrect` | `Spec => []TypeOK` |
| `ClosedPersists` | `Spec => []ClosedIsPersistent` |
| `OpenLogPersists` | `Spec => []OpenLogIsPersistent` |

`RomulusLogProofs` proves, of `RomulusLog`, for every `N`, `Words`, `Calls`, `LogLimit`,
`MaxRestarts` and `Meets`:

| Theorem | |
|---|---|
| `RInvariance` | `Spec => []RInv` |
| `RTypeCorrect` | `Spec => []TypeOK` |
| `WholeReplicas` | `Spec => []ReplicasAreWhole` |
| `NothingLost` | `Spec => []NothingIsLost` |
| `ReadersWhole` | `Spec => []ReadersSeeWhole` |
| `FunctionsRunOnce` | `Spec => []RunsLiveFunctionsOnce` |
| `AlignedAnswersDurable` | if `w \in Meets[w]` for every word `w`: `Spec => [](~overflowed => AnsweredMeansDurable)` |

`RomulusLRProofs` proves, of `RomulusLR`, for the same constants:

| Theorem | |
|---|---|
| `LRInvariance` | `LRSpec => []LRInv` |
| `LRTypeCorrect` | `LRSpec => []LRTypeOK` |
| `RecentReaders` | `LRSpec => []ReadersSeeRecent` |
| `FailuresSurvived` | `LRSpec => []SurvivesFailures` |

`WriteSetHashProofs` and `CRWWPSTMProofs` prove, again for every value of the constants:

| Theorem | |
|---|---|
| `WriteSetHashProofs!Invariance` | `Spec => []Inv` |
| `AddsAreRight` | `Spec => AddsLikeRedoLog` (an action property) |
| `LookupsAreRight` | `Spec => []LooksUpLikeRedoLog` |
| `WalksStayInside` | `Spec => []WalksOwnEntries` |
| `CRWWPSTMProofs!Invariance` | of `ThreadRegistry`: `Spec => []Inv` |
| `IdentifiersAreUnique` | `Spec => []TidsAreUnique` |
| `ScansMissNobody` | `Spec => []RegisteredIsCovered` |
| `AlwaysRoom` | `Spec => []NeverFull` |
| `ImplementsRegistry` | `StmSpec => Spec`: what is proved of the registry holds under CRWWP-STM |
| `StmInvariance` | `StmSpec => []StmInv` |
| `FunctionsNeverOverlap` | `StmSpec => []FunctionsExclude` |
| `OnlyLiveFunctionsRun` | `StmSpec => []RunsLiveFunctions` |
| `AnswersAreOwn` | `StmSpec => []RefInv` |
| `StmImplementsObject` | `StmSpec => ImplementsObject`: the refinement of `WaitFreeObject` |

The assumptions are those of the modules: `RedoLogAssumption` (the address of an entry nobody
filled in is not a word), `OneFileLFAssumption` and `MaxOpsAssumption` (there is at least one
thread, `MaxTx` and `MaxOps` give naturals, the initial memory has values, `Fair` is a set of
threads), `MemAssumption` (words are roots and objects, values objects or null, and a root is not an
object), `OneFilePTMLFAssumption` (there is at least one thread, `MaxTx` gives naturals, `curTx`,
words and write-sets are different lines, words are finitely many and hold integers),
`WriteSetHashAssumption` (the sizes are positive, `Hash` gives buckets, copied
entries are entries), `RegistryAssumption` (at most as many threads at a time as
identifiers), `CallsAssumption` (threads are numbers, the calls of each are given),
`RomulusAssumption` (there is at least one thread, the calls of each are sets of words, the limits are
naturals, `Meets` gives sets of words) and `RefinementAssumption` (the mark for "no store" is not a value). TLC evaluates them in every run.

None of the engine's properties is inductive: `Opacity` alone says nothing of a word between
its two loads, nor of a helper that is about to overwrite it. `Inv` (module
`OneFileLFInv`) adds:

* `SeqBound`: no word and no thread is ahead of `curTx`.
* `PastClosed`: the request of a superseded transaction is closed. With it, a helper that
  finds a request open *after* it found `curTx` unchanged has a transaction that was open at
  the time of its copy.
* `OwnSeq`, `OwnerState`: a thread never publishes sequences backwards, so that a request once
  closed, or opened for a later transaction, never equals an old transaction again. This
  is what makes the compare of `request` with a remembered transaction free of ABA.
* `OpenHasOwner`: while the last transaction is open, its owner is inside `helpApply`, so
  the log that others copy is not being rewritten.
* `WriteSets`: logs have one entry per word (else the order of `apply` would matter).
* `CopyState`: a copy is exact as far as it has got, while the transaction stays open.
* `ApplyState`: a thread in `apply` has an exact copy, or every word in its copy is already
  that new; behind `pos` all entries are applied; and the pair `<lval, lseq>` it compares
  with is one the word really has, or the compare-and-swap cannot succeed.
* `MemoryState`: a word differs from the committed memory only while the last transaction is
  open and has not got to it.
* `ReadState`: a word no newer than the attempt has the value of its snapshot.

The proof that `Next` preserves `Inv` has one lemma per conjunct, each with a step per action
that can disturb it. What several of them need is a lemma of its own: a transaction that
is open stays so and keeps its log until somebody closes it (`OpenStep`), only a current
apply changes memory (`MemStep`), whoever closes the request has applied every entry
(`CloseStep`, which rests on `ApplyIndexOnto`: `(tid*8 + i) % n` visits every entry),
and `curTx` moves only when it is closed (`AdvanceStep`).

All of `Inv` but `ReadState` and `Opacity` is `Core`: what the engine needs of itself, whatever its words
are. `OneFileLFMem` takes `Core` over step by step (`CoreStep`), since its actions are those of
`OneFileLF` with more guards, and `TmNew`, which initializes a word no other thread can touch. `ReadState`
it cannot take over: a word of an object that has been freed, allocated again and
initialized has sequence 1, and is "no newer than the attempt" with a value of
nobody's snapshot. What is true there is that this happens to no word the program can get to:
`SeenState`, which needs the safety of reclamation, which in turn needs that
pointers come from the snapshot. `MemInv` therefore proves the two together. Its parts:

* `EraState`: an object's birth is not after `curTx.seq`, and a thread that runs an attempt or
  applies a log has published the sequence of the transaction it has seen (`he`).
* `TouchState`, the heart. `Touches(t)` is what a thread can still load from or store to: what is
  reachable in its snapshot and what it has allocated, or, in `helpApply`, the words of
  its log. All of it is allocated, was born by the thread's era, and, where it waits to
  be freed, did not die before it: exactly the inclusive bounds of `canDelete` (244-248).
* `ScanState`: the threads `clean` has passed cannot touch the object it looks at. A thread that
  publishes its era after it has been passed is the hard case: it rechecks `curTx`
  afterwards (455), so what it reaches is reachable now, and a retired object is not.
* `DoomedState`, `OpenLogState`, `PrivateState`: an object waits to be freed in one list, once,
  and is unreachable; an open transaction writes none that another has deleted; what a
  running attempt has allocated nobody else can touch, so it may be rolled back.
* `BeginState`, `ProgramState`: the logs are empty where they must be, and a program stays within
  what it sees.

The steps are sorted first (`StepKinds`): most change neither `Touches` nor what is doomed (`Calm`), and
each part of the invariant is kept by those for one reason. What remains are the few events with a lemma each:
an attempt begins (`EngineAttempts`), is given up (`AbortFacts`), commits (`CommitFacts`), a helper passes its last check
(`EngineApplies`), an object is allocated, retired, freed (`NewFacts`, `RetireFacts`, `FreeFacts`). The proof found
two things the runs could not. A program that deletes an object and then stores a pointer to it
again breaks `DoomedState`; the bodies of the instances are too short for that, and it is now
a guard (`MStore`). And roots must not be objects (`MemAssumption`). TLC has checked `MemInv`
on the instance of `reclaim`, and on one of two free nodes that are linked to each other. It takes longer than
the other runs do, so that `reclaim` has those of its parts that say something of the code by themselves.

The refinement follows from that invariant and one thing more, `EmptyLog`: a thread between
`BeginReset` and its attempt has no stores. Each step is shown to be one step of the abstract
transaction of the same thread, or none. Which phase a thread is in follows from its label, except in
`helpApply`, where it follows from who called it (`LabelFacts`), so all of `helpApply` is a
stutter in either (`HelpRefined`). The obligations that are not bookkeeping are three: a load
returns the snapshot under the attempt's own stores (`BodyRefined`, from `ReadState`); an attempt is
repeated only if the version is no longer its own (`RetryRefined`: a word newer than
the attempt is no newer than `curTx`, by `SeqBound`); and a commit turns the snapshot into the committed
memory (`CommitRefined`).

`PInv` (module `OneFilePTMLFInv`) cannot say that an open transaction has its owner inside
`helpApply`: the owner may be dead, and its successor may be about to begin. It is built on who
still has to do with which transaction instead:

* `PastClosed`: of the transactions somebody is helping with or starts from (`Known`), all but the
  last are older and closed.
* `OwnSeq`: none of a thread's known transactions is newer than what it starts from,
  so the request it opens is a new one, also if a predecessor under its identifier has left helpers behind.
* `ThreadOwns`: while the last transaction is open, whoever has the identifier of its owner has not
  got past the close of that transaction, and its write-set is as it was. A successor loads `curTx`,
  finds its own request open, and applies a log it did not write (785-786): this is why that is the right one.
* `ThreadApply`: a thread in `apply` has the log of the open transaction, or all words are at least that
  new; entries behind `i` are applied. When it comes to close the request, what it has written back is what
  *all* words have, those that others have stored included. That makes `ClosedIsPersistent` inductive: the close is
  a locked instruction (797-799) and so the fence of these write-backs, and an owner that dies before
  it leaves the close, with write-backs of its own, to somebody else.
* `ThreadCommit`: the request is open and the line of the log noted when `curTx` moves, whose compare-and-swap
  is the fence (`OpenLogIsPersistent`).
* `MemoryState`: no word is newer than `curTx`, and one that is as new has its final value.

Every step but `CommitCas` is `Tame`: it leaves `curTx` alone, changes words only as the open
transaction wants it, and closes that only when its words are persistent. `OthersKeep` takes the invariant of all
other threads over such a step, so that each action has only its own thread to show (`Keeps`). What a fence or a
locked instruction leaves of a line is in `SinceNow`, `FencedMemory` and `LockedMemory`. The program is the one of the
run, whose transactions store one value into every word, for any number of words; threads load, begin,
die and come back in any order. Nothing is proved of `CrashSpec`, where a power failure loses the
volatile write-sets: there `RecoverIsNotNeeded` fails (see findings). TLC has checked `PInv` on
the instance of `persistent`.

The invariant of `WriteSetHash` says of each entry of the current transaction that its link
leads to the entry before it *of the same hash* and of this transaction, or is null if
there is none (`Chained`), that its bucket leads to the last of them (`Headed`), and of a
search that what it has passed was not what it looks for (`Search`). Nothing is said of
other buckets and entries, which is the point: whatever they hold, `UsableHead` and
`NextOf` keep it out. While a copy of another log is in place there are no chains, and no
call either.

`NeverFull` needs a counting argument, `RoomAhead`: at most `MaxThreads - k` threads have got as
far as the k-th identifier. A thread passes an identifier only when it has an owner; the
owner is one of those that have got to the k-th and not to the next, so one fewer have.
That registration is a single pass is thus enough, although a free identifier may appear
behind a thread that has passed it.

`CRWWPSTMProofs` begins with `ImplementsRegistry`: a step of CRWWP-STM is a step of the registry or
leaves it alone. `StmInv` (at the end of `CRWWPSTM`) then needs both halves of the registry.
`ReadersStopWriters` is the argument for exclusion: a reader gets inside only when it has
arrived *and then* seen the lock free, so a writer that takes the lock later scans the
indicator later, and finds the reader's slot, as `maxTid` covers it (`RegisteredIsCovered`);
no other reader's `depart` takes the mark away, as the slot is not shared (`TidsAreUnique`,
`ReadersShow`). `SlotsAreCalls` says that a function in a slot is the one its
owner waits for; `LoopsCoverOwner`, that whoever leaves with the lock has passed its own slot and
found or left it empty, so that it leaves no function behind. The proof lists what each
step does to each variable first (`LockMoves`, `WriterMoves`, `ReaderMoves`, ...); the conjuncts
are proved from these lists.

The refinement, `StmImplementsObject`, needs in addition that an answer is one's own. A slot tells
its owner only whether it is empty, and the result is stored before the slot is emptied (347-348), so
`Answers` (in `CRWWPSTMRefinement`) looks at slots that are empty or are just being emptied
(`Ran`): their owners, if they wait, have the result of their own last run in `results`, and one
that writes and whose slot is not `Ran` has not been run, which is what makes it take effect
once. Who is given the slot next cannot be mistaken for it, because a thread leaves a call only with an empty
slot and a reader that has run its own function withdraws what it has announced (430). A step goes on,
returns, or runs a function (`Continues`, `Returns`): the first is a stutter or a call, the
second the abstract return, and a function is `Execute` of its caller alone if it writes (`RunIsExecute`), and
otherwise a look (`LookIsObserve`). TLC has checked `RefInv` and `StmInv` on the instance of
`flat_combining` and on one of two threads with two calls and two lives each.

`RInv` (module `RomulusLogInv`) says of RomulusLog, in two halves, what each line of `ns_write_transaction`
may rely on. `Control` is about threads:

* `LockState`, `ReadersOut`: a reader inside has the mark of its slot, and where the combiner has passed that slot
  nobody is inside; a reader looks at the lock after it has arrived, the combiner at the readers after it has the lock.
* `SlotState`, `CollectState`: a slot has the call its owner waits in, and what the combiner has collected is
  still announced until it answers it. So a function is run while its caller waits.
* `RanState`: the call a thread waits in has been run if and only if its slot has been taken back, or the
  combiner holds it in `lfc` and has got past it (`HasRun`). That is what makes "once" inductive: nobody else
  knows between the run and the answer.
* `Noted`: no line written back has been stored into since, so that a fence leaves one content of it.

`Memory` says what the replicas hold, as a function of the number of calls run:

* `Volatile(n)`: main is worth all calls run, but for the stores the last has still to make; back the first
  `n` of them, or, in words that are `stale` and in whatever else a failure could leave there, fewer (`BackHas`); and where the log has
  every store, the two differ in the words of the log and stale ones only. This is why copying
  those of the log is enough.
* `Durability`: which lines may hold more than one content at which step. Main is whole in memory but for the words of the log
  while functions run, back but for what has been copied since the last fence and the words `behind`; the state may be stale only in the
  directions `recover()` can take: IDLE is never written back, so COPYING may survive it, and
  copying again does no harm.
* `UpState` joins the two with `Settled`: what has returned or been seen, and what has been answered and not yet
  returned, is among the first `n` calls before COPYING is durable, and among all after it.
* `DownState`: after a failure one replica is whole, the one that the surviving state names, has the effect of
  the first `n` calls for some `n` that covers `due`, and stays so while `recover()` overwrites the other and may
  itself be cut short. If the state that survives is MUTATING that replica is back, and no word of it was behind.
* `SeenState`: what a reader has loaded so far is of now.

`Noted` has a second half: nothing is noted while functions run or words are copied to back (`AllFenced`), so that
what a fence drops of a line is known to be of the copy.

All of `Memory` is void once `spoilt`, which is what the two findings above are about; before that failure, a log that has overflowed
leaves `Durability` void and the rest true. With words behind, `Durability` says nothing of them but that what they
may be left with is an older effect of calls that back has. Every step has a lemma of
its own. Those that leave memory alone share `QuietStep`; the others are those the code orders by fences:
`SetMutatingInv`, `StoreAfterInv`, `SetCopyingInv`, `PSyncInv`, `CopyToBackInv`, `SetIdleInv`. `PowerFailureInv` is where
`Durability` turns into `DownState`: `FailureWhileUp` for a failure of a program that runs, `FailureWhileDown` for one of
a recovery. The lemmas on `PersistentMemory` (`FencedMemory`, `StoredMemory`, `WrittenBackNow`, `FailedMemory`) say
what a fence, a store and a failure make of the contents of a line. `SurvivingIs` shows that
the number of calls that have survived can be read off main: calls store at least one word, and the values are numbered, so
two numbers of calls that leave main the same in all words are one. In the course of the proof the
value of a word changed from the sequence of calls to the set of numbered ones, which tells the same
executions apart and can be reasoned about without recursion.

`LRInv` (module `RomulusLRInv`) does not repeat any of this. An update transaction of RomulusLR goes through
the memory as one of RomulusLog does, so `LRInv` says that `RInv` is true of the threads *seen as threads of
RomulusLog* (`LogThreads`): before its functions run a combiner that scans indicators is a RomulusLog combiner that
waits for readers, after them it is one that has not answered anybody yet, and a reader, wherever it is, is one that
has not been let in. Each step is then a step of RomulusLog, or a stutter, and the lemmas of `RomulusLogProofs`
are used as they are, through `INSTANCE`. The new parts are the argument for Left-Right:

* `SidesState`: readers are sent to back, and may be there, only between the first toggle and the last, and the
  combiner itself works on main, whatever side it has read from before (622).
* `IndicatorState`: exactly those that have arrived and not departed are marked, in the indicator they have
  read `versionIndex` for.
* `OldReaders`, the heart. A reader that has loaded `leftRight` before the combiner changed it is on the wrong
  replica. It is in one of two indicators, and which one says little, for it may have slept since an earlier
  transaction. After the first scan it cannot be in the next one: whoever arrives there later loads `leftRight`
  later, too. Hence after the toggle it is in the one the second scan looks at.
* `SeenSide`: a replica does not change while a reader is on it, as `OldReaders` ends when functions and copying start.
* `SinceState`, `SettledState`: back, when readers are on it and no word is stale, has all calls that anybody had been told of or had seen
  when they began. This is where the order of `PSYNC`, `leftRight`, and the answers matters (634-643).

`ReadersSeeRecent` does not need that a read transaction happens to be short: a reader may sleep for any number of
transactions before it loads `leftRight`, and one that has loaded it holds up the next toggle. Where the proof picks
a smallest or a greatest number (`Smallest`, `Greatest`) it does so from the well-foundedness of the naturals. The proof
found that `UpState` of `RInv` was weaker than what is true: what has been answered is settled whether or not the
log has overflowed, and RomulusLR's readers need it then, too; `RomulusLogInv` says so now, and `romulus_log`
and `romulus_lr` check it.

Only model-checked: liveness, which the prover has no rules for; and the refinement and safety of the
wait-free engine.

## 5. Not modelled, and what is next

Not modelled, of the components that are:

* The overflow of the OneFile logs (assertions, compiled out in release builds) and of sequences
  (54 bits). A hash map of OneFilePTM-LF's write-set: the code is that of OneFileWF, which
  `WriteSetHash` covers.
* Orders of memory operations beyond those of x86, the only target of the `DCAS` assembly and of
  the write-backs.
* In OneFileWF, `tmNew` and `tmDelete` by the program: logs and reclamation are the code of OneFileLF.
  Their product with announced functions is too large to check.
* In OneFilePTM-LF, the creation of the file, root pointers, and `recover()`, which nothing calls.
  In its multi-process variant, the robust mutexes of the registry: a tid is taken
  by one thread at a time. (A mutex taken over from a dead process is never made consistent; what
  `pthread_mutex_trylock` answers after that is outside of the repository.)
* In RomulusLog, nested and aborted transactions, `begin_transaction` and `end_transaction` used without
  the lock, the creation of the file, and dlmalloc.
  The same in RomulusLR; there a read transaction inside an update would also move the thread to the
  side of the readers (680).
* Starvation of CRWWP-STM's readers by writers that never end: `CallsReturn` is checked for
  finitely many calls. A reader that finds the lock free does not look at its slot but arrives
  again (421-427); it is the announcement that stays that makes up for it.

Components that are not modelled:

* OneFilePTM-WF is OneFileWF with the persistence of OneFilePTM-LF. Both parts are modelled; the
  two together exceed what a run of minutes can explore.
* `EsLoco` is a sequential allocator inside transactions: the next module to write.
* The baseline queues and lists with hazard pointers are published algorithms used to compare
  with; no component depends on them.
* The transactional data structures are sequential code whose correctness is that of the
  transactions it runs in; the vendored libraries, wrappers and benchmarks are not this
  project's logic.

Proofs that are next: `OneFileWF`, whose helping is that of `OneFileLF` and whose reclamation of functions is
that of `OneFileLFMem`.
