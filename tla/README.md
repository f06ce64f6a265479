# Verification of the transactional memory

This directory models the software transactional memory of this repository
(`src/358982`, a TL2-style STM in C++), the reference library it is measured
against, the grading program that measures both, and the example programs
beside them (`sync-examples`, `playground`). TLC checks the models on small
instances, TLAPS proves the theorems for every instance. `PROJECT.json` lists
components, runs, the lines each definition stands for, hazards, findings and
theorems.

Run a model with `tlc -workers 2 -config X.cfg M`; check the proofs with `tlapm
M.tla` for each module `M` whose name ends in `Proofs`.

## 1. The system

### Components

| component | source | state | operations | modules |
|---|---|---|---|---|
| Transactions | `358982/Transaction.cpp`, `tm.cpp` | `read_version`, `write_version`, read and write set, `locked_set`; shared: the words, their locks, `global_clock` | constructor, `read` (read-only and update), `write`, `end`, `clean_up` | `Transaction`, `TransactionInvariant`, `TransactionProofs`, `SerializabilityProofs`, `SerialTM` |
| Versioned locks | `358982/versioned_lock.cpp` | one atomic `int` per word: version and lock bit | `try_lock`, `unlock`, `set_version`, `get_version_locked` | `VersionedLock`, `AtomicVersionedLock`, `PartsProofs` |
| Region | `358982/TransactionalMemory.cpp`, `tm.cpp`, `MemorySegment.cpp` | `segment_status`, `n_segments`, the counter of ended transactions, `freeing_lock` | `tm_begin`, `tm_end`, `tm_alloc`, `tm_free`, `tm_destroy`, the sweep | `TransactionalMemory`, `TransactionalMemoryProofs` |
| Segment table | `TransactionalMemory.cpp`, `tm.cpp` | `segments`, `segment_status`, `MAX_SEGMENTS`, `allocating_lock` | `tm_alloc`, `tm_free`, `realloc_segments`, `get_versioned_lock` | `SegmentTable`, `PartsProofs` |
| Measure | `grading/grading.cpp`, `grading/common.hpp` | `Sync`: `nbready`, `status`, `errmsg`, the latch | `master_notify/wait/join`, `worker_wait/notify`, `measure` | `Sync`, `Grading`, `GradingProofs` |
| Workload | `grading/workload.hpp`, `grading/common.hpp` | the bank: linked segments of accounts; `Barrier`: `step`, `mode` | `init`, `run`, `check`, the three transactions, `Barrier::sync` | `Bank`, `Check`, `Barrier`, `BarrierProofs`, `Grading`, `GradingProofs` |
| Transactional interface | `grading/transactional.hpp` | `aborted`, the library's transaction, the exception in flight | `Transaction` (begin, end on scope exit), `Shared`, the retry loop `transactional` | `Transactional`, `Bank`, `PartsProofs` |
| Driver | `grading/grading.cpp`, `common.hpp`, `transactional.hpp` | the loaded library, the region, the thread of `bounded_run` with its mutex and condition variable | `main`, `bounded_run`, constructors and destructors of `TransactionalLibrary` and `TransactionalMemory` | `Driver`, `PartsProofs` |
| Reference library | `reference/tm.c`, `shared-lock.c` | one reader-writer lock, the list of segments | the `tm_*` functions | `ReferenceTM`, `ReferenceTMProofs`, `SerialTM` |
| Synchronization examples | `sync-examples/*.c` | a counter, the leaders of rounds, a circular buffer; a lock of mutex and condition variable | twelve programs, each a `main` and its threads; `lock.c` | `Program`, `Counter`, `Election`, `ProducerConsumer`, `BoundedQueue`, `ProducerConsumerProofs`, `PartsProofs` |
| Playground | `playground/*.cpp` | a spin lock and two counters | `Lock`, `entry_point`, `shared_access`, `shared_check` | `Counter`, `PartsProofs` |
| Spin lock | `358982/spinlock.cpp` | an atomic flag | `lock`, `try_lock`, `unlock` | `Counter`, `PartsProofs` |
| Template | `template/tm.cpp` | none | `tm_begin`; the others refuse | `Transactional`, as one of the libraries under a worker |
| Not modelled | `log.cpp` (printing), `test.cpp` (commented out), `include/` (declarations, but for the answers `tm.h` allows), `submit.py` (uploads a file) | | | |

### How they interact

A thread calls `tm_begin`. If `CLEANING_PERIOD` transactions have ended since
the last sweep, it first waits for `freeing_lock` exclusively, frees the marked
segments and resets the counter. It then takes `freeing_lock` shared, which the
transaction keeps until `clean_up`. `tm_read` and `tm_write` find the word's
versioned lock through the segment index in the top 16 bits of the pointer
(`get_versioned_lock`, the segment table). A read-only transaction looks at the
lock after each copy and may move its read version forward after validating
what it has read; an update transaction buffers its writes, and in `tm_end`
locks the words, increments the clock, validates what it has read, writes back,
stamps and unlocks. `tm_alloc` appends to the table, which another thread may
be growing; `tm_free` only marks. All failures are reported by a `false`, upon
which the client's loop (`transactional`) starts a new transaction.

The grading program loads one library after the other, the reference first. For
each, `measure` starts the workers and leads them through rounds: `init`, seven
times `run`, `check`. `Sync` starts a round when all workers have arrived, and
wakes the master, through a latch, when the last has returned; a worker that
fails stores its message and a status, and the last turns that into a verdict.
In `run` the workers transfer money, add and remove accounts, and sum all up;
in `check` they meet at a spin barrier and count down one shared counter.
Around the measure, `main` has the region created and destroyed by a thread of
`bounded_run`, which it waits for on a condition variable and detaches when it
is late; it unloads the library when nobody is in it any more, or leaves the
process by `quick_exit`.

The example programs are self-contained: `main` starts threads, joins them, and
prints whether what they have left is right.

### What is hard

* *Interleaving of single loads and stores.* Nothing is locked while a
  transaction reads. Copy and look at the lock are separate steps, in opposite
  orders in the two kinds of transaction, and validation is a third one.
* *Failure half way.* `lock_write_set` fails with some locks taken, and a word
  may be in the write set several times; a transaction ends in four different
  places; `tm_free` and `tm_alloc` are not undone by an abort.
* *Progress without waiting.* Locks are taken in program order, so waiting
  would deadlock; the sweep spins on a try_lock against readers.
* *Growing a table in use*, without the lock under which it is moved.
* *Reused synchronization.* `status` and `nbready` serve every round and both
  its ends, the barrier is used three times in a row, and both are accessed
  without a lock while fast workers are already on their way to the next use.
* *Waiting with a bound*: a spurious wakeup, a notification before the wait, a
  late answer from a thread that was detached, a library unloaded under it.
* *Exceptions as control flow*: which of the calls that fail leaves a
  transaction the destructor has to end.
* *Widths*: a version shares an `int` with the lock bit; `n_segments` is 16 bits.

`PROJECT.json` has every such place under "hazards", with the property that
covers it or the reason why none does.

## 2. The modules

### Transaction.tla

One step is one access to memory that threads share: a load or a
compare-and-swap of a versioned lock, a load or an increment of the clock, the
copy of one word. What happens between two such accesses is private to the
thread and belongs to the step. The variables carry the names of the source.
`pc` says where a thread is:

    idle --Begin--> active --ReadOnlyCopy--> ro_check --> (active | ro_clock --> validate --> ro_check | idle)
                    active --ReadWriteAccept--> rw_copy --> active          (or idle: refused)
                    active --Write--> active
                    active --EndReadWrite--> lock <--> cas --> ... --> validate --Commit--> write <--> stamp
                                               |                  |                           |
                                               +--> rollback <----+        idle <-- release <-+

A read of several words is the same loop once per word, so a client call reads
or writes one word. A versioned lock is the pair `version`, `locked`, accessed
together; `VersionedLock.tla` justifies that. The copies of a word are atomic:
words are 8 bytes, aligned, and `memcpy` of one is a single move on x86-64. The
default memory order of C++ atomics is sequentially consistent, and the word
copies are ordered around them on x86-64; weaker memory is not modelled.

`serial`, `committed_reads`, `observed` and `stale` are history: no action
reads them in a guard (except for the bound `MaxHistory`). `serial[k]` is what
the words are after the first k commits in clock order. An update transaction
enters it in `Commit`, the last step of its validation, at slot
`write_version`, even if later slots have been entered already. `stale` are the
copies that no longer matched memory when the lock was looked at; see the
finding below.

### SerialTM.tla

The promise: transactions take slots of a serial order while they run, commits
change the history from their slot on and may not change anything a committed
transaction has relied on, a transaction never stands before what committed
before it began. `Transaction` implements it (`KeepsPromise`) under the mapping
that ends a transaction when it is decided, before its write-back.

### TransactionInvariant.tla

The inductive invariant `IInv`, in layers: *Shape* (where a transaction is,
which locals are in use; *Fresh* and *Needed*, that it starts with empty sets and
validates only when somebody may have committed since it began), *Locks* (who
holds what, how far a loop has come),
*Memory* (an unlocked word, its version and the history agree; a write-back in
progress), *CoveredReads* (up to which slot a read still stands, and which
writers may disturb it).

### VersionedLock.tla, AtomicVersionedLock.tla

The packed `int`, of given width with wrap-around, and the methods as loads,
stores and compare-and-swaps. The refinement to a lock with one-step methods is
checked for versions below a quarter of the int's values. From 2^30 commits on
a version is read back wrong; the client must stay below.

### TransactionalMemory.tla

Segments between `tm_alloc`, `tm_free` and the sweep, `freeing_lock` as a
reader-writer lock, the counter. The client is that of `grading/workload.hpp`:
it follows links that were in the shared memory at some moment since it began,
unlinks before it frees, and two transactions that unlink the same segment do
not both commit. `undone` is history: segments a transaction freed without
committing.

### SegmentTable.tla

`member` holds the pointers `segments` and `segment_status`, each to a heap buffer
that `realloc` extends in place or moves, one after the other. A call first
loads the pointer, then indexes it: `array` says which of the two it is at. An
entry nobody has written is `Garbage`. `disturbed` is history: a growth has
overlapped another call. The index is fetched in one step and compared with
`MAX_SEGMENTS` in the next, between which others may fetch theirs or grow the table.

### Sync.tla, Barrier.tla

One step is one access to an atomic; `Latch` works under a mutex, so each of
its methods is a step. `at` says where a worker is in `worker_wait` or
`worker_notify`, `master` where the master is in `measure`. The chronometer is
kept as the rounds it has counted in: `total` has one pair per segment added.
`timed` is whether a maximum is given (all libraries but the first); then
`TimeOut` may happen whenever the latch is not raised, and the process is over.
`Verdict` loads and stores the status in one step, as nobody else stores then.

### Bank.tla, Check.tla

The workload, against a library that keeps the promise of `SerialTM`: an
attempt at a transaction is one step, its commit. What an *aborted* attempt
leaves behind matters only in `short_tx`, whose closure counts down indexes it
has captured by reference (`ShortAbort`). The dice of `run` and the trigger of
`alloc_tx` are nondeterministic choices. A transfer takes from one account
before it gives to the other, which may be the same (`Moved`). The counter of `check` lies over the
first word of the bank, which is not read again.

### Grading.tla

Composes the three: a worker's call in a round is `init`, `run` or `check`, and
what it returns goes to `worker_notify`. `Throw` is a transaction the library
refuses to begin (`MaxExceptions` of them), which ends the worker.

### ReferenceTM.tla

The reference library: a transaction holds the reader-writer lock from
`tm_begin` to `tm_end`. What happens under the lock is one step per call.
`prev`, `next` and `allocs` are the list, `allocated` what malloc has given.
Under the mapping that gives an update its slot when it gets the lock it
implements `SerialTM`, the same promise as `Transaction`.

### Program.tla, Counter.tla, Election.tla, ProducerConsumer.tla

`Program` is what the example programs share: threads in rounds, `main`'s
verdict after the join, and `lock.c`. The variable `program` says which one
runs; each has an operator of its name, one step of its threads or of `main`.

`Counter` are the programs with one counter: `counter1` to `counter4`, the
playground, and threads that use the unused spinlock. `counter++` is a load and
a store; in `counter1`, where that is a data race, the store may come several
rounds later. `check_counter` is the playground's own, and in the others the
history of increments made. In `Lock::lock`, `expected` is a variable: the
compare-and-swap overwrites it, and the loop resets it.

`Election` are `election1` to `election4`: the first and the third, which the
source calls incorrect, differ in whether `leader` is atomic and run alike here.

`ProducerConsumer` are `procon1` to `procon4`. A datum has two halves, copied
one after the other, so that a copy made during another is torn. `known` is how
far a side has *learnt*, through the lock or through an acquire of a release,
that the other has come: `RaceFree` asks that a slot is touched only on such
knowledge. In `procon3` a load may return any value not older than the last one
seen. `lock_wait` gives the mutex back and sleeps in one step; it may return by
itself (`Spurious`). The counts and copies between a lock and its release are
steps of their own, as is `lock_wake_up` after the release. `procon1` has no
synchronization, and nothing is claimed of it.

`BoundedQueue.tla` is what the other three promise: a first-in first-out queue
of whole data. `ImplementsQueue` maps it to the slots between the two counts.

### Transactional.tla

One worker in the loop of `transactional`, above a library that may answer each
call as `include/tm.h` allows, or only as `358982`, the reference or the template
do. `handle` is the transaction as the library sees it; a call after an abort
or a commit makes it `misused`, for it is freed memory. `Shared_alloc` and
`Shared_free` are the calls the typed view of a pointer makes, with `assert_mode`
false as in `common.hpp`. `Shared<Type[]>::write` is not a call a closure can
make: it passes one argument too many and does not compile when used.

### Driver.tla

`main` from one library to the next, and `bounded_run` with its mutex, its
condition variable and the thread. `Wait` gives the mutex back and blocks;
`WakeUp` is a wakeup without notification ("early") or after the time ("late").
The measure is three steps: it starts its workers, and either returns after it
has joined them or throws with the workers detached. `TransactionCreate` is
thrown inside the thread, where nobody catches it: `std::terminate`.

### Parts.tla

The parts that are small enough to be checked side by side; which one runs is
chosen in the initial state, and the others stay as they are. Their invariants
are checked together, those of the same kind under one name (`MutualExclusion`
for every lock, `LooksCorrect` for every verdict).

## 3. The runs

| run | instance | shows |
|---|---|---|
| `transactions` | 2 threads: one of both kinds, one of updates; 2 words, 2 values, 2 commits, 2 reads and 1 write each | types, versions against data and history, serializability in clock order, versions only grow, extension of the read version, no refusal without a conflict, `IInv` |
| `locks` | the same threads, 1 value, 2 reads by the reader, 2 calls by an update transaction of which at most 1 reads, fairness | a word locked and written twice, locks after failed acquisitions and validations; every call returns, every lock is released |
| `promise` | 3 threads, 1 read and 1 write each | refinement of `SerialTM`; three concurrent commits interact |
| `snapshot` | one reader, one writer | *violation*, finding 1 |
| `region` | 3 threads, period 2, 3 segments | grace period, no double free, complete sweeps, the sweep comes |
| `aborted_free` | the same | *violation*, finding 2 |
| `table_lost` | 2 threads, table of 2, 3 allocations | *violation*, finding 3 |
| `grading` | 2 workers, 3 rounds, 2 accounts of 1 unit, 2 transactions each, countdown of 2 each, 1 exception | rounds do not overlap, the verdict is true, the barrier holds, the money is conserved, no false alarm, the measure ends |
| `runtime` | the same without transactions | *violation*, finding 4 |
| `reference` | 2 threads, 2 words, 3 segments, 2 updates | refinement of `SerialTM`, integrity of the list |
| `parts` | 3 threads or 2 sides, 3 rounds, buffer of 2, 2 spurious wakeups, a 4-bit int, a table of 2 and 3 allocations by 2 threads, 3 operations per closure, 2 libraries | the safety of all parts, that the lock of a word implements an atomic one and the circular buffers a bounded queue, and that the programs end |
| `bounded_run` | 2 libraries | *violation*, finding 5 |

Why the bounds are enough: two commits give a transaction that began before, one
between and one after each of them, and the validation shortcut
`write_version = read_version + 1` both taken and not taken; two words are the
least on which a read skew or a lock-order conflict shows; two writes per
transaction give a word written twice and two words locked in opposite orders;
`RO_RETRIES = 2` gives a read that succeeds at its retry and one that gives up.
`CLEANING_PERIOD` 2 with three threads has transactions pending when the sweep
is due. In `grading`, three
rounds are two changes of round, into the same and into another kind of call;
two transactions of two workers suffice to open a second segment, fill it,
remove an account of it and free it, and to be refused an account that is gone;
two workers are enough for one to be a whole use of the barrier ahead. In `parts`,
a buffer of two with three rounds is full, wraps around, and has a slot written
while another is read; a table of two takes one allocation, grows at the
second, and again if both threads have seen it full; versions reach the last one that fits; three operations
are an allocation, a free and one more, each refused in every place; the
second library is loaded after everything the first can leave behind. Every
bound is a CONSTANT named as such in its module. `MaxCalls` bounds the reads and
writes of one update transaction together. In `locks` these are two writes, or
a read and a write in either order, so that two transactions invalidate what the
other has read; no step depends on the values, of which one is enough for this
run. `MaxHistory` bounds what read-only
transactions leave in the history; with 0 they leave nothing and read on for
ever, which `locks` needs for liveness.

Symmetry is used in safety runs only. `region`, `aborted_free` and `reference`
do not check deadlock: after `tm_destroy` nothing more is called; nor do
`grading`, `runtime`, `parts` and `bounded_run`: the programs end, or the process.

### Fairness

`Transaction!FairSpec`: weak fairness of `Library(t)`, the steps inside a call;
a thread that is inside a call is scheduled again. Nothing is assumed about the
client, who may stop between two calls. It follows that calls return because of
what the code does: failing instead of waiting, and counting retries.
`TransactionalMemory!FairSpec`: the same, and a client ends the transactions it
begins, without which the sweep could not come. That two transactions do not
abort each other for ever is *not* claimed: the code does nothing to prevent it.
`Grading!FairSpec`: every thread is scheduled; a transaction is not aborted for
ever; and `short_tx`, which `run` repeats with random accounts, is at some time
called with accounts that exist (strong fairness of drawing the first, which is
never removed). The last two are the luck the workload counts on.

`Parts!FairSpec`: every thread of a program is scheduled, alone (weak fairness
per thread); a store is seen in the end by a thread that keeps loading
(`FreshLoad`); a worker goes on with its closure; `main`, the notifying thread
and the clock of `wait_for` go on. No library has to return: in `bounded_run`
the wait for it is bounded, and so are the measures but the first, which end by
what `MeasureEnds` shows of them in the run `grading`. The first has no maximum
(`grading.cpp:301`), so that nothing makes `main` leave it (`Untimed`, `Proceed`).
`ProgramsEnd`, that a program comes to one of the ends there are and stays there,
counts four cases as such ends besides the proper one: `procon2`,
whose side that busy-waits may always win the mutex again, which is not fair;
workers of libraries that abort, who retry for ever if the library says so; a
driver in the untimed measure; and a driver woken early, which is finding 5.
`Driver!DriverFairSpec` is the part of it that is about the driver.

### Findings

1. `read_only_read` copies the word before it first looks at its lock
   (`Transaction.cpp:136`). A writer that has its write version before the
   reader begins can write back, stamp and unlock between copy and look. The
   reader returns the old copy as current and may combine it with a newer word.
2. `tm_free` marks at once, and an abort does not undo it (`tm.cpp:189`). The
   sweep then frees a segment that is still linked.
3. `tm_alloc` indexes `segments` without `allocating_lock` (`tm.cpp:174`) while
   another `tm_alloc` may move it. The entry is lost.

4. `Sync::runtime` is never reset (`grading.cpp:59`), so what `master_wait`
   returns is the time of all rounds so far: the median `measure` takes is one
   of running totals, and the maxima derived from it are too generous.

5. `bounded_run` calls `wait_for` without a predicate (`common.hpp:281`). A
   spurious wakeup counts as the end: `main` joins the thread while its `guard`
   still holds the mutex, on which the thread blocks when it comes to notify.
   Both wait for each other, though the library has returned in time.

More observations have no run of their own. The thread of a creation that was
late is detached, and `main` unloads the library under it: the comment at
`grading.cpp:341` says that this cannot be done, but the constructor stands
outside the `try` it belongs to (exempted in `LibraryStaysLoaded`). An allocation
that fails ends half a closure, which may commit (`DestroyEnd`). The producer of
`procon3` reads the consumer's count with a relaxed load: formally its copy races
with the consumer's (exempted in `RaceFree`). A worker that leaves `check` by
an exception leaves the others in the barrier; `MeasureEnds` makes exactly this
exception. And a retried `short_tx` transfers between other accounts than those
drawn (`ShortAbort`); `MoneyConserved` holds in spite of it.

The passing properties state what holds around these: `Serializable` and
`ExtensionKeepsSnapshot` leave out the copies in `stale`, `GracePeriod` and
`NothingFreedTwice` the segments in `undone`, the table properties what comes
after a `disturbed` growth, `LibraryStaysLoaded` a late creation.

## 4. The proofs

Every theorem is about a specification's every behaviour, for every value of the
constants that the named ASSUMEs of its module allow: sets of threads, workers
and segments of any size (finite where the code counts them, as it does), words,
values, periods, buffer sizes, rounds, widths. Each rests on one inductive
invariant, which TLC has checked on the runs' instances first; per invariant
there is a lemma for the initial state, one per action, and one that combines
them (`Next...`).

### Transactions

`TransactionProofs` has the two lower layers. `TypeCorrect` is `[]TypeOK`: types
are not inductive alone, as `LastWrite` is a CHOOSE, well-typed if a last write
exists (`WritesHaveLast`), and a `pc` decides which locals are in use (`Shape`).
`LocksOwned` is `[]LockOwnership`: a `CleanUp` forgets `locked_set`, which is
right only because the unlock loop has emptied it (`LockProgress`).

`SerializabilityProofs` has the rest. `Invariant` is `[]IInv`. Its two upper
layers depend on each other: a read is still covered at slot k because every
transaction that holds the word and has a slot has a later one (`SlotsAfter`,
`PendingAfter`), and memory agrees with the history because every write-back puts
there what the history has had since the commit (`WriteBack`). Two parts were found by
the proof: a transaction begins with empty sets (`Fresh`), and one whose write
version is the read version plus one looks at no read (`Needed`). From `IInv`:

* `SerializableAlways`, `VersionsDescribe`, `SnapshotExtends`: the invariants;
* `VersionsGrow` (a step changes a word or lowers a version only under the lock, and
  never the latter), `RefusalsNeedConflict` (a transaction alone, with no commit
  since it began, cannot meet any of the conditions that refuse one);
* `PromiseKept`: the refinement of `SerialTM`, one step of the promise or a
  stutter for every action; the commit is `Commit`, the last step of the validation.

### Reference library

`ReferenceKeepsPromise` is the refinement of the same `SerialTM`, with
`ReferenceTypes`. The invariant: the lock is held by the transactions that run,
memory is the last serial state but for what the writer has changed in place,
and nothing committed stands at or behind the writer's slot.
`ListStaysIntact`: the invariant is that the nodes are in some order, each
linked to its neighbours in it. `ListIntact` itself walks the list by
`next`, a recursive function; that the walk meets the nodes in that order is by
induction on its length, stated as "there is no smallest place where it fails" (`Smallest`).

### Region

`GraceKept`, `FreedOnce`, `SweepsComplete` and `RegionTypes` come from one
invariant, `RegionInv`: who is inside `freeing_lock` (`LockHolders`), that no two
calls fill the same entry and nobody has heard of an unfilled one (`Entries`),
that an allocation is its transaction's own until it commits (`Owned`), that a
linked segment is marked only by a transaction that still runs (`Marked`), and
how far the sweep has come. `RegionTypes` says more than types: that the counter
passes `CLEANING_PERIOD` by fewer than the threads there are, for which those who
have yet to count themselves are counted (`CounterBound`).

### Measure

`BarrierHolds` of `BarrierProofs`: `step` is the number of threads counted in and
not yet out (`Counted`), all threads are on one side of the barrier in
each mode (`Sides`), and all have called `sync` n times, or n + 1 once they wait
for the next opening (`Rounds`). In `GradingProofs`, `BarriersHold` carries it
over: every step of `Grading` is a step of this barrier or leaves it alone.

`RoundsStayTogether` and `VerdictStaysTrue` rest on `SyncInv`. It has one part for each
stage of a round (`Idle`, `Arriving`, `Calling`, `Ending`, `Closed`): where the
workers can be, how many calls they have made, and that `nbready` counts those
who have come, or is 0 once the last of them is about to turn the status. That
the last is alone is what makes storing the status and resetting the count in
two steps right. `Failures` follows a failure from the worker to the
status to the master.

`NeverAFalseAlarm` needs all of this and more (`GradingInv`): a worker reports an
error if the first account does not hold its balance after `init`, if a sum
does not come out in `run`, or if a counter is not what it should be in `check`.

* `init` (`InTheBank`): as long as nobody has made a second call, the segments
  are new or exactly those of an open bank, so that the workers may all open it.
* `run` (`Linked`, and `MoneyStaysConserved`): every segment but the last is full,
  and parities and balances add up to `init_balance` for each account. `Bank`
  has its sums as recursive functions. That there is such a function, and only
  one, is proved by the smallest index at which it fails (`Recursion`, `NoOther`);
  then, what a sum becomes when a member is changed, added or removed
  (`SumExcept`, `SumAppend`, `SumFront`), first for the balances of a segment,
  then for the segments (`ReplaceSums`, `AppendSums`, `FrontSums`), and with that
  what each branch of the transactions makes of both (`MovedLinked`,
  `RemoveAccountLinked`, `FreeSegmentLinked`, ...). `SearchFinds` is the search of
  `short_tx`: it ends nowhere or at an account that is there.
* `check` (`Counting`): the counter is the number of decrements outstanding, as
  pairs of a worker and one of its turns (`Outstanding`), or more if a worker was
  thrown out between the first barrier and the third (`Lost`). The first worker
  finds it 0 at its end: `Passing`, what the barriers guarantee, has all
  others at the third barrier by then, thrown out of nothing.

`GradingTypes` is `[]TypeOK` of the whole.

### Parts

`PartsProofs` proves the safety properties of `Parts`, first each part under its own
steps, then for `Spec`, which runs one of them and leaves the others still (`PartsInv`).

* `LocksExclude`, `PartsLoseNothing`: whoever is about to store has loaded the
  present value of the counter; the playground's `expected` is false
  whenever the compare-and-swap is tried, which is what the reset is for.
* `PartsLookCorrect`: the verdict of `counter2`, `counter4` and the playground
  follows from counting the increments made (`Done` is a set of pairs of thread and
  round, whose cardinality the counter has); that of `election2`
  and `election4` from each round having at most one thread past the test (`LeaderOf`);
  that of `procon2` to `procon4` from the buffer's invariant.
* `PartsRaceFree`, `PartsImplementQueue`, from `ProducerConsumerProofs`: the two
  counts are at most a buffer apart and follow the rounds of the sides; what a side
  has seen or knows is not beyond what the other has done; slot `k % BUFFER_SIZE`
  holds datum k, whole, from the producer's count to the consumer's, and half of it
  while it is copied. Two counts less than a buffer apart cannot share a slot (`Slots`).
* `WordLockIsAtomic`: the packed int gives back what it was made of, for every
  width and every version below a quarter of its values (`Packed`).
* `WorkerEndsOnce`: `aborted` and the exception in flight say, where the
  destructor looks at them, what the library has made of the transaction. This
  proof found an error in the model: two arms of a CASE overlapped.
* `SegmentsFound`, `IndexingStaysSafe`, `CapacityKept`, from `TableInv`: `Heap` numbers
  the buffers realloc has returned, and one of them is the array's, though `member`
  may not say so yet (`Current`), of a size `MAX_SEGMENTS` may not say yet (`Larger`,
  `Sized`). That is so whatever else runs. As long as growth is undisturbed,
  who waits for the lock to grow is alone (`Undisturbed`), the indexes beyond the table
are all on their way to be looked at or made room for (`Covered`), so that whoever is
alone with one has the first of them and one growth is enough, and a call's number is its index
  until the indexes are used up (`Leading`).
* `PartsTypes`: besides types, that no round of an election announces more
  leaders than there are threads, in the incorrect programs too, for a thread
  announces at most one in a round it leaves behind (`Announced`).
* `PartsNotified`, `PartsKeepLibrary`: in which stages the thread of `bounded_run`
  exists, and that it cannot be through while `main` has not waited yet, as `main`
  has the mutex.

### Only model-checked

Liveness (`CallsReturn`, `LocksReleased`, `SweepComes`, `MeasureEnds`, `ProgramsEnd`):
the provers installed do not know ENABLED. Every other property of a passing run
is a theorem. The refutations behind the findings are TLC's, of course.

## 5. Not modelled

* Failing allocations: the constructor of `MemorySegment` throws inside a
  `noexcept` function, the process ends.
* The arithmetic of opaque pointers (index in the top 16 bits) and the choice
  of a word's lock by its offset: both are one-to-one on the addresses used.
* What the sweep makes of a status that is `Garbage` (`TransactionalMemory.cpp:66`
  looks at all `MAX_SEGMENTS`), and `delete[]` of memory that came from `realloc`.
* What `tm_destroy` leaks: segments marked since the last sweep, and the region.
* Overflow of the clock (an `int`), and of `n_segments` beyond the bound stated
  in `TableHoldsSegment`.
* Weak memory and torn copies, see above.
* In the grading program: times (a wait is late or is not), the locals of
  `measure` that detached workers still use between a timeout and `quick_exit`,
  and the address arithmetic and the compiled-out checks of the typed views.
* In the example programs: failing `pthread_create`, and `lock_cleanup`, which
  none of them calls.
* `template/tm.cpp` beyond its answers: the headers it includes are only in
  `358982/`, so the file does not build where it is.

## 6. Plan

1. In `TransactionalMemory`, the end of the process when an allocation fails,
   against the `nomem` that `tm.cpp:165` documents.
2. Of the statuses realloc adds, what the sweep makes of them.
3. Proofs: the safety half of the liveness properties, that whatever the fairness
   a thread inside a call always has a step to take, as far as it can be stated
   without ENABLED.
