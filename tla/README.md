# Specifications of yarn

yarn runs a sequential loop speculatively on several threads.  The loop is cut
into *epochs*, one per iteration.  Worker threads execute epochs out of order,
a dependency tracker buffers what they store and finds out when a later epoch
read a value too early, epochs that did are rolled back and executed again, and
finished epochs are committed in order.  The directory holds TLA+ models of the
library `libyarn` and of the analysis in the compiler passes `yarnc`, the TLC
runs that check them and the TLAPS proofs.

## 1. Inventory

| part | code | state | operations | modelled in |
|---|---|---|---|---|
| timestamp | `timestamp.h` | a word | init, sample, inc, inc_eq, comp | `Timestamp` |
| epoch ring | `epoch.c` | status of each slot, `first`, `next`, `next_commit`, `stop`, rollback flags, two mutexes, a condition variable | next, do_rollback, rollback_done, stop, set_done, get_next_commit, commit_done | `Epoch` |
| worker loop and lifecycle | `yarn.c` | what each thread is doing; what is initialised | `pool_worker_simple`, `yarn_exec_simple`, init, destroy | `EpochClient` and `Yarn` (the worker), `Lifecycle` |
| dependency tracker | `dependency.c` | per address: read and write flags, write buffer, last commit; per slot: list of addresses | store, load, commit, rollback, init, reset, destroy | `Dependency` in `Yarn`, `FlagWord`, `Lifecycle` |
| bit fields | `bits.h` | none | masks, first and last bit, packing | `Bits` in `FlagWord` |
| map | `map.c` | tables, resize state, users of a table | probe, resize; init, reset, destroy | `Map`; `Lifecycle` |
| thread pool | `tpool.c` | posted task, mutex, condition variable, barrier | exec, worker loop, init, destroy | `TPool`; `Lifecycle` (failures) |
| allocator, store | `pmem.c`, `pstore.c` | per-thread free lists and cells | init, alloc, free, destroy | `Lifecycle`, as resources |
| atomics, timers | `atomic.h`, `timer.*` | none | builtins, clocks | not: see section 9 |
| compiler passes | `yarnc/` | the dependencies of a loop, the calls to insert, the array of entries | analyse a loop, instrument the function around it | `LoopInfo`, `InstrumentLoop` |
| benchmark | `yarnb/` | none | timing | not |

How they interact.  `yarn_exec_simple` resets the tracker and the ring and posts
`pool_worker_simple` to the thread pool.  A worker repeats: `yarn_epoch_next`
(may wait on `g_next_cond`); if the slot had been rolled back,
`yarn_dep_rollback` then `yarn_epoch_rollback_done`; the executor, which calls
`yarn_dep_load` and `yarn_dep_store`; `yarn_epoch_stop` if it broke out of the
loop; `yarn_epoch_set_done`; then it commits every epoch it can
(`yarn_epoch_get_next_commit`, `yarn_dep_commit`, `yarn_epoch_commit_done`).  A
store that finds the read flag of a later epoch calls `yarn_epoch_do_rollback`.
The ring and the tracker share the index of a slot: `epoch % epoch_max`.  The
tracker finds the record of an address in the map.  `yarnc` produces the
functions that call all this: it decides which values and pointers of a loop
iterations depend on each other through, puts the calls of `yarn_dep_load` and
`yarn_dep_store` into the body, and has the array of entries filled before
`yarn_exec_simple` and read after it.

What is hard here.  All the threads share the ring.  `yarn_epoch_next` and
`yarn_epoch_do_rollback` hold a mutex; `yarn_epoch_set_done`,
`yarn_epoch_get_next_commit`, `yarn_epoch_commit_done`, `yarn_epoch_stop` and
`yarn_epoch_rollback_done` do not, and read several words one after the other
before they compare-and-swap one of them.  Cursors move backwards (`next`) and
forwards, slots are used again, several threads may end the loop at different
places, wakeups are rationed, and words overflow.  The tracker and the map take
no lock to read: a load looks at flags, cursors, a buffer and `last_commit` one
after the other, and a probe may run into a table that is being moved.  Every
function that acquires something has an error path.  The list of hazards, each at
its line and with the properties that cover it, is in `PROJECT.json`.

What makes each part correct.

* timestamp: the comparison orders values as they were taken.
* ring: one user per slot; no epoch is committed that can still be rolled back;
  no rolled back epoch is forgotten; the loop ends where the sequential one
  does; everybody leaves.
* tracker: a committed epoch read what the sequential loop would have read; the
  memory ends up as the sequential loop leaves it.
* flag words: the two halves are the epochs that read and wrote, and the masks
  select the epoch the tracker means.
* map: one value per key that never changes, and every probe returns.
* pool: `yarn_tpool_exec` returns when every worker did, and only then.
* lifecycle: on every error path the flags tell what exists.
* compiler: on every way through an iteration each dependency is loaded before
  it is used and stored as the next iteration needs it.

## 2. Plan

| order | modules | what | state |
|---|---|---|---|
| 1 | `Timestamp`, `TimestampProof` | comparison across an overflow | done |
| 2 | `Epoch`, `EpochClient`, `Timeline`, `EpochSafetyProof` | the ring under its workers, the abstract order of commits | done |
| 3 | `Bits`, `FlagWord`, `FlagWordProof` | masks, `log2`, `trailing_zeros`, index to epoch, in the use the tracker makes of them | done |
| 4 | `Dependency`, composed with `Epoch` in `Yarn`; `SequentialLoop` | loads, stores, violation check, commit and rollback of values; refinement of the sequential loop | done |
| 5 | `TPool`, `ForkJoin`, `TPoolProof` | posting, barriers, end of a task, shutdown; refinement of fork and join | done |
| 6 | `Map`, `Dictionary` | probe and cooperative resize refining a dictionary; probes return | done |
| 7 | `Lifecycle`, `LifecycleProof` | `yarn_init`, `yarn_exec_simple`, `yarn_destroy` when any acquisition may fail | done |
| 8 | `LoopInfo`, `InstrumentLoop` | the analysis of a loop in `yarnc` and the function around it | done |
| 9 | `YarnProof` | the tracker under the ring for every loop: lists and flags, commits, final memory, refinement of the sequential loop | done |
| 10 | `EpochSafetyProof`, second part | where the loop ends, and where its bound stays, for every ring and number of threads; the steps of `Timeline` | done |
| 11 | `MapProof` | the map for every hash, capacity and set of threads: the types, a table that nobody probes while it moves, items that are found, the refinement of the dictionary | done |
| 12 | `LifecycleProof` | the error paths for every set of failures the code handles | done |
| 13 | `FlagWordProof` | the packed flags and the masks for every ring and both word sizes | done |
| 14 | `LoopProof` | the instrumentation of a loop, for every loop of the form its hypotheses describe | done |

## 3. Modules

**`Timestamp`.** A word has `4 * Quarter` values.  `Comp` is
`yarn_timestamp_comp` branch by branch, `Wrap` the unsigned arithmetic.  The
machine increments a timestamp and samples it; two ghosts count without
wrapping, so that the property can say what the order should have been.

**`Epoch`.** The shared words of `epoch.c` and, for each thread, a label `pc` and
the locals that survive a step.  It is a library of actions: one per atomic step
of each function.  `next*` labels are `yarn_epoch_next`, `rollback*` are
`yarn_epoch_do_rollback`, `commit*` is `yarn_epoch_get_next_commit`,
`commit_done` to `signal` are `yarn_epoch_commit_done`.  A lock has an owner, a
condition variable a set of waiters: waiting adds the thread and frees the lock,
the thread then has to take the lock again at the label `next`.  What the code
does without a lock is one step per read or write.  Where several reads are one
step, a comment on the action says why nothing is lost: the words read cannot
change (the lock is held), or change in one direction only.  A
compare-and-swap loop on one word whose attempts have no other effect
(`set_rollback_status`, `set_rollback_flag`, `yarn_epoch_set_done`) is one step.
`rollback_stop` and `update_stop` keep theirs, because the value they write is
computed before.  The asserts of the code are guards: a thread that would fail
one is stuck, and `AssertsHold` says that it never is.

Epochs are integers, not words: `CursorOrder` and `StopNearFirst` bound how far
apart the words that are compared can be, and `Timestamp` shows that words that
close are ordered like integers.

**`EpochClient`.** The workers.  `Kernel` is the disjunction of the steps of
`epoch.c`; `Body` stands for the loop body and the tracker.  The sequential loop
breaks in the iteration `LastEpoch`, and every iteration after that one would
break too.  An execution may
  * start a rollback of any later epoch that was given out and has no rollback
    flag (`StartRollback`: what `dep_violation_check` can compute);
  * return what it should (`Return`), or, if it read a value that an earlier
    running epoch has yet to store, the opposite (`Misread`).  The ghost `debt`
    then makes that earlier epoch roll it back before it ends, which is what the
    tracker promises;
  * return the wrong value because it is rolled back already (`MisreadLate`);
  * fail (`Fail`).

**`Timeline`.** The promise: iterations are claimed in order, none after the last
one, at most a ring's worth at a time, then retired, and then the loop is over.
`EpochClient!ImplementsTimeline` maps `next_commit`, `first` and "every worker
returned" to it.

**`TPool`.** One thread calls `yarn_tpool_exec` and `yarn_tpool_destroy` (and
`yarn_tpool_init` again after that), `Size` workers are in `worker_launcher`.
`call` and `pc` say where they are.  A critical section is one step, except that
of the caller, which keeps the lock between its look at `g_pool_task`
(`CollectLook`) and its wait (`CollectWait`).  Of the other shared words only
`g_pool_task` is written without the lock at a moment when somebody reads it under
the lock, by `Clear`, so `Clear` is the step that can fall in between.  `waiters`
is the one condition variable.  A barrier that serves two
meetings has no memory of which one it is: `BarrierPass` lets everybody through
once all workers are at either of them.  Tasks are numbered by call, so that a
task of the last call and one of this call are told apart.

**`ForkJoin`.** The promise of `yarn_tpool_exec`: fork on `count` workers, each
works once, join with the news of any failure.  `TPool!Abstract` maps the call in
progress, the workers that ran the task (the ghost `ran`) and those that
returned false (the ghost `bad`) to it; `count` and the result of the call are the
code's own.

**`Dependency`.** The record of an address (`struct addr_info`): `readers` and
`writers` are the two halves of its flag word as sets of slots, `wbuf` its write
buffer, `link` and `head` the lists of the records of a slot.  It EXTENDS `Epoch`
with one action per access to shared memory.  `Load*` is `load_from_wbuf`: set the
read flag and take the write flags (one compare-and-swap), mask with the rollback
flags, choose an epoch, read its buffer, check `last_commit`, or read memory.
`Store*` and `Violation*` are `store_to_wbuf` and `dep_violation_check`, `Commit*`
is `yarn_dep_commit`, `Undo*` is `yarn_dep_rollback`.  A record is named by its
address, which is what `Map` shows of `yarn_map_probe`; sets of epochs stand for
masks, which is what `FlagWord` shows of them.

**`Yarn`.** The worker again, with a loop body that really loads and stores: a
`Program` is a sequence of iterations, each a sequence of operations.  A value is
the position in the sequential run of the store that wrote it, or `Garbage` when
the execution that wrote it had read a wrong value.  So a value is right exactly
if it is the one the sequential run reads there, whatever the loop computes from
it.  With `DataDependent` an execution that misread may also store elsewhere or
not at all.  Whether an iteration breaks depends on its number only; misled breaks
are in `EpochClient`.

**`SequentialLoop`.** The promise of the library: memory goes through the states of
the loop run by one thread.  `Yarn!Loop` maps `next_commit` to the iteration, and
the memory to what is in memory plus what is buffered by claimed commits.

**`Bits`, `FlagWord`.** `Bits` is `bits.h` on words of `WordBits` bits, of either build: a
32-bit word is four tables of `yarn_bit_log2` wide, a 64-bit word eight.  A word that
holds bits is the set of their positions, so that `&` and `|` are `\cap` and `\cup` and a
shift moves the positions; a word that counts, like an epoch, is a number that wraps.  `FlagWord`
is one record while epochs begin, read, write, commit and are undone; ghosts count
without wrapping and remember who set which flag.

**`Map`, `Dictionary`.** `Map` has one action per read, write or atomic operation on
`struct yarn_map`, in three groups: the probe, the master of a resize, the helpers.
A helper is a subroutine, called from a probe or the master's sweep; `caller` is
where it returns to.  `Dictionary` is the promise: each call finds or adds its key
in one atomic step, and the first value added for a key is every later answer.

**`Lifecycle`.** The library as the set of resources that exist and the flags and
pointers the code decides by.  A function is the set of its outcomes, one per
acquisition that may fail, each with the cleanup of that label.  Ghosts collect
what is leaked and what is used or destroyed while it does not exist.

**`LoopInfo`, `InstrumentLoop`.** A loop is a control flow graph of blocks of
instructions, those outside it that give it its first values included, with its dominator trees and its alias relation as LLVM gives them;
`WellFormed` is what LLVM promises of it, and an assumption on the loops.
`LoopInfo` has one action per instruction or pointer that `YarnLoopInfo.cpp` looks
at: header phis, pointers stored and loaded, exit phis, invariants, then the
positions of the calls (`FindLoadPos`, `FindStorePos`) and the array of entries.
The variables `block` and `next` are how far the loop of the code is that runs: over the
instructions, the exit phis, the dependencies, the entries.
`InstrumentLoop` is what the function around the loop does with that array.
`MCLoop` enumerates loops.  Where the compiler would fail an assertion, follow a
null pointer or recur without end the state machine goes to `"fault"`.

Definitions announced as mutants are not part of the models.  Each is the
defective form of the definition below it, and a run in which it replaces the
original violates the property `PROJECT.json` names.

## 4. Properties

Of the ring:

* `SlotExclusive`: a slot is used by one thread at a time, to run or to commit.
  `epoch.c:51` takes this for granted ("only one active for a given epoch").
* `CursorOrder`: `first <= next_commit <= next <= first + epoch_max`.
* `AssertsHold`: the four asserts; for a commit, as long as it lasts.
* `StatusByRange`: the comment at `epoch.c:397`, made precise: the status of a
  slot says between which cursors its epoch is whenever the lock is free.
* `FlagImpliesUndo`: no rollback flag is left behind for a valid execution.
* `StopNearFirst`: the reason `update_stop` exists.  The bound is one turn of the
  ring plus one epoch per thread; TLC refutes anything smaller.
* `EndsAtBreak`: the loop ends where the sequential one does.
* `CursorsAdvance`: what the lock-free readers rely on.
* `Termination` and `ImplementsTimeline`: everybody leaves, after the right
  commits in the right order.

Of the thread pool:

* `TaskAlive`: the task the caller frees is in nobody's hands.
* `MeetingsApart`: one barrier is enough for two meetings.
* `ImplementsForkJoin`: exactly the asked workers run the task, once each, before
  the call returns, and the result is theirs and not that of the task before.
* `TaskEnds`, `ShutdownEnds`: no worker sleeps through a post or a shutdown.

Of the tracker under the ring:

* `SequentialResult`: when every worker is done, memory is what the sequential loop
  leaves (`test/check_yarn.c:83-84`).
* `CommitsRight`: an epoch whose commit is claimed stored what its iteration stores,
  and nothing else.  This is where the violation check has to have found every
  misread value in time.
* `ListsMatchFlags`: every flag is on the list of its epoch, so that commit and undo
  clear it before the slot is used again.
* `ImplementsLoop`: commits of several epochs at once never put an older value over
  a newer one, lose one or show one too early.

Of the flag words: `FlagsExact` (no flag survives its epoch or touches another's),
`LoadSelects` and `StoreSelects` (the masks and searches pick the epoch that the
tracker is defined by, wherever the live epochs lie on the ring).

Of the map: `TableClosed` (nobody probes a table that is being moved), `Findable`
(every key in one place, and no free bucket before it), `ImplementsDictionary`,
`ProbeReturns`.

Of the lifecycle: `FlagsTell` (an initialised library has everything, any other one
nothing), `NoMisuse`, `ExecRestores`.

Of the compiler: `LoadsDominate`, `ValuesStored` (also when the loop is left in the
middle; a call that stands in front of what it stores holds nothing; values that a phi of
the loop merges are excepted, since those are stored in front of the phi), `RecordsRight`,
`HandoverRight`, `NoFault`.

Three statements of the documentation or the tests are refuted by a run, and more by
the configurations of section 6.

## 5. Runs

| run | instance | shows |
|---|---|---|
| `timestamp` | word of 16 values, 40 increments | `TypeOK`, `ComparesAsTaken` over two and a half overflows |
| `epoch_safety` | 2 threads, ring of 4, `LastEpoch` 6, 2 rollbacks, errors, spurious wakeups | the nine safety properties |
| `epoch_liveness` | 3 threads, ring of 2, `LastEpoch` 1, 1 rollback, fairness | `Termination`, `ImplementsTimeline`, no deadlock |
| `yarn` | 2 threads, ring of 4, 4 iterations on 2 addresses | `TypeOK`, `CommitsRight`, `SequentialResult`, `ListsMatchFlags`, `ImplementsLoop`, no deadlock |
| `flag_word` | words of 8 bits, ring of 4, 9 epochs | `FlagsExact`, `LoadSelects`, `StoreSelects` |
| `map` | 2 threads, 3 keys that collide, a table of 2 that grows once, fairness | `TypeOK`, `TableClosed`, `Findable`, `ImplementsDictionary`, `ProbeReturns` |
| `tpool` | 3 workers, 2 tasks on 1 to 3 of them, shutdowns, 2 spurious wakeups, fairness | the six properties of the pool |
| `lifecycle` | 17 fallible acquisitions, any sequence of calls | `FlagsTell`, `NoMisuse`, `ExecRestores` |
| `loops` | 2,363 loops | `LoadsDominate`, `ValuesStored`, `HandoverRight`, `RecordsRight`, `NoFault` |
| `tpool_wakeup` | 2 workers, 1 task, fairness | `ExecReturns` is violated: the caller waits for a broadcast that has been |
| `error_hang` | 2 threads, ring of 2, errors, fairness | `ErrorStopsAll` is violated: a failed worker leaves the others waiting |
| `yarn_stray` | 2 threads, ring of 4, addresses that depend on values | `SequentialResult` is violated: the value of a rolled back execution is read after its rollback flag is cleared |

Bounds.  `MaxRollbacks` bounds how many rollbacks are started and owed over the
whole history, two being the least in which an epoch is rolled back again while it
is being undone.  In the code the ring has twice as many slots as the pool has
threads (`yarn_epoch_max`), up to 32: two threads and four slots are the smallest
ring it builds for a parallel loop.  A ring that is not larger than the number of
threads exists only in pools above 32 threads; the liveness run uses it because
it is the one in which a thread does find the ring full.  Seven
iterations on four slots use every slot again.  Deadlock is checked in the
liveness run; the safety run turns it off because a failed worker does stop the
system, which `error_hang` shows; the two runs of the pool turn it off because the lost
wakeup stops the pool, which `tpool_wakeup` shows.  Three workers are worker 0, which
ends tasks, one that takes part in a task and one that does not; two tasks are
enough for the second to be posted before the workers left the first.

`LateBreaks` is `FALSE` in the safety run: then no execution breaks by mistake at
the same time as a rollback.  Without this restriction `EndsAtBreak` fails
(`MCEpochLateBreak`); with it, the rest of the protocol is shown to be right.

The program of the `yarn` run has what distinguishes the cases of the tracker: a
load before and after the own store, a second store to an address, an address
only some iterations store to, and a load of a later value.  The break is in the
fourth iteration and the ring has four slots, so speculation beyond it uses the
slots of committed epochs again.  The threads are symmetric.  `DataDependent` and
`Delays` are `FALSE`: with either one `SequentialResult` fails (`yarn_stray`,
`MCYarnDelay`).

The `flag_word` run goes around its ring more than twice, with ranges that wrap and
ranges that do not.  Words of eight bits have four flags per half, the size of the
ring, as the largest ring of the code fills its halves.

In the `map` run the hashes make two keys collide in the small table and part in
the large one, and the third meet them by probing around the end of the table.
Capacity and load factor are scaled down so that the second key starts a resize,
and there is one key more than there are threads, so that threads add keys before,
during and after it.  The table grows once: a second resize breaks `TableClosed`
(`MCMapResizes`).

The `lifecycle` run leaves out three failures that the code does not handle: the
condition variable of the ring (`epoch.c:104`), the worker threads and the larger
table of a reset.  It builds with `NDEBUG`, in which init_dep recovers.

The loops of the `loops` run have the blocks `H -> A -> L -> H`, `H -> B -> L` and
the exit `L -> X`, with or without a break `A -> X`, and two variables.  The block
`P -> H` before the loop computes what the variables start from.  A variable
is updated in the header, the latch, both branches, or one branch while the other resets
it to a value of `P`; or it is computed anew and used only after the loop.  It may be
read in the header, a branch or the latch, and used
after the loop or not.  A third part is a set of accesses through three pointers, two
that always alias and one that may; with such accesses the second variable is updated and
not read, which keeps the number of loops down.  One more loop has as many calls as
instructions.  The forms that break the compiler are left out by `Sensible`, `Led`,
`Updates`, `Scattered` and `SameEntry`, and are each shown in section 6.

`ValuesStored` excepts the dependencies with a value that a phi inside the loop merges: such a
value is stored in front of its phi, so that the memory does not hold it (`MCLoopMerge`).

## 6. Known divergences, and further configurations

The configurations in this table are beside the runs; `tlc -config X.cfg M` with the
module named shows what the last column says.  The cases they show are excluded from
the passing runs by the constant or bound in the third column, and from nothing else.

| configuration | module | excluded by | result |
|---|---|---|---|
| `MCEpochFlags` | `EpochClient` | | `FlagsMatch` fails: `yarn_epoch_rollback_done` clears the bit of an epoch that was rolled back again (`epoch.c:425`) |
| `MCEpochLateBreak` | `EpochClient` | `LateBreaks` | `EndsAtBreak` fails: an execution that is rolled back already calls `yarn_epoch_stop`, and nothing undoes its bound (`yarn.c:141`) |
| `MCYarnDelay` | `MCYarn` | `Delays` | `SequentialResult` fails: no compare-and-swap orders the buffer write of a second store (`dependency.c:565,717`) |
| `MCYarnWild` | `MCYarn` | | passes: `ListsMatchFlags` and `Termination` hold even with `Delays` and `DataDependent` |
| `MCMapResizes` | `MCMap` | `MaxLoad`: the table grows once | `TableClosed` fails: a helper of one resize enters the table after `resize_helper` without looking at `resize_state` again, in the middle of the next (`map.c:173`) |
| `MCMapRand` | `MCMap` | `RoundsUp` | `TransferInTable` fails: `(float) rand() / RAND_MAX` may be 1 (`map.c:338`) |
| `MCFlagWordOverflow` | `FlagWord` | `Start` | `StoreSelects` fails: `dep_violation_check` compares epochs as plain numbers (`dependency.c:668`) |
| `MCFlagWordRing` | `FlagWord` | `Ring` | `FlagsExact` fails: a ring that does not divide the range of the counter has two live epochs in one slot at the overflow (`epoch.c:69`) |
| `MCLifecycleReset` | `Lifecycle` | `Fallible` | `Recovers` fails: a `yarn_map_reset` that fails leaves a null table with the old capacity, which the recovery of `yarn.c:38` follows (`map.c:137`) |
| `MCLifecycleThreads` | `Lifecycle` | `Fallible` | `PoolCleanedUp` fails: the cleanup of `yarn_tpool_init` frees the pool and leaves `g_pool` set (`tpool.c:121`) |
| `MCLoopFinish` | `MCLoop` | | passes: `Finishes`, if a loop stores to each pointer that it loads from |
| `MCLoopRead` | `MCLoop` | no fairness in `loops` | `Finishes` fails: no branch of the loop over `LoadSet` advances the iterator (`YarnLoopInfo.cpp:359`) |
| `MCLoopSplit` | `MCLoop` | `Scattered` | `LoadsDominate` fails: if the common dominator of the reads has none, the call is put behind its terminator (`YarnLoopInfo.cpp:511`) |
| `MCLoopMerge` | `MCLoop` | exception of `ValuesStored` | `StoredValueDefined` fails: a value merged by a phi is stored in front of it (`YarnLoopInfo.cpp:591`) |
| `MCLoopConstant` | `MCLoop` | `Updates` | `NoFault` fails: `findStorePos` asserts that the value is an instruction (`YarnLoopInfo.cpp:552`) |
| `MCLoopExit` | `MCLoop` | `Led`, in `SoundLoops` | `NoFault` fails: the null header of an exit-only dependency is followed (`YarnInstrumentLoop.cpp:994`) |
| `MCLoopEntry` | `MCLoop` | `SameEntry` | `FallbackStarts` fails: of two variables that start from one value only the first goes on (`YarnInstrumentLoop.cpp:990`) |
| `MCLoopFlag` | `MCLoop` | `Updates` | `ValuesStored` fails: a value after the loop that is one constant or another is never stored (`YarnLoopInfo.cpp:293`) |
| `MCLoopStored` | `MCLoop` | `Accesses` | `InvariantsPassed` fails: a value that the loop only stores is not passed (`YarnLoopInfo.cpp:198`) |

With `Updates = {"H", "L", "maybe"}`, `Scattered = TRUE` and `Loops <- AnyLoops` the
configuration `MCLoopConstant` violates `NoFault` in another way: two phis that refer to
each other recur without end (`YarnLoopInfo.cpp:528`).

Seen while reading, and in no configuration: `map_item_destruct` destroys the lock of a
record twice (`dependency.c:132-135`); the free lists of the allocator are
destroyed under an inverted condition, so that they leak (`pmem.c:64`, the
`leaked` ghost of `Lifecycle`); a failed `pthread_cond_init` in `yarn_epoch_init`
destroys the condition variable and not the lock before it (`epoch.c:104`).

## 7. Fairness

`Fairness` is weak fairness of each worker.  The threads are scheduled by the
operating system, and no function of `epoch.c` blocks other than on the two mutexes
and the condition variable.  Nothing more is assumed: no strong fairness of the
locks and none of the wakeups.  `Signal` chooses any
waiter.  Spurious wakeups are not assumed in the liveness run, so that
termination does not depend on them.

In `Yarn` and `Map` it is weak fairness of each thread: `Worker(t)` and `Step(t)` are
everything a thread does on its own, and nobody has to call `yarn_map_probe`.  A
thread that spins on a word takes a step only when the word lets it out.  The
compiler is one sequential program, fair as a whole (`MCLoopFinish`).

In the pool it is weak fairness of each worker, of worker 0 where it ends a task,
of the barrier, and of the caller inside a call.  Nobody has to make a call
(`NewCall` is not fair), the function a worker runs is assumed to return, and no
spurious wakeup has to happen.

## 8. Proofs

* `TimestampProof`: `TimestampsCompare`, for every `Quarter` and `Horizon`.
  `CompLater` is the lemma: for `0 <= d <= Quarter`, comparing `n` and `n + d`
  modulo the word gives the sign of `-d`.  It follows from how the quarter of a
  sum depends on the quarters of the terms.
* `EpochSafetyProof`: `TypeCorrect`, for every set of threads, every ring of two slots
  or more and every bound, and the arithmetic of `Index`: two epochs less than a
  turn apart have different slots.  Then `SlotsExclusive`, `CursorsOrdered`, `AssertionsHold`,
  `StatusFollowsCursors`, `FlagsImplyUndo`, `CursorsOnlyAdvance`.

The safety properties are not inductive by themselves.  `Inductive` adds, in named
parts: who holds which lock (`LockInv`); what a running epoch is (`RunInv`); how
far a rollback has come (`ScanInv`); what the lock-free reads of a commit have
established (`CommitInv`, `FirstInv`); and the status of the slots in the three
ranges between the cursors, also while a lock is held (`CommittedInv`,
`ClaimedInv`, `FreeInv`).  The heart of the argument is `CommitInv`: once
`get_next_commit` has seen `to_commit` below `next` and done, this stays true for as
long as its compare-and-swap can succeed, because only a rollback from an earlier
epoch could change it, and every earlier epoch is committed, so that none is
running.  For each part there is a lemma for the steps of `epoch.c`, one case per action, and one
for the other steps.  The assumptions are `EpochMaxAssumption` and
`NoThreadAssumption`.  Nothing is assumed of `LastEpoch`, `MaxRollbacks` and the
switches: the seven theorems hold with late breaks, errors and spurious wakeups.

* `EpochSafetyProof`, second part: `LoopEndsAtBreak`, `FollowsTimeline` and
  `StopStaysNear`, what `g_epoch_stop` is there for.

`LoopEndsAtBreak` states `EndsAtBreak` under `~LateBreaks`, the hypothesis of the run;
without it the property is false (`MCEpochLateBreak`).  `EndInv` is the invariant.  A
thread is `Obliged` to an epoch `e` when it has yet to store what an epoch up to `e`
has misread; it then becomes one that `Undoes` `e`, until the scan of its rollback has passed
`e`, and that `Reverts` the bound `e` has set, until `rollback_stop` is over.  `Doomed(e)`
and `BoundDoomed(e)` say that there is such a thread.  A bound is not set, not too low,
or doomed (`BoundOK`), which is also true of the copy `yarn_epoch_next` has read, since
it holds the lock no rollback can go on without.  Once the iteration
`LastEpoch` is done, or its commit claimed, the bound is `LastEpoch + 1` or that
iteration is doomed (`LastDone`, `SettledStays`).  A threat runs an epoch that is not
committed (`ThreatFacts`), so for `first` itself, and for a claimed commit, nothing is doomed
any more: `commit_cas` is not reached by `LastEpoch + 1`, and nobody leaves before.
`FollowsTimeline` draws the safety half of `ImplementsTimeline` from the same
invariant, step by step (`TimelineStep`).

`StopStaysNear` states `StopNearFirst`, with late breaks too; the bound counts threads,
which have to be finitely many.  `StopInv` counts: for each `s` from the bound to
`first`, the claimed commits outrun `s` by one turn of the ring and one epoch for each
thread in `yarn_epoch_commit_done` that does not leave it with a bound of `s` or
less (`Raisers`).  A claim adds such a thread; one that writes the bound moves it past `s`;
one that is about to write `s` or less has read `first` so late that `s` is near enough.
The case where the ring is full of claimed commits needs `SomebodyRetires`:
an epoch whose commit was claimed and that is still `first` has a thread that is
going to retire it, although `FirstCheck` lets a thread leave over a stale read.

* `TPoolProof`: `PoolTypeCorrect`, `TaskStaysAlive`, `MeetingsStayApart` and
  `PoolImplementsForkJoin`, for every number of workers, of tasks and of spurious
  wakeups.  `Inductive` adds that the workers go around together (`Together`: all
  before the first meeting or all behind it, which is why one barrier does);
  that a task is posted during a call only (`CallInv`); that who is on the way to
  the first meeting holds the posted task (`HoldInv`); and who has run it
  (`RanInv`: at the first meeting exactly the workers below
  `g_pool_thread_count`).  The refinement follows step by step in `PoolStep`.
  The assumption is `SizeAssumption`, with the bounds of the model in `Nat`.

* `YarnProof`: `TrackerTypes`, `RingSafe`, `ListsFollowFlags`, for every loop, ring and
  set of threads and with `Delays` and `DataDependent` too.  Nothing of the ring is
  proved twice: `Client == INSTANCE EpochSafetyProof` maps the labels of the tracker to
  those of the abstract loop body (`Phase`), `Simulates` shows that every step of `Yarn`
  is one of `Kernel` or one the lemmas of `EpochSafetyProof` allow for (`Uses`), and `RingInv` is
  `EpochSafetyProof`'s `Inductive` under that mapping, with the types.  `ListsInv` says
  that the records with a flag of a slot are those on its list, each once, up to the
  record in the hands of the owner of the slot; that a slot has one owner is
  `SlotExclusive`.
* `YarnProof`, second part: `CommitsAreRight`, `ResultRight`, `LoopRefinement`: what the library
  is for.  The hypotheses are `~DataDependent` and `~Delays`, and both are
  needed: the run `yarn_stray` and `MCYarnDelay` show what happens without them.

The argument of the second part.  An execution may misread, since it may run before
the iterations it depends on; what has to be shown is that no such execution is
committed.  A thread `u` is a `Threat` to an epoch `e` after its own if it has yet to store
where `e`, or an epoch before it, has read (`Misses`); has stored, and is about to
find that read among the flags (`Finds`); or is rolling back up to there (`Undoes`).
`Doomed(e)` says that there is such a thread.  `ThreadOK` says that what an execution
has read, holds in its locals, or has stored is right or the execution is doomed; `DoneInv` the same of one that
is over.  `DoomedStays` is the longest part: a threat turns into the next kind, until
the status of `e` says that it is rolled back.  A threat runs an epoch that is not yet committed, so the
epoch whose commit is claimed is not doomed (`NoThreat`) and hence right (`ClaimInv`).
`FlagsInv` (write flags are where the iteration stores), `PastInv` (`last_commit` is the
latest commit that stored there) and `MemoryInv` (memory holds that value) carry this to the end.
For the refinement, `MemoryRelies` shows that memory together with the buffers of claimed commits
is the memory of the sequential loop after as many iterations, and `ValueStep` that
these differ by one iteration.  That the loop ends where it should is `EndInv`: once the last
iteration is done and not rolled back, `g_epoch_stop` is `LastEpoch + 1`, which
`commit_cas` and `next_stop` have to see; it needs neither hypothesis.

* `MapProof`: `MapTypes` and `HelpersStayInside`, for any number of resizes, and
  `TableIsClosed`, `ItemsFindable` and `DictionaryRefinement`, for a table that grows
  once.

All of `MapProof` holds for every finite set of threads, every hash function, capacity,
load factor and helper threshold.  It assumes `~RoundsUp`: with a random number that is
rounded up to 1 a helper leaves the table (`MCMapRand`).  The last three theorems also
assume `GrowsOnce`, that a table of twice the first capacity does not reach its load
factor with all keys in it: with a second resize all three properties are
false (`MCMapResizes`, with the other two in the place of `TableClosed`).  The instance of the run has both.

`Shape` is the invariant behind the first two: every variable has its type, the counters
count their threads (`CountInv`, `Users` and `Helpers`), there is one master, whose label tells how far the resize is
(`MasterInv`), and what a label tells of the locals (`LabelInv`).  `Safe` adds three
groups.  Who is at the table: there is one resize (`OnceInv`), and when the master has
seen `user_count` at 1 the threads that enter anyway leave again (`ClosedInv`), so that
a thread that probes and one that moves an item are never there together
(`UserWhenStable`, `MoverWhenNotFresh`).  Where the items are: each bucket holds a key
that was added, with the first value or with none while the thread at that bucket has
yet to write it (`OldInv`, `NewInv`); a key is in one bucket of one table or in one
thread's hands (`UniqueInv`), and it is somewhere (`SomewhereInv`); no bucket between
the one of its hash and its own is free (`PathInv`, in terms of `Dist`, the number of
steps a probe takes to a bucket).  What the threads know: a probe has seen neither its key nor a free
bucket so far (`ProbeInv`), so that a key it claims a bucket for is new (`ClaimIsNew`);
a transfer holds an item that is gone from the table, and every bucket the master has
passed is empty (`MoveInv`), so that nothing is left behind at the swap.  `SizeInv`, that
`size` and the threads about to count make up the keys, is what bounds the number of
resizes.  The refinement takes the successful compare-and-swap on an address for the
insertion, and the end of the call for the return.

* `LifecycleProof`: `FlagsAlwaysTell`, `NothingMisused` and `ExecAlwaysRestores`, for every
  set of resources that may fail to be acquired and every sequence of calls.

There is a lemma for each function of the library: it acquires all that it is for, or,
if a step fails, gives back what it had acquired, and touches nothing else, neither
resource nor flag (`Like`, or `Sound` where it sets a flag).  So between two steps of
a caller the library has one of a few shapes (`Shape`): empty; or with a pool and epochs;
or with a tracker too, whole while workers run.  The
hypothesis `Handled` excludes the failures the code does not handle:
of a `pthread_create`, after which the pool is freed and still pointed to
(`MCLifecycleThreads`), of the larger table of a map that is reset
(`MCLifecycleReset`), and of the condition variable of the epochs, for which a wrong
label is jumped to (section 6).  In a build with asserts the process ends at
`yarn.c:40`, in the middle of `init_dep`; `FlagsAlwaysTell` then says nothing any more.

* `FlagWordProof`: `FlagsAreExact`, `LoadsSelectTheLatest` and `StoresSelectTheEarliest`,
  for every ring, any number of epochs and the words of both builds.

The live epochs are less than a ring apart, so each has a bit of its own
(`CursorsRight`), and what the halves of the word hold, and what an executor took from
them, are the bits of the epochs in the ghost sets (`FlagsExact`, `HeldRight`).  What
`yarn_bit_mask_range` leaves is a window of slots, the epochs of which go up from the
first one, around the end of the ring at most once (`Window`): its highest
bit is not that of the latest epoch if the window goes around, which is why a load looks at two
ranges.  `Log2Highest` and `TrailingZerosLowest` say that the two bit hacks
return the highest and the lowest bit, for every set of bits of a word of either size.
The hypothesis of the first two theorems, `Slotted`, is that the epoch counter
does not overflow, or overflows to the slot that comes next; without it they are false
(`MCFlagWordRing`).  `StoresSelectTheEarliest` needs that it does not overflow
(`MCFlagWordOverflow`).  Of `WordSize` the proofs use `WordSizeAssumption` only, that
`2^WordBits` is larger than `WordBits`: the prover does not compute powers
that large, and TLC evaluates it.

* `LoopProof`: `LoadsAreEarly`, `RecordsAreRight`, `HandoverIsRight` and `NothingFaults`,
  for every loop of the form that the hypothesis of the theorem describes.

`Inductive` (theorem `Collected`) holds for every loop, and says for each part of the
analysis what it has collected up to the cursor: the sets are the pointers and values of the
instructions gone by (`Seen`, `SetsInv`); every header phi has one dependency, the
dependencies of header phis come before those found at the exit only, and a dependency
is what its phis make it (`DepsInv`, `FromHeader`, `FromExit`); a stored pointer is on one
alias list, once (`Lists`, `Apart`), until the loop over `LoadSet` is entered, which
is left only if there was nothing in it; each dependency gone by has its entry
and its calls, at the positions `findLoadPos` and `findStorePos` return (`EntriesInv`); and
the pointer calls and the invariants that are passed are those of the lists (`KeepInv`).
`StoreFound` draws from the hypotheses of `NothingFaults` that the search for writes ends and
finds some: what it visits is closed (`VisitedClosed`), so a phi there that takes from none of
the others takes from no phi, and one of its values is an instruction.
On top of it `AliasInv` says that an alias list is a class of the alias relation, and
`ResultInv` that the values taken so far are those of the entries gone by.

The analysis checks nothing of its input and relies on the passes of LLVM before it.
What it relies on became the hypotheses.  They speak of `loop` only, which no step changes, and
every one of the 2,363 loops of the run `loops` satisfies all of them (checked with TLC).

| Hypothesis | Used by | Without it |
|---|---|---|
| `ReadsGathered`: of the blocks that read a variable one dominates the others | `LoadsAreEarly` | `MCLoopSplit` |
| `EntriesApart`: no two variables start from the same value, nor from a value after the loop | `HandoverIsRight` | `MCLoopEntry` |
| `StoredExamined`: what the loop stores and does not compute, it uses otherwise too | `HandoverIsRight` | `MCLoopStored` |
| `VariablesUpdated`: a variable is read, and updated by an instruction | `NothingFaults` | `MCLoopConstant` |
| `PhisFounded`: no phi takes its value from itself through other phis | `NothingFaults` | the search for writes recurs without end (section 6) |
| `PhisComputed`: a phi takes some value that an instruction computes | `NothingFaults` | there is no block for the store (`YarnLoopInfo.cpp:575`) |
| `OneEnd`: all blocks lead to one end of the function | `NothingFaults` | two writes may have no common post-dominator (`YarnLoopInfo.cpp:567`) |
| `ExitsLed`: if a value is used only after the loop, a variable is used only inside | `NothingFaults` | `MCLoopExit` |
| `AliasesConsistent`: must-alias is symmetric and transitive on the stored pointers | `RecordsAreRight` | the lists depend on the order of `StoreSet` |
| `PointersNotStored`: no pointer that is stored to is itself stored | `RecordsAreRight` | one store gets two calls |
| `ExitsComputed`: a value used after the loop is computed by it | `RecordsAreRight` | a dependency has an index and no call, and `IndexSize` counts calls |

The assumptions are `NoneAssumption`, `AliasesAssumption` and `LoopAssumption`.

* `TimestampProof` also has `TimestampTypes`: the ghosts are the unwrapped timestamps.

Every one of these invariants was first checked by TLC on the instances of section 5.
The assumptions of `MapProof` are those `Map` names, on its constants; of the proofs about
`Yarn` those of `Epoch`, with a thread at least (`ThreadAssumption`, without
which "every worker is done" would be true at once), `ProgramAssumption` and
`AddrAssumption`, that the addresses are finite (the lists have a length).  The induction theorems of the library
take an operator as a parameter; where an induction is needed, `Smallest` and
`Greatest` give the least counterexample instead.

Model-checked only: `TaskEnds` and `ShutdownEnds`; `Termination`, the fairness of
`ImplementsTimeline`, and `ProbeReturns`, since liveness under fairness is out of the
prover's reach, and the `Finishes` of `MCLoopFinish` with them; and `ValuesStored`, which speaks of all ways through
an iteration: its proof would need that a block on a way lies behind those that dominate
it, which the relation `dom` of a loop only promises if it is that of its graph.

## 9. Not modelled

* Memory order.  Steps are sequentially consistent, but for one write of
  `Dependency`: with `Delays` the write to the buffer that no compare-and-swap follows
  stays with its thread for a while.  `atomic.h` uses full barriers for the
  compare-and-swaps and the barrier writes; other plain writes (`yarn_writev`) could
  be delayed too.
* `yarn_dep_load_fast` and `yarn_dep_store_fast` reach the same record by an index
  instead of the map: `Dependency` does not tell them apart, and the table of
  indexes is a resource of `Lifecycle`.  A reader that is late may be rolled back by
  a store that takes its flag for that of a slot used again; that costs time only.
* Whether an iteration breaks because of what it read, in `Yarn`: `EpochClient` has it.
* The task pointer of an epoch: `yarn.c` never sets it.
* Calls of `yarn_tpool_exec` by two threads at once: yarn makes none.  A `malloc` in it
  that fails returns false and changes nothing.
* The free lists of `pmem.c` and the cells of `pstore.c`, item by item: each belongs to
  one thread.
* Of `yarnc`: `checkLoop` (which loops are analysed at all), the cloning, casting and
  naming of instructions, and LLVM's own analyses, which are inputs.  Loops that
  are left at the header, and a break in a loop with a variable updated on both
  branches, are not enumerated.
* `yarnb`, timers, error macros, tests: input, output and time.
