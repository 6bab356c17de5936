# A specification of TLSTM

TLSTM is a software transactional memory with thread-level speculation. A
*program thread* runs one transaction after the other; each transaction is cut
into `specdepth` *tasks*, and every task runs speculatively on a system thread
of its own. The tasks of a transaction must behave as if they ran one after the
other, and the transactions of all program threads as if each happened at one
instant. This directory holds a TLA+ model of the protocol that brings this
about (`src/stm/transaction_mixinv.h`), of the protocol without tasks that it grew
out of (`transaction_mixinv_swisstm.h`), of what lies under them (memory manager,
logs, sub-word access, quiescence) and of what runs on top (data structures,
benchmarks, thread pool), the TLC configurations that check them, and TLAPS proofs
of how the protocol orders the tasks and keeps its locks, of the safety of the protocol
without tasks, and of components beside them, of the memory manager above all.

## Inventory

| component | state | operations | interacts through |
|---|---|---|---|
| task, `TxMixinv` (`stm/transaction_mixinv.h`) | serial, `last_writer`, three abort flags, read log, task read log, write log | `TxStart`, `ReadWord`, `WriteWord`, `TxCommit`, `TxRestart` | the locks, `ProgramThread`, the flags of other tasks |
| program thread, `ProgramThread` | `last_completed_task`, `last_completed_writer`, `valid_ts`, `progress`, `requires_validation`, `validated`, greedy contention manager, `owners` | plain loads and stores by the tasks | shared by its tasks, its validator, and the contention manager of others |
| validator thread, `validate_transaction` | none but its pc | `ExtendTx`; raises `abort_transaction` | `requires_validation`, `validated`, `valid_ts`, the read logs |
| lock table | per stripe a read lock (version) and a write lock (chain of log entries) | CAS, plain stores | all threads |
| clocks, `GlobalTimestamp` | `commit_ts`, `cm_ts` | fetch and add | all threads |
| clock overflow (`Synchronize`, `RestartCommitTS`) | `tx_status`, `synchronization_in_progress` | stop all, reset the clock | all tasks |
| logs, `Log` (`stm/common/log.h`) | chunk list, index | `get_next`, `delete_last`, `clear`, iterators | read by other tasks and the validator |
| sub-word access (`stm/read_write.h`) | none | masked loads and stores | `ReadWord`, `WriteWord` |
| memory manager (`stm/memory`) | buffers of allocated and freed pointers, observed timestamps | `TxMalloc`, `TxFree`, `TxCommit`, `FreeDominated` | `last_observed_ts` of all tasks |
| privatization tree | one timestamp per node | set, quiesce | all tasks (option, off) |
| thread pool (`mubench/threadpool.c`) | ring of operations, two counters, two condition variables | `dispatch`, `do_work` | mutex |
| barriers (`mubench/intset.c`, `mubench/thread.c`) | counts | cross; start, wait, shut down | mutexes and conditions |
| SwissTM (`stm/transaction_mixinv_swisstm.h`) | per thread: logs, `valid_ts`, `greedy_ts`, `tx_status`, `aborted_externally` | start, read, write, extend, commit, roll back, restart the clock | lock table, clocks |
| data structures (`mubench/rbtree.c`, the list in `intset.c`, `list.c`) | words | insert, update, delete, find | `TM_LOAD`, `TM_STORE` |
| benchmark drivers (`intset.c`, `intset_swisstm.c`) | what each thread has counted | populate, run, join, print | data structures, barrier |
| privatizing memory manager (`MM_PRIVATIZATION`) | lists of pointers | `TxMalloc`, `TxFree` | option, off |
| lsvtlstm variant (`transaction_mixinv_lsvtlstm.h`) | as `TxMixinv` | as `TxMixinv` | included by nothing |
| interfaces (`tlstm.cc`, `tanger.cc`, `itm.cc`), adaptive locking, statistics, utilities | none of interest | forwarding, counting | |

What is hard here: tasks hand on the turn by plain stores; write locks are
stacks of pointers into logs that are cleared and used again; an abort is
agreed on by flags that other threads raise one after the other, and that the
rollback withdraws one after the other; a separate thread validates reads that
tasks are still logging; and conflicts between tasks of one thread, between
threads and with the validator meet in every wait loop. `PROJECT.json` lists the
hazards by line.

What makes each component correct:

- *tasks*: their effects are those of program order; they take turns; they do
  not work on what has been undone; they are not left waiting.
- *transactions*: serializable; if nobody stops, all commit.
- *locks*: a write lock's chain leads only to entries that are in use; a read
  lock is locked only by a transaction that is about to unlock it.
- *signals*: each reaches a task that waits for it and no later one.
- *logs*: a sequence, whatever the chunk boundaries.
- *memory manager*: what is freed is reachable for no running transaction.
- *clock restart*: it ends, and nobody uses a timestamp across it.
- *sub-word access*: a transaction sees and changes the bytes it names, no others.
- *data structures*: a map and a set; the tree balanced, whatever has been freed.
- *benchmarks*: the size they expect is the size of the set.
- *quiescence*: a wait returns when nobody works at an older timestamp.
- *thread pool, barriers*: every operation runs once; nobody passes early or stays.

## Modules

- `Tlstm`: the protocol. One action per step of a task or a validator; `Spec`,
  the fairness, the invariants and the inductive invariant.
- `AtomicTx`: the abstract specification. One action: the next transaction of a
  program thread happens, its tasks applied to the store in program order.
- `Programs`, `MCTlstm`: what the tasks of each instance read and write; the
  refinement mapping from `Tlstm` to `AtomicTx`. The runs `threads`,
  `conditional`, `contended` and `snapshot` are of this module. `Programs` also has what
  the threads of `SwissTm` run.
- `Tlstm_proof`: theorems and proofs about `Tlstm`, first the order of tasks, then the
  locks on top of it.
- `SwissTm`: the protocol without tasks, with the overflow of the clock, an explicit
  abort and `LockMemoryBlock`. `MCSwissTm`: the instance of the run `restart`.
- `SwissTm_proof`: theorems and proofs about `SwissTm`, first the locks and the restart of
  the clock, then what transactions read and write.
- `MCScenarios`: four instances of `MCTlstm` and four of `SwissTm` in one state space,
  see "Runs".
- `ClockRestart`: the overflow of the clock when transactions are split into tasks:
  `tx_status`, the turn, the write locks and `synchronization_in_progress`.
- `MemoryManager`, `MCMemory`: the memory manager of every task and the minimum of
  the observed timestamps, over transactions reduced to the blocks they reach.
  `MemoryManager_proof`: theorems about the lists of one manager, the minimum and the blocks.
- `ReadWrite`: every access of `read_write.h`, through the word log, its padding and
  its masks. `ByteTx` is its abstract specification: an array of bytes.
  `ReadWrite_proof`: that the first implements it.
- `ChunkedLog`, `LinkedLog`: the two logs that compile. `LogSeq` is their abstract
  specification: a sequence whose elements stay at their place in memory.
  `ChunkedLog_proof`: that the first implements it.
- `RbTree`, `ListSet`: the data structures over nodes that are freed and used again.
  `Dictionary` is their abstract specification: a finite map that answers.
- `Intset`, `IntsetSwiss`, `Barrier`: the two benchmark drivers and their barrier.
- `PrivTree`: quiescence over a tree, one access to a node per step. `PrivTree_proof`:
  theorems about it.
- `ThreadPool`, `ThreadBarrier`: the two ways the benchmarks have of running threads.
  `ThreadPool_proof`, `ThreadBarrier_proof`: theorems about them.
- `MCLibrary`: instances of `ClockRestart` and of the modules from `ReadWrite` on, in one
  state space.

How they fit together: `Tlstm` takes its log for an array and its clock for a
counter, which `ChunkedLog` and `ClockRestart` justify; `Intset` takes a transaction for
one step with its tasks in order, which is what `Atomicity` and `Serializable` say of
`Tlstm`; `RbTree` and `ListSet` take an operation for one step for the same reason; the
blocks that `MemoryManager` frees are those its transactions have logged.

### How the model corresponds to the code

`prog_thread[p]` is `struct ProgramThread`; `tx[t]` is the `TxMixinv` object of
task `t = <<p, k>>` (`owners[k]`) with the registers of the function it is in
and `pc`, the place in the code. `entry[t][i]` is the memory of the i-th entry of
`t`'s write log: it keeps its contents when the log is cleared, as in the code, and
pointers (`<<t, i>>`) to it can dangle. `tx[t].write_log` is the log's length.

| actions | code |
|---|---|
| `TxStart`, `TxRestart` | `TxStart`; `TxRestart` and `Rollback` |
| `ReadWord` ... `ReadExtend` | `ReadWordInner`, `ExtendTLS` |
| `WriteWord`, `WriteLoad`, `WriteAfterTask`, `WriteBeforeTask`, `WriteCas`, `WriteExtend` | `WriteWordInner`, `LockMemoryStripe`, `CmOnAccess` |
| `WriteConflict`, `SignalAbort`, `AbortDecided` | `ShouldAbortWrite`, `CMStrongerThan` |
| `TxCommit` ... `CheckTasks` | `TxCommit` up to `TxTryCommit` |
| `Complete`, `Progress`, `AwaitCommit` | `TxTryCommit` of a task that does not commit |
| `LockReads` ... `TxCommitted` | `TxTryCommit` of the commit task, `CmStartTx` |
| `Rollback*` | `RollbackTransaction` |
| `Ready*` | `ReadyToAbortTransaction` |
| `Validator*`, `ExtendTx` | `validate_transaction`, `ExtendTx`, `ValidateTx` |

In `MemoryManager`, `mm[t]` is the manager of a task with its buffers (`buf`, a
pointer being an index), and the operators `TxCommit`, `TxAbort`, `Remember` and
`FreeDominated` are its functions, each one step: nobody else touches a manager.
`ScanObservedTs` loads one `last_observed_ts` per step. `born[b]` is the commit
that made a block reachable, `held[t]` what the task may have a pointer to: what
is reachable at its start and was so at `valid_ts`, since a read of anything
newer has to extend first.

Abstractions, each also named at its action:

- Logs are sets (read logs) and arrays of entries (write logs); a stripe's
  words are a function with `NULL` for a word not in the log; there are no masks.
- Steps merged: the value and second version load of a read; the stores that
  lock the read locks at commit, that release them, and that take back a task's
  or a transaction's write locks (the locks are this thread's all the while;
  another thread finds a stripe locked and tries again); a scan of a read log;
  the two stores that complete a task; one iteration of a wait loop.
- The order of stores and loads is that of the source: the code relies on the
  total store order of the machines it is built for.
- The application is a constant, `Code`: a sequence of reads and writes per
  serial. A write stores one more than the last value read and an operation
  may depend on that value, so that what a task reads decides what it does.
- Not modelled in `Tlstm`: clock overflow (it hands out at most `MaxTs` timestamps;
  see `ClockRestart` and `SwissTm`), a read of inconsistent data that crashes a task
  (`SigSEGVHandler`), an abort by the program in a task, the compile-time options that
  `constants.h` leaves off.

In `SwissTm`, `tx[t]` is the transaction of a thread with its logs (sequences) and
registers. A read is three steps (version, value, version), a write lock a load
and a CAS, a commit one store per step; waits are one step per look. `cm_order`
stands for the greedy timestamps: only their order matters. `seen` and `history`
are ghosts: what an attempt has read, and the committed transactions with epoch and
timestamp. `UnsignedSize` is the width of the `unsigned` that `Extend` keeps the clock in.

In `ReadWrite` memory is words of bytes, a call of the interface is one step, and
`Junk` are the bytes the compiler's padding of `read_write_conv_t` may hold. In
`RbTree` and `ListSet` `allocated` are the live nodes; a new one is any other, with
whatever it held before. In `ThreadPool` and `ThreadBarrier` a step is what a thread does
under one mutex between two waits.

## Properties

Of `Tlstm`. Invariants: `TypeOK`; `LockChains` and `ReadLocksHeld` on the locks; `OneInTurn`,
`WorkIsAhead` and `SignalsAreAwaited` on the tasks of a program thread; `InOrder`,
the inductive invariant behind those three; `Serializable`: when everything has
committed, memory is what some serial order of the transactions leaves.
`Atomicity` is stronger, for one program thread: every step refines
`AtomicTx`, the committed transaction taking effect when its commit task passes
`ValidateCommit`. (With several threads that step does not fix the order: a
transaction may pass before one with a smaller timestamp does.)
`NoAbortDeadlock` states the comment at line 1632. In `MCScenarios` the same are
asked of the instance that runs: `StacksHold` (`LockChains`), `OutcomeIsSerial`
(`Serializable`), `ReadersGoOn` (`ReadLocksHeld`), `TasksInOrder` (`Atomicity`), and
`EveryoneCommits`, which is liveness, of `SwissTm` too.

Of `SwissTm`: `TypeOK`; `Opacity`: what any attempt has read, also one that will abort, stood in
memory at one instant; `SerialCommits`: commits are serialized in the order of epoch
and timestamp; `NothingLost`: what has been validated is in memory once nobody
holds the stripe; `ReadLocksOwned`, `LocksLogged`: whoever holds a lock knows;
`QuietRestart`: nobody uses a timestamp while the clock restarts.

On the memory manager: `NoDangling`: what is reachable, held by a running task or
still to be freed is in the heap; `FreedOnce`; `NoLeak`; `OldestLast`, the comment
at `memory_impl.h:405` that the rest of the list is dominated too; `MinimumRises`.

Of the library: `StoresBytes`, `TreeIsMap`, `ListIsSet` and `LogsAreSequences` are
refinements of `ByteTx`, `Dictionary` and `LogSeq`; `ReadsBytes`: a transaction sees
its own bytes over memory (both for the accesses that "Bounds" lists); `RedBlack`: order, colours and black height;
`RestartEnds`; `SizeIsExpected`: the size that `Intset` expects is that of the set (what
`intset_swisstm.c` expects is not: "Defects without a run"); `OwnsItsValue`: a thread of
`IntsetSwiss` finds the value it has added last when it removes it, whatever the others have
added and removed in between; `BenchmarkEnds`; `Quiescent`; `OldestFirst`: a worker takes the oldest task
nobody has taken, so none is overwritten, lost or run twice; `SectionsApart`:
parallel sections do not overlap; `EverybodyEnds`.

## Runs

| run | instance | shows |
|---|---|---|
| `threads` | two threads of two tasks, one word: both tasks of a thread write it, the second only over a value it expects, and the other thread increments it | no lost update; all invariants, in every step of the protocol: conflicts between threads and between tasks, aborts, rollbacks, validation (1,392,064 states) |
| `scenarios` | of `Tlstm`: `managed`: two threads of one task, two words locked in opposite orders, greedy timestamps at once; `successive`: two transactions of two tasks on one word; `skew`: two threads, each reads the word the other writes; `mixed`: one thread of three tasks, two words read and written crosswise, some of them twice or only if a value is found. Of `SwissTm`: `overflows`: two threads across an overflow of the clock; `conflicts`: three threads, one of which gives up; `wraps`: timestamps beyond the width of an `unsigned`; `blocks`: locks in opposite orders | the contention manager leaves no deadlock and no livelock; an abort of one attempt does not stop the next; no write skew, and all commit; tasks have the effect of program order at every step, and the entries they stack hold together. Snapshots are consistent and commits serial, also across a restart and after a truncated timestamp; no lock is lost (160,658) |
| `buffers` | one thread of two tasks, of which one allocates and frees; four blocks, buffers of two pointers | no block dangles, leaks or is freed twice; buffers are reused (769,201) |
| `epochs` | two threads of one task that free; two blocks, buffers of one pointer | the minimum never falls, and no reader loses its block (3,211,357) |
| `library` | thirteen instances of the components that stand by themselves | accesses, structures, logs, drivers, quiescence and threads keep what they promise (273,095) |
| `conditional` | three tasks, of which one takes another branch in its second attempt | **violates** `Atomicity` |
| `contended` | a task and another thread want what a later task holds | **violates** `NoAbortDeadlock` |
| `snapshot` | two tasks read two words another thread updates together | **violates** `Serializable` |
| `restart` | SwissTM: two threads overflow the clock, one restarts it while the other still puts versions back | **violates** `SerialCommits` |
| `bytes` | fills of a few bytes in words of eight | **violates** `StoresBytes` |
| `clock` | two threads of two tasks, the clock overflows at the third commit | **violates** `RestartEnds` |
| `overflow` | one task, three allocations and buffers of two pointers | **violates** `NoDangling` |

The first three violations are disagreements of the code with its own comments and
with `TODO`, the last four are defects; `PROJECT.json` tells each trace. `overflow` and
the runs of `MemoryManager` that pass differ in one bound: in these a task allocates less
than a buffer holds (`MaxAlloc` < `Size`), so that `alloced_in_tx_old->next` is never
set. `clock` and the `clock` of `library` differ in the number of tasks per transaction;
`bytes` has the call "memset inside", which `library` has not. `restart` has a transaction
that relies on a version of the new epoch of the clock which one of the old epoch equals;
`overflows` in `scenarios` has not.

`scenarios` and `library` are unions: a variable, `which`, chosen at the
start and never changed, names the instance that runs, the variables of the others
stay where they start, and a property of an instance is asked where it runs. The
states are those of the instances together, each explored as if alone.

Bounds. `SpecDepth` 2 is the least with an earlier and a commit task, 3 the least
with a task between two others; 1 is plain SwissTM. `LogSize` is the number of
stripes a task writes, so that no write is refused. `MaxTs` 4 is more than the
commits of any instance with one failed commit each: it cuts off runs in which
one transaction fails validation over and over, which needs as many commits of
others. Two threads and one or two words are the least for every branch of the
conflict, abort and validation code: over all passing runs every action and
every disjunct of `Next` is taken. (Within `ClockRestart`, what a task does that
waits for a later one of its transaction is taken in the run `clock` only: with two
tasks per transaction the restart does not end.) Deadlock checking is off: the programs are
finite, and the system stops when they have run; the liveness properties take its
place, in every component in which somebody waits.

For `SwissTm`, two words share a stripe and a third has its own: conflicts with and
without a common word. `MAXIMUM_TS` 3 overflows at the second commit, and `MaxEpochs`
allows one restart; for a second one see "Defects without a run".
`CmAccessThreshold` 1 leaves both phases of the contention manager within reach,
0 starts with the second (`threads`, `managed`).

For the memory manager, `MaxTs` 4 is the first commit at which a block freed by the
first one is dominated (its task must have started at 3), and the blocks are as
many as two full buffers need. `Frequency` is 1: to look at the timestamp less
often only makes it older. Only `Writer` tasks use the manager, and buffers are
bounded by `Buffers`; a task that needs one more waits.

For the library, of `ReadWrite`:

- in words of 4 bytes, aligned values of 1, 2, 4 and 8 bytes, stored through either interface
  (the one for aligned values and the one for any), and regions, fills, moves and sorts of 2 and
  5 bytes that start at byte 1, 3 or 4;
- in words of 8, the same aligned values through the interface for aligned ones only, and
  regions, fills, moves and sorts of 2 and 8 bytes that start at byte 1, 7 or 8;
- reads are of the same aligned values and regions;
- two stores after each other (`MaxStores`), so that one overlaps what another has left in
  the log.

Not covered: values that are not aligned; in words of 8, values through the interface for any;
fills that start after the first byte of a word and end before its last; and accesses to
no bytes. Of each of the four there are cases in which the code does not do as `ByteTx` says
(run `bytes`, and "Defects without a run").

Of the rest: trees of five keys, the least in which every case of both repairs occurs;
chunks of three elements and three chunks, the least with a chunk between two others; a pool of three workers and five tasks, so that the ring
wraps; a barrier of four threads, the least with two levels, and two sections;
two benchmark threads of two tasks; a quiescence tree of two leaves.

### Fairness

Every task and every validator is a system thread: weak fairness of
its steps (`Fairness`). Two tasks that keep aborting each other's attempts would
still do so for ever under weak fairness; in the code `WaitOnAbort` makes a task
that was aborted wait for a random time that grows with the aborts, so the
stripe stays free long enough for the other to take it. `Backoff` says just this:
strong fairness of the steps that look at a write lock again, when they find
it free. `MCScenarios` assumes it for `managed` and `successive` and not for `skew`, and
repeats both for each instance, since fairness is of steps with `which` in them.
It assumes nothing for `mixed`, of which only safety is asked.
Of the threads of `blocks` it assumes the same (`WaitOnAbort` is at
`transaction_mixinv_swisstm.h:1592`). One condition serves the three, since no behaviour
has the steps of more than one. In the library every thread is weakly fair, and
nothing more: `ThreadPool`, whose waits are in loops, may also wake up for no reason, as
may the barrier of the drivers; the wait on `proceedAllCond` in `ThreadBarrier` may not.

## Proofs

### Tlstm

For every set of threads, words and stripes, every `SpecDepth`, `LogSize` and
`MaxTs`, and every program (`TlstmAssumption`), TLAPS checks:

- `Typed`: `Spec => []TypeOK`. Every pointer followed and every index into the
  owners or a log exists. `TypeOK` is inductive; one lemma per action.
- `Ordered`: `Spec => []InOrder`.
- `TakeTurns`, `WorkAhead`, `Awaited`: `Spec => []OneInTurn`, `[]WorkIsAhead`,
  `[]SignalsAreAwaited`, from `InOrder`.

None of the last three is inductive: `last_completed_task` is one number for all
tasks, moved forwards by any of them and back by the commit task. `InOrder`
adds what makes them so. `Roles`: which pcs only the commit task, and which only
earlier tasks reach. `Window`: every task's serials are within one transaction of
the commit task's, `last_completed_task` lies between the start of the
task's transaction and one transaction beyond its serial, and a pc in `Turn` is
reached only at `serial - 1`. Serials of a thread's tasks differ modulo
`SpecDepth`, so no two tasks are at `serial - 1`. `HeldWaits`: between the
moment a rollback takes a completed task back and the moment it signals it, that
task waits, unsignalled. `Signalled`: the signals that are up belong to such waits.
The steps fall into those that change nothing of this (`QuietKeeps`), those
that take the turn and hand it on (`TurnTaken`), those that end a wait
(`WaitEnds`), the commit (`CommitDoneOrder`, `TxCommittedOrder`) and the rollback
(`RollbackOrder`, `RollbackOnward`).

- `Locked`: `Spec => []LocksInv`, and from it `LocksChain` (`[]LockChains`) and
  `ReadLocksTaken` (`[]ReadLocksHeld`).

`LockChains` speaks of transactions that have not begun to release their locks and says
that something is above every entry that is not on top; that is neither inductive nor
enough to follow a chain. `LocksInv` is about the entries of open transactions
(`Logged`: those whose last task is not completed), and has `InOrder` beside it, by which
the open transactions of a thread are one (`OneTransaction`).

- `Chained`: a task has one entry for a stripe, and under it is the entry of the last
  task before it that has one. So the entries of a stripe are ordered by task, and
  whatever takes the top off leaves a chain.
- `Topmost`: a write lock is an entry of the last task that has one for the stripe, as long as
  the commit task has not released it (`Due`), and all that is under it has completed:
  a task stacks only on what is complete, and what completes does not work on.
- `Aimed`: what a task knows of the entry it has loaded and is about to stack on. It belongs
  to the same transaction, and by the time of the CAS to a task that has completed. The CAS
  compares pointers, and between the load and the CAS the other task may restart and
  use its entry again; if the lock is the same pointer then, it is the top of
  the chain of that stripe once more, and the step relies on nothing else.
- `Writers`, `Writing`: `read_only` and `last_completed_writer`, by which the
  commit task decides whether there is anything to write back, do not miss an entry.
- `Versions`: an entry has a version to put back before its transaction can commit or
  roll back, and it is never the one that means locked.
- `Backed`: if a task of the transaction waits for an abort, the commit task does not
  decide to commit. Without it a transaction with a task that has not finished
  could be found read-only and release nothing.

A lemma per step says that `LocksInv` stays. Most steps change neither locks nor logs
(`Move`); the others are a push (`WriteCasKeeps`), a version noted (`WriteExtendKeeps`), the
steps of a commit, and the restart of a task and the rollback of several, which
take the entries of those tasks off all locks (`DropKeeps`).

### SwissTm

For every number of threads, every set of words and stripes with any mapping between
them, every program, `CmAccessThreshold`, `MAXIMUM_TS`, `UnsignedSize` and `MaxEpochs`
(`SwissTmAssumption`):

- `LockInvariant`: `Spec => []LockInv`, and from it `Typed` (`[]TypeOK`),
  `LocksAreLogged` (`[]LocksLogged`) and `ReadLocksAreOwned` (`[]ReadLocksOwned`),
  across every restart of the clock.
- `SerialInvariant`: `Spec => []SerialInv`, and from it `SnapshotsAreOpaque`,
  `CommitsAreSerial` and `NothingIsLost`: `Opacity`, `SerialCommits` and `NothingLost`
  hold as long as `history.epoch = 0`.
- `RestartInvariant`: `Spec => []RestartInv`, and from it `FirstRestartIsQuiet`:
  `Spec => [](FirstRestart => QuietRestart)`.

`LocksLogged` is not inductive: a lock leads to an entry, but nothing says that one entry
is under one lock, or that the loops of a commit and of a rollback unlock all there is.
`LockInv` says it exactly (`WriteLocks`): the write locks are those of the entries that
the loops have not passed (`HeldIn`), and a read lock that is set is one of an entry
that is read-locked (`ReadLocks`). `Local` is the part that concerns the record of one
thread: which pcs fit which operation and which logs, and which entry has no version
yet. Every step replaces one record, and either keeps its locks (`QuietStep`) or takes
or drops one.

What has been read is proved by giving every transaction a time `T` (`Snapshot`), from
`valid_ts` to the clock, at which all it has read stood in memory, and stays so
whatever happens later. A transaction does not know `T`; it has claims
(`Claim`): the versions it has logged, and those of the stripes it has locked. Each is
`Clean`: nobody has committed to the stripe between that version and `T`, and nobody is
about to with a timestamp up to `T`. The second half is what makes it last, and is why
read locks are set before the timestamp is taken: whoever has a timestamp
has had its stripes locked for reading since before the clock got there, so that whoever
finds the version unchanged after it has loaded the clock (`ExtendTs` before `Validate`)
has nobody behind it. An extension in progress claims the same of the entries it has
passed at the new time (`Extending`), a validation at commit of those it has passed
just below the timestamp (`Validating`). Where the commit skips its validation because
`ts = valid_ts + 1`, `T` is `valid_ts`. A read between its two looks at the version
knows the value if the version still holds (`Reading`). Of the shared state:
versions bound the commits (`Versions`), timestamps are different (`Timestamps`), memory
lags behind the commits by the entries not yet written back (`Memory`), and what a
committed transaction has read was there just below its timestamp (`Serial`). What
a step does to the other threads is stated once (`Effects`), proved for each kind of
step, and shown to keep what they know.

The restriction to the first epoch is the code's: the run `restart` shows that a restart
of the clock breaks `SerialCommits`. Within the epoch `valid_ts` may be truncated
(`UnsignedSize`): the proof takes it for a lower bound on `T`, so that a clock beyond
32 bits costs extensions and never consistency.

The thread that restarts the clock looks at one `tx_status` after the other, while those it
has passed go on. `RestartInv` says that it is the only one (`OneLeads`), that who
works shows it (`Shown`), and that whom it has passed stays at rest (`Stopped`): such a
thread is before a transaction, where it sees `synchronization_in_progress` before it
takes a timestamp, or in the same overflow. `FirstRestart` is the time up to the end
of the first restart, `EndSynchronization` included. It is the hypothesis because later
ones are not quiet: a thread that has waited for one restart goes on without looking
for another ("Defects without a run"), and until the first has ended no thread has. With
`MaxEpochs = 2` and three threads TLC finds the counterexample.

### MemoryManager

For every number of threads, tasks per transaction, blocks, buffers and commits
(`MemoryAssumption`), in `MemoryManager_proof`:

- `NobodyIsBehind`: no task has observed a time before `minimum_observed_ts`;
- `MinimumNeverFalls`: `Spec => MinimumRises`;
- `MemoryInvariant`: `Spec => []MemInv`, and from it `NothingDangles`, `NothingIsFreedTwice`,
  `NothingIsLost` and `ListFalls` (`[]NoDangling`, `[]FreedOnce`, `[]NoLeak`, `[]OldestLast`),
  as long as `MaxAlloc < Size` and `Threads = 1 \/ SpecDepth = 1`.

`UpdateMinimum` loads the clocks one after the other while their owners move them, and
stores the least long after it was loaded; so that the first two are not inductive. `MinInv`
adds that a task observes only times before the snapshot of its program thread
(`ObservedIsPast`), wherefore what it observes next is not older; that a scan in
progress holds a bound on the clocks it has passed, and one that is no less than the minimum
(`ScanIsLeast`); and that one task scans at a time (`OneScans`, the lock): the second of
two scans could put back what the first has raised.

The two hypotheses of the rest are where the code's promise ends. A transaction that
fills its buffer of allocations loses the list (run `overflow`); and of several tasks, those that
are not the last of their transaction stamp what they free with their old `valid_ts`, which
is harmless only as long as no other thread runs ("Defects without a run").

The proof has two layers. The first is about one manager as a value. `InOrder`
says what its pointers are: the transaction's buffers of frees form a list (`FreesInOrder`)
all full but the last, with the frees of earlier transactions at the start of the first; the
full buffers that committed form one whose timestamps do not rise (`LogicalInOrder`); the clean
ones are linked to each other only (`ReusableInOrder`); and the three have nothing in common
(`Apart`). What the recursive functions that follow `next` and `prev` return (`Chain`, `Log`)
is then the set of a list from some place on, for lists of any length. Each function keeps
`InOrder`, and one statement per function says what it does to what can be seen from
outside: the places of the pointers to free (`Slots`), those of the running transaction
(`NowSlots`), what is there (`Ptr`), and the timestamp a place is under (`Under`).
`OneMoreFree` (`TxFree`) adds a place; `Aborted` (`TxAbort`) takes away exactly the places of the
transaction, over all buffers that it chained; `Committed` (`TxCommit`) puts those in full buffers
under no timestamp but the commit's; `Dominates` (`FreeDominated`) takes away only places
under a timestamp up to the minimum, and frees what is there.

The second relates the managers, tasks and blocks. `MemInv` says that a block in the
heap is reachable, allocated by an open transaction, or at one place of one manager
(`HeapHolds`, `NothingLost`, `PtrsDiffer`); that an open transaction's allocations are known to
nobody else (`AllocsAreOwn`); that what has been freed by a commit is not reachable
(`FreedIsDead`); and, which decides, that whoever may still use a block at a place has observed
a time before the timestamp that the place is under (`StampsAreLate`), or will be put under at
the end of the commit (`StampsWillBeLate`, between `Commit` and `ManagerCommit`). With
`MinInv` a minimum that has reached the timestamp then rules out such a task.

### ThreadPool

For every finite set of workers and any number of tasks, in `ThreadPool_proof`:
`RingIsInOrder`: `Spec => [][OldestFirst]_vars`. `PoolInv` says where the tasks nobody has taken
are in the ring (`Ring`), and that `num_ops_working`, on which dispatch waits, counts
these and the workers that run one (`Counted`): the place that dispatch stores to is
then one that nobody has yet to take.

### ThreadBarrier

For every number of threads that is a power of two, which `thread_barrier_alloc` asserts
(`BarrierAssumption`: every divisor but 1 is even), and any number of sections, in
`ThreadBarrier_proof`: `SectionsStayApart`: `SSpec => []SectionsApart`. The run has two levels;
the theorem any number.

`SectionsApart` is far from inductive: `count` is not zero until a winner has come down, and by
then the loser may be up at the next barrier. `BarrierInv` says who waits for whom:

- `Held`: every thread stands for a block, the `hold(t)` threads from it on, and all of them but
  itself are asleep, at the same of the two barriers of a section.
- `Paired`: the winner that a sleeper waits for is on its way up to the same barrier, or has not yet
  come out of the one before. A thread that sleeps is never at a node that somebody comes
  down to for the barrier before.
- `Counted`: a node's count is its winner's arrival and its loser's, exactly.
- `ReleasedTogether`, `Mixed`: those who are released come from one barrier, where only sleepers
  are left; and while threads are at two barriers, somebody is released. So all come to a
  barrier before the first turns round there (`TurnsRound`), and by the time that
  the last has left it (`Enters`) nobody is on the way up to it any more.

Nodes of different blocks differ (`Nodes`), a thread loses at one level (`LostOnce`), and blocks
are nested or apart (`Nest`): arithmetic of powers of two, from the least counterexample
(`NextLevel`: one level divides the next).

### ChunkedLog

For every length of a chunk and number of chunks but zero (`ChunkAssumption`, a hypothesis of the
theorems), in `ChunkedLog_proof`: `ChunksImplementLog`: `Spec => Log!LSpec`, the refinement, and
`RemovedIsLast`: `Spec => [][RemovesLast]_clvars`. `ChunksInv` says that the free element is one of
a chunk that exists; from it, `PlacesAre` finds where an iterator is after `i` steps, the quotient and
remainder of `i` by the length of a chunk, and every step changes `Size` by one (`Inserts`,
`Deletes`) or to zero (`Clears`). No two places are the same (`InChunks`), so that a
store to the free element changes no other.

### ReadWrite

For any number of words of four or eight bytes and regions of any length but zero, in `ReadWrite_proof`:
`BytesAreStored`: `Spec => StoresBytes`, the refinement of `ByteTx`, and `BytesAreRead`:
`Spec => []ReadsBytes`. `ReadWriteAssumption` is their hypothesis. It leaves out the calls that do
not do as they say: in words of eight bytes, values through the interface for values of any alignment;
values that are not aligned; `memset_tx` inside a word (run `bytes`); and regions and fills of no
bytes. `BytesAreStored` is about everything else that stores, `BytesAreRead` about reads of
aligned values, regions and comparisons.

`LogInv`: the bits of a byte are all in the log or none, so that what the transaction sees of a byte
is the logged one or memory's. A store puts bytes into the entries of a set of addresses
(`Puts`), and then the transaction sees these there and what it saw before elsewhere (`Sees`,
`PutsSees`); what is left of each access is which set that is: `PlaceOf` for an aligned
value, `WordsPut` for up to three words, `BytesPut` for the head, the words and the tail of
a region. `RegionIs` is the same for the reads, and `SortedIs` says that the external sort, taken to put
the k-th smallest byte in place k, is what `ByteTx` asks of a sort: in order, and every
byte as often as before.

### PrivTree

For two threads, any clock and any interleaving of their accesses, in `PrivTree_proof`:
`PrivInvariant`: `Spec => []PrivInv`, and from it `RootIsTheMinimum` (`Spec => []RootIsMinimum`) and
`WaitEndsInQuiet` (`Spec => [][WaitsForAll]_vars`). Two is the hypothesis (`TwoThreads`, with the root
above the two leaves) because with three it is not so ("Defects without a run").

Either thread may store a stale timestamp into the proxy, and a stale proxy into the root. `PrivInv`
says why neither stays: if the proxy is not the minimum of the leaves, somebody is to store it
again, or has stored it by a timestamp of the sibling that the second look will find changed
(`Settles`, `ProxyFollows`); if the root is not the proxy, somebody is to store it, or will find
at the second look that the proxy has changed (`Raises`, `RootFollows`). The comparisons are
by value, so that a timestamp that has come back does no harm. Without the second look at the
sibling (`LoadSiblingOnce`, the mutant) `ProxyFollows` falls.

### What is only model-checked

Of `Tlstm`, the refinement (`Atomicity`) and `Serializable`: they are not true of every
instance (runs `conditional` and `snapshot`), so that there is no theorem to prove without
leaving out what goes wrong. Of `SwissTm`, `Opacity`, `SerialCommits` and `NothingLost`
after a restart, which the run `scenarios` checks where no late thread meets a version of
the new epoch. `QuietRestart` is not true of a second restart and is not checked there. Of `MemoryManager`, the four properties of the
blocks with several threads of several tasks, where `NoDangling` is not true. Every module
not named above. And liveness, which with fairness
is beyond the prover. `Walk`, which follows a chain of entries of `Tlstm`, is a
recursive function, and what it returns is proved only to be typed. The loops of the
tree and of the sorted list are `RECURSIVE` operators of modules that are for TLC only.

Where a proof needs induction, as for the lists of `MemoryManager_proof`, it is by the least element of a
set of numbers (`LeastOf`, `InductionOver`): the library's induction theorems, which take an operator
for a parameter, cannot be instantiated by the installed provers.

## Plan

1. Done: the protocol, its abstract specification, types and turn-taking proved.
2. Done: `MemoryManager`; `MinimumRises`, and the lists and blocks proved: `NoDangling`,
   `FreedOnce`, `NoLeak`, `OldestLast`. Left: two threads of two tasks, where the code does
   not keep them.
3. Done: `SwissTm` with the restart of the clock, `ClockRestart`; locks, snapshots,
   commits and the first restart of `SwissTm` proved.
4. Done: the components under and above the protocol (`ReadWrite` to `ThreadBarrier`);
   the refinements of `ByteTx` by `ReadWrite` and of `LogSeq` by `ChunkedLog`, and the
   quiescence of `PrivTree` between two threads, proved.
5. Done: `LockChains` and `ReadLocksHeld` of `Tlstm`, `OldestFirst` of `ThreadPool`,
   `SectionsApart` of `ThreadBarrier` proved.

## Defects without a run

Met while modelling, beside those the violation runs show. The runs that pass stay
clear of them by a bound or by leaving the call out, as said at each.

- Two restarts of the clock in SwissTM. A thread that has waited for a restart in
  `Synchronize` sets `tx_status` to executing (`transaction_mixinv_swisstm.h:802`)
  without looking at `synchronization_in_progress` again. If a second restart begins
  between the two, it finds this thread idle, and sets the clock back while it runs.
  The run `scenarios` has one restart (`MaxEpochs`).
- The quiescence tree with three threads or more. `setNonMinimumTs` loads the timestamp
  of an inner node once (`privatization_tree.h:139`), before it looks at the sibling; a
  thread that comes up through the same node may change it and store the proxy
  meanwhile, and the first one's store sets the proxy, and then the parent, back. `wait`
  looks at the root only (272). The run `library` has two threads.
- `intset_swisstm.c:881` and 882 add the difference of each thread twice, so that the
  "expected" size that 884 prints beside the set's is wrong whenever the set has grown:
  one thread that adds a value to an empty set and stops is told to expect two. `Report`
  does as the code does, and no property asks for the size in `IntsetSwiss`.
- `read_write.h:563` and the accesses of 16 and 32 bits like it, in words of eight
  bytes, have masks `~1`, not `~0`: they lose the lowest bit of what they store. And
  the members of `read_write_conv_t` are padded, so that values that are not aligned
  land beside their place. The runs have neither: no "value" in words of eight bytes,
  and nowhere "unaligned".
- Regions and fills of no bytes (`read_region`, `write_region`, `memset_tx`) compute where
  they end as `bytes - 1` from the start. At the start of a word that is in the word
  before, so that the first word is not the last one and all of it is stored, or copied
  out; a fill inside a word goes on to its end, as in the run `bytes`. No run has a length of zero.
- `rbtree.c` compares keys by the sign of a difference kept in an `int` (lines 130 and
  152): keys more than half its range apart are out of order. `IntSize` is larger than
  twice the keys of the run.
- `thread.c` waits on `proceedAllCond` until the call returns 0, not until a predicate
  holds: a spurious wake-up lets a thread into the next section early.
- The restart of the clock in TLSTM leaves `prog_thread.valid_ts` as it was, beyond every
  version that follows. `ClockRestart` has no snapshots.
- A transaction of TLSTM with a greedy timestamp spins, executing, on a lock whose
  owner may be waiting in `StartSynchronization` for it to stop. In `ClockRestart` it gives
  way, as one without a greedy timestamp does.
- The help of `intset_swisstm` says that a duration of 0 is infinite; 0 stops at once.
- The memory manager with several program threads of several tasks. Only the last task of a
  transaction has its commit's timestamp; the others stamp what they free with the `valid_ts`
  they had (`transaction_mixinv.h:1331`), and `FreeDominated` gives it back to the heap
  when every task has observed a time after that, though a task of another thread that
  started before the commit may still use it. With two threads of two tasks, one of
  which writes, `Size = 1`, `MaxAlloc = 0` and three blocks, TLC finds `NoDangling` violated
  after 39 steps. The runs `buffers` and `epochs` have one thread, and one task per
  transaction.

## Not modelled

- `transaction_mixinv_lsvtlstm.h` is included by nothing and does not build against the
  present `transaction.h`: an earlier form of the protocol in `Tlstm`.
- What the build makes is not all that is modelled. The Makefile makes `libtlstm.a` and the
  benchmark `intset-rbtree`, whose source includes `intset.c` and `rbtree.c`.
  `threadpool.c`, `thread.c`, `intset_swisstm.c` and `list.c` are linked by no target; `VECTOR_LOG` lacks operations that its
  users call.
- `memory_impl_priv.h` and adaptive locking are compiled only with options that the
  Makefile and `constants.h` leave off. Nor are GV4 timestamps, signaling, and the
  `__m128` accesses of `read_write.h`, which only one compiler has.
- The compiler interfaces (`tanger.cc`, `itm.cc`, `tlstm.cc`) forward calls. Statistics
  and performance counters are written and never read by the protocol. The utilities
  are machine primitives, taken for granted; `longjmp` is the change of `pc` to restart.
- In `PrivTree`, commits that are read-only, fail or overflow: the calls they make on the tree
  are those of its restart.
- `TxAbort` in a task of TLSTM, and a task's use of a block that it reached through the
  log of an earlier task (hazard at `transaction_mixinv.h:1429`), which would need
  `Tlstm` and `MemoryManager` in one state space.
