------------------------------ MODULE SwissTm ------------------------------
(***************************************************************************)
(* The protocol TLSTM grew out of (stm/transaction_mixinv_swisstm.h): one  *)
(* thread runs one transaction at a time and does everything for it, with  *)
(* eager write locks, invisible reads that are validated when the snapshot *)
(* is extended and at commit, a two-phase contention manager, and a clock  *)
(* that all threads stop to restart when it reaches MAXIMUM_TS.            *)
(*                                                                         *)
(* An operator or action is one atomic step of one thread, with at most    *)
(* one access to state that another thread may change in between; a        *)
(* comment says where accesses are merged and why.                         *)
(***************************************************************************)
EXTENDS Integers, FiniteSets, Sequences, Functions

CONSTANTS
  NThreads,           \* thread_count
  Stripe, Addr,       \* lock stripes and words of memory
  StripeOf,           \* map_address_to_index: the stripe of a word
  Code,               \* Code[t]: the transactions of thread t, each a sequence of operations
  CmAccessThreshold,  \* CM_ACCESS_THRESHOLD
  MAXIMUM_TS,         \* where the clock overflows
  UnsignedSize,       \* 2^32: a timestamp kept in an unsigned is taken modulo this
  MaxEpochs,          \* bound: restarts of the clock
  NULL                \* WRITE_LOCK_CLEAR, the null pointer

MINIMUM_TS == 0
READ_LOCK_SET == 0    \* get_value of the locked word; versions start at 1

Thread == 1 .. NThreads
Ptr == Thread \X (Nat \ {0})

\* An access to a word for some values of the accumulator.  A "lock" takes the
\* stripe and writes nothing: LockMemoryBlock, for TxFree.  An "abort" gives the
\* transaction up.
Operation == [kind : {"read", "write", "lock", "abort"}, addr : Addr, when : SUBSET Nat]

ASSUME SwissTmAssumption ==
  /\ NThreads \in Nat /\ CmAccessThreshold \in Nat /\ MAXIMUM_TS \in Nat
  /\ UnsignedSize \in Nat \ {0} /\ MaxEpochs \in Nat
  /\ StripeOf \in [Addr -> Stripe]
  /\ Code \in [Thread -> Seq(Seq(Operation))]
  /\ NULL \notin Ptr /\ NULL \notin Nat

VARIABLES
  tx,          \* the TxMixinv object and the registers of each thread
  read_lock,   \* per stripe: READ_LOCK_SET or a version
  write_lock,  \* per stripe: NULL or a pointer to a write log entry, <<thread, index>>
  memory,
  commit_ts,
  cm_order,    \* the threads with a greedy_ts, in the order cm_ts gave them out
  synchronization_in_progress,
  seen,        \* ghost: what each attempt has read from memory
  history      \* ghost: the restarts of the clock and the committed transactions

vars == <<tx, read_lock, write_lock, memory, commit_ts, cm_order,
          synchronization_in_progress, seen, history>>
clocks == <<commit_ts, cm_order, synchronization_in_progress>>
ghosts == <<seen, history>>

----------------------------------------------------------------------------
(* Reading the state *)

At(t, pc) == tx[t].pc = pc
Become(t, r) == tx' = [tx EXCEPT ![t] = r]
Goto(t, pc) == Become(t, [tx[t] EXCEPT !.pc = pc])

Mine(t, i) == tx[t].write_log[i]
Deref(e) == Mine(e[1], e[2])
LockedByMe(t, e) == e # NULL /\ e[1] = t

HasTx(t) == tx[t].done < Len(Code[t])
Ops(t) == Code[t][tx[t].done + 1]
Op(t) == Ops(t)[tx[t].ip]
StripeOfOp(t) == StripeOf[Op(t).addr]
\* The application's next operation; the registers of the last one are dead.
NextOp(r) == [r EXCEPT !.pc = "run", !.ip = @ + 1, !.ptr = NULL, !.version = 0,
                       !.value = 0, !.i = 0, !.ts = 0]
Returned(r, v) == NextOp([r EXCEPT !.acc = v])
\* The application writes a value that depends on the last one it read.
NewValue(t) == tx[t].acc + 1

\* The loops over the logs: the next entry, or what comes after the loop.
Advance(r, last, after) ==
  IF r.i < last THEN [r EXCEPT !.i = @ + 1] ELSE [r EXCEPT !.pc = after, !.i = 1]

TruncatedSigned(ts) == IF ts < UnsignedSize THEN ts ELSE ts - 2 * UnsignedSize  \* fault
Truncated(ts) == ts % UnsignedSize
NeverExtend(t, version) == FALSE  \* fault
ShouldExtend(t, version) == version > tx[t].valid_ts

\* The greedy timestamps by their order, the first the strongest; a thread that
\* is not in the order has MINIMUM_TS.
Place(t) == CHOOSE i \in 1 .. Len(cm_order) : cm_order[i] = t
HasGreedyTs(t) == t \in Range(cm_order)
Without(t) ==
  IF HasGreedyTs(t)
  THEN SubSeq(cm_order, 1, Place(t) - 1) \o SubSeq(cm_order, Place(t) + 1, Len(cm_order))
  ELSE cm_order
CMNobody(t, u) == FALSE  \* fault
CMStrongerThan(t, u) == HasGreedyTs(t) /\ (~ HasGreedyTs(u) \/ Place(t) < Place(u))

----------------------------------------------------------------------------
(* GlobalInit, ThreadInit *)

EntryFor(s) == [stripe |-> s, old_version |-> 0, words |-> [a \in Addr |-> NULL]]
Idle == [pc |-> "start", status |-> "idle", done |-> 0,
         valid_ts |-> 0, aborted_externally |-> FALSE, rolled_back |-> FALSE,
         locations_accessed |-> 0,
         read_log |-> <<>>, write_log |-> <<>>, ip |-> 1, acc |-> 0,
         ptr |-> NULL, version |-> 0, value |-> 0, i |-> 0, ts |-> 0]

Init ==
  /\ tx = [t \in Thread |-> Idle]
  /\ read_lock = [s \in Stripe |-> MINIMUM_TS + 1]
  /\ write_lock = [s \in Stripe |-> NULL]
  /\ memory = [a \in Addr |-> 0]
  /\ commit_ts = 1 /\ cm_order = <<>>
  /\ synchronization_in_progress = FALSE
  /\ seen = [t \in Thread |-> {}]
  /\ history = [epoch |-> 0, commits |-> {}]

----------------------------------------------------------------------------
(* TxStart *)

TxStart(t) ==
  /\ At(t, "start") /\ HasTx(t)
  /\ Become(t, [tx[t] EXCEPT !.status = "executing", !.pc = "start_sync"])
  /\ UNCHANGED <<read_lock, write_lock, memory, clocks, ghosts>>

\* Synchronize: a restart of the clock is under way.
StartSync(t) ==
  /\ At(t, "start_sync")
  /\ Become(t, IF synchronization_in_progress
               THEN [tx[t] EXCEPT !.status = "idle", !.pc = "start_wait"]
               ELSE [tx[t] EXCEPT !.pc = "start_ts"])
  /\ UNCHANGED <<read_lock, write_lock, memory, clocks, ghosts>>

StartWait(t) ==
  /\ At(t, "start_wait") /\ ~ synchronization_in_progress
  /\ Goto(t, "start_again")
  /\ UNCHANGED <<read_lock, write_lock, memory, clocks, ghosts>>

StartAgain(t) ==
  /\ At(t, "start_again")
  /\ Become(t, [tx[t] EXCEPT !.status = "executing", !.pc = "start_ts"])
  /\ UNCHANGED <<read_lock, write_lock, memory, clocks, ghosts>>

\* The snapshot, CmStartTx and the flags.  Merged: what the others read of
\* greedy_ts and write to aborted_externally only decides who waits for whom.
StartTs(t) ==
  /\ At(t, "start_ts")
  /\ Become(t, [tx[t] EXCEPT !.pc = "run", !.valid_ts = commit_ts,
                  !.locations_accessed = 0, !.aborted_externally = FALSE, !.rolled_back = FALSE])
  /\ cm_order' = Without(t)
  /\ UNCHANGED <<read_lock, write_lock, memory, commit_ts, synchronization_in_progress, ghosts>>

\* The application takes a branch around an operation.
Skip(t) ==
  /\ At(t, "run") /\ tx[t].ip <= Len(Ops(t)) /\ tx[t].acc \notin Op(t).when
  /\ Become(t, NextOp(tx[t]))
  /\ UNCHANGED <<read_lock, write_lock, memory, clocks, ghosts>>

Doing(t, kinds) ==
  /\ At(t, "run") /\ tx[t].ip <= Len(Ops(t))
  /\ Op(t).kind \in kinds /\ tx[t].acc \in Op(t).when

----------------------------------------------------------------------------
(* ReadWordInner and Extend *)

Sees(t, a, v) == seen' = [seen EXCEPT ![t] = @ \cup {[addr |-> a, value |-> v]}]

\* A stripe this transaction has locked: from the log, or from memory when
\* another word of the stripe was written.
ReadWord(t) ==
  /\ Doing(t, {"read"})
  /\ LET a == Op(t).addr
         e == write_lock[StripeOf[a]]
     IN IF ~ LockedByMe(t, e) THEN Goto(t, "read_version") /\ UNCHANGED seen
        ELSE IF Deref(e).words[a] # NULL
        THEN Become(t, Returned(tx[t], Deref(e).words[a])) /\ UNCHANGED seen
        ELSE Become(t, Returned(tx[t], memory[a])) /\ Sees(t, a, memory[a])
  /\ UNCHANGED <<read_lock, write_lock, memory, clocks, history>>

ReadVersion(t) ==
  /\ At(t, "read_version") /\ read_lock[StripeOfOp(t)] # READ_LOCK_SET
  /\ Become(t, [tx[t] EXCEPT !.pc = "read_value", !.version = read_lock[StripeOfOp(t)]])
  /\ UNCHANGED <<read_lock, write_lock, memory, clocks, ghosts>>

ReadValue(t) ==
  /\ At(t, "read_value")
  /\ Become(t, [tx[t] EXCEPT !.pc = "read_check", !.value = memory[Op(t).addr]])
  /\ UNCHANGED <<read_lock, write_lock, memory, clocks, ghosts>>

\* The version has not changed since: log the read, and extend the snapshot if
\* it is older.
ReadCheck(t) ==
  /\ At(t, "read_check")
  /\ LET again == read_lock[StripeOfOp(t)]
         logged == [tx[t] EXCEPT !.read_log =
                      Append(@, [stripe |-> StripeOfOp(t), version |-> again])]
     IN IF again = READ_LOCK_SET THEN Goto(t, "read_version") /\ UNCHANGED seen
        ELSE IF again # tx[t].version
        THEN Become(t, [tx[t] EXCEPT !.pc = "read_value", !.version = again]) /\ UNCHANGED seen
        ELSE IF ShouldExtend(t, again)
        THEN Become(t, [logged EXCEPT !.pc = "extend_ts"]) /\ UNCHANGED seen
        ELSE Become(t, Returned(logged, logged.value)) /\ Sees(t, Op(t).addr, logged.value)
  /\ UNCHANGED <<read_lock, write_lock, memory, clocks, history>>

ExtendTs(t) ==
  /\ At(t, "extend_ts")
  /\ Become(t, [tx[t] EXCEPT !.pc = IF tx[t].read_log = <<>> THEN "extended" ELSE "extend",
                             !.ts = commit_ts, !.i = 1])
  /\ UNCHANGED <<read_lock, write_lock, memory, clocks, ghosts>>

\* Validate, one entry of the read log after the other.
Validate(t) ==
  /\ At(t, "extend")
  /\ LET r == tx[t].read_log[tx[t].i]
     IN Become(t, IF read_lock[r.stripe] # r.version
                  THEN [tx[t] EXCEPT !.pc = "restart", !.i = 1]
                  ELSE Advance(tx[t], Len(tx[t].read_log), "extended"))
  /\ UNCHANGED <<read_lock, write_lock, memory, clocks, ghosts>>

\* Extend has succeeded during a read.
ReadExtended(t) ==
  /\ At(t, "extended") /\ Op(t).kind = "read"
  /\ Become(t, [Returned(tx[t], tx[t].value) EXCEPT !.valid_ts = Truncated(tx[t].ts)])
  /\ Sees(t, Op(t).addr, tx[t].value)
  /\ UNCHANGED <<read_lock, write_lock, memory, clocks, history>>

----------------------------------------------------------------------------
(* WriteWordInner, LockMemoryBlock and LockMemoryStripe *)

\* InsertWordLogEntry, for a write.
Inserted(t, words) ==
  IF Op(t).kind = "write" THEN [words EXCEPT ![Op(t).addr] = NewValue(t)] ELSE words

WriteWord(t) ==
  /\ Doing(t, {"write", "lock"})
  /\ LET e == write_lock[StripeOfOp(t)]
     IN IF LockedByMe(t, e)
        THEN Become(t, NextOp([tx[t] EXCEPT !.write_log[e[2]].words = Inserted(t, @)]))
        ELSE Goto(t, IF e = NULL THEN "write_cas" ELSE "write_locked")
  /\ UNCHANGED <<read_lock, write_lock, memory, clocks, ghosts>>

\* ShouldAbortWrite.  Merged: its loads are a heuristic, and the lock is looked
\* at again before it is taken.
WriteConflict(t) ==
  /\ At(t, "write_locked")
  /\ LET e == write_lock[StripeOfOp(t)]
         weak == tx[t].aborted_externally \/ ~ HasGreedyTs(t)
     IN Become(t, IF ~ weak /\ e = NULL THEN [tx[t] EXCEPT !.pc = "write_cas"]
                  ELSE IF ~ weak /\ CMStrongerThan(t, e[1])
                  THEN [tx[t] EXCEPT !.pc = "abort_other", !.ptr = e]
                  ELSE [tx[t] EXCEPT !.pc = "restart", !.i = 1])
  /\ UNCHANGED <<read_lock, write_lock, memory, clocks, ghosts>>

AbortOther(t) ==
  /\ At(t, "abort_other")
  /\ tx' = [tx EXCEPT ![t].pc = "write_cas", ![t].ptr = NULL,
                      ![tx[t].ptr[1]].aborted_externally = TRUE]
  /\ UNCHANGED <<read_lock, write_lock, memory, clocks, ghosts>>

TakesLock(t, s) ==
  /\ write_lock' = [write_lock EXCEPT ![s] = <<t, Len(tx[t].write_log) + 1>>]
  /\ Become(t, [tx[t] EXCEPT !.write_log = Append(@, EntryFor(s)), !.pc = "write_version"])

WriteStore(t) ==  \* fault: the lock is taken with a store
  /\ At(t, "write_cas") /\ TakesLock(t, StripeOfOp(t))
  /\ UNCHANGED <<read_lock, memory, clocks, ghosts>>

\* Fill the next log entry and try to lock the stripe with it; the entry goes
\* back to the log if another thread was faster.
WriteCas(t) ==
  /\ At(t, "write_cas")
  /\ IF write_lock[StripeOfOp(t)] = NULL THEN TakesLock(t, StripeOfOp(t))
     ELSE Goto(t, "write_reload") /\ UNCHANGED write_lock
  /\ UNCHANGED <<read_lock, memory, clocks, ghosts>>

WriteReload(t) ==
  /\ At(t, "write_reload")
  /\ Goto(t, IF write_lock[StripeOfOp(t)] = NULL THEN "write_cas" ELSE "write_locked")
  /\ UNCHANGED <<read_lock, write_lock, memory, clocks, ghosts>>

\* The lock is held: CmOnAccess, and the word into the log.
WriteLocked(t, r) ==
  LET counts == ~ HasGreedyTs(t)  \* CM_PHASE_INITIAL
      turns == counts /\ r.locations_accessed + 1 > CmAccessThreshold
  IN /\ cm_order' = IF turns THEN Append(cm_order, t) ELSE cm_order
     /\ Become(t, NextOp([r EXCEPT !.locations_accessed = IF counts THEN @ + 1 ELSE @,
          !.write_log[Len(r.write_log)] =
             [stripe |-> @.stripe, old_version |-> r.version, words |-> Inserted(t, @.words)]]))

\* The version to put back, and to extend the snapshot to.
WriteVersion(t) ==
  /\ At(t, "write_version")
  /\ LET r == [tx[t] EXCEPT !.version = read_lock[StripeOfOp(t)]]
     IN IF ShouldExtend(t, r.version)
        THEN Become(t, [r EXCEPT !.pc = "extend_ts"]) /\ UNCHANGED cm_order
        ELSE WriteLocked(t, r)
  /\ UNCHANGED <<read_lock, write_lock, memory, commit_ts, synchronization_in_progress, ghosts>>

\* Extend has succeeded during a write.
WriteExtended(t) ==
  /\ At(t, "extended") /\ Op(t).kind # "read"
  /\ WriteLocked(t, [tx[t] EXCEPT !.valid_ts = Truncated(tx[t].ts)])
  /\ UNCHANGED <<read_lock, write_lock, memory, commit_ts, synchronization_in_progress, ghosts>>

----------------------------------------------------------------------------
(* TxTryCommit *)

\* The transaction has passed its validation: it takes its place in history.
Words(t) == [a \in Addr |->
  LET hits == {i \in DOMAIN tx[t].write_log : Mine(t, i).words[a] # NULL}
  IN IF hits = {} THEN NULL ELSE Mine(t, CHOOSE i \in hits : TRUE).words[a]]
Commits(t, ts) ==
  history' = [history EXCEPT !.commits = @ \cup
    {[epoch |-> history.epoch, ts |-> ts, words |-> Words(t), seen |-> seen[t]]}]

TxCommit(t) ==
  /\ At(t, "run") /\ tx[t].ip > Len(Ops(t))
  /\ Become(t, [tx[t] EXCEPT !.pc = IF tx[t].write_log = <<>> THEN "committed" ELSE "lock_reads",
                             !.i = 1])
  /\ UNCHANGED <<read_lock, write_lock, memory, clocks, ghosts>>

LockReads(t) ==
  /\ At(t, "lock_reads")
  /\ read_lock' = [read_lock EXCEPT ![Mine(t, tx[t].i).stripe] = READ_LOCK_SET]
  /\ Become(t, Advance(tx[t], Len(tx[t].write_log), "increment_ts"))
  /\ UNCHANGED <<write_lock, memory, clocks, ghosts>>

UnchangedSince(t, ts) == ts <= tx[t].valid_ts + 2  \* fault
\* Nobody has committed since the snapshot: there is nothing to validate.
Unchanged(t, ts) == ts = tx[t].valid_ts + 1

IncrementCommitTs(t) ==
  /\ At(t, "increment_ts")
  /\ LET ts == commit_ts + 1
         skips == Unchanged(t, ts) \/ tx[t].read_log = <<>>
     IN /\ ts < MAXIMUM_TS \/ history.epoch < MaxEpochs
        /\ commit_ts' = ts
        /\ Become(t, [tx[t] EXCEPT !.ts = ts, !.pc =
             IF ts >= MAXIMUM_TS THEN "overflow"
             ELSE IF skips THEN "write_back" ELSE "validate"])
        /\ IF ts < MAXIMUM_TS /\ skips THEN Commits(t, ts) ELSE UNCHANGED history
  /\ UNCHANGED <<read_lock, write_lock, memory, cm_order, synchronization_in_progress, seen>>

\* One entry of ValidateCommit's loop.  A stripe this transaction is about to
\* write is locked; its write lock does not change meanwhile.
ValidateCommit(t) ==
  /\ At(t, "validate")
  /\ LET r == tx[t].read_log[tx[t].i]
         now == read_lock[r.stripe]
         valid == now = r.version \/ (now = READ_LOCK_SET /\ LockedByMe(t, write_lock[r.stripe]))
         last == tx[t].i = Len(tx[t].read_log)
     IN /\ Become(t, IF valid THEN Advance(tx[t], Len(tx[t].read_log), "write_back")
                     ELSE [tx[t] EXCEPT !.pc = "release", !.i = 1])
        /\ IF valid /\ last THEN Commits(t, tx[t].ts) ELSE UNCHANGED history
  /\ UNCHANGED <<read_lock, write_lock, memory, clocks, seen>>

\* The words of a log entry.  Merged: nobody uses one of them before the
\* stripe's read lock is released.
WriteBack(t) ==
  /\ At(t, "write_back")
  /\ LET words == Mine(t, tx[t].i).words
     IN memory' = [a \in Addr |-> IF words[a] = NULL THEN memory[a] ELSE words[a]]
  /\ Goto(t, "unlock_read")
  /\ UNCHANGED <<read_lock, write_lock, clocks, ghosts>>

UnlockRead(t) ==
  /\ At(t, "unlock_read")
  /\ read_lock' = [read_lock EXCEPT ![Mine(t, tx[t].i).stripe] = tx[t].ts]
  /\ Goto(t, "unlock_write")
  /\ UNCHANGED <<write_lock, memory, clocks, ghosts>>

UnlockWrite(t) ==
  /\ At(t, "unlock_write")
  /\ write_lock' = [write_lock EXCEPT ![Mine(t, tx[t].i).stripe] = NULL]
  /\ Become(t, IF tx[t].i < Len(tx[t].write_log)
               THEN [tx[t] EXCEPT !.pc = "write_back", !.i = @ + 1]
               ELSE [tx[t] EXCEPT !.pc = "committed"])
  /\ UNCHANGED <<read_lock, memory, clocks, ghosts>>

\* The logs are empty and the registers dead.
Cleared(r) == [r EXCEPT !.read_log = <<>>, !.write_log = <<>>, !.ip = 1, !.acc = 0,
                        !.valid_ts = 0, !.locations_accessed = 0, !.ptr = NULL, !.version = 0, !.value = 0, !.i = 0, !.ts = 0]

TxCommitted(t) ==
  /\ At(t, "committed")
  /\ Become(t, [Cleared(tx[t]) EXCEPT !.pc = "start", !.status = "committed", !.done = @ + 1])
  /\ seen' = [seen EXCEPT ![t] = {}]
  /\ UNCHANGED <<read_lock, write_lock, memory, clocks, history>>

ReleaseFirst(t, pc, after) ==  \* fault: the others stay locked
  /\ At(t, pc)
  /\ read_lock' = [read_lock EXCEPT ![Mine(t, tx[t].i).stripe] = Mine(t, tx[t].i).old_version]
  /\ Become(t, Advance(tx[t], 1, after))
  /\ UNCHANGED <<write_lock, memory, clocks, ghosts>>

\* Validation has failed: ReleaseReadLocks.
ReleaseReadLocks(t, pc, after) ==
  /\ At(t, pc)
  /\ read_lock' = [read_lock EXCEPT ![Mine(t, tx[t].i).stripe] = Mine(t, tx[t].i).old_version]
  /\ Become(t, Advance(tx[t], Len(tx[t].write_log), after))
  /\ UNCHANGED <<write_lock, memory, clocks, ghosts>>

ReleaseInvalid(t) == ReleaseReadLocks(t, "release", "restart")

----------------------------------------------------------------------------
(* Rollback and TxRestart *)

RollbackKeeps(t, after) ==  \* fault: one lock is not dropped
  /\ IF tx[t].i < Len(tx[t].write_log)
     THEN /\ write_lock' = [write_lock EXCEPT ![Mine(t, tx[t].i).stripe] = NULL]
          /\ Become(t, [tx[t] EXCEPT !.i = @ + 1])
          /\ UNCHANGED seen
     ELSE /\ Become(t, [Cleared(tx[t]) EXCEPT !.pc = after, !.rolled_back = TRUE])
          /\ seen' = [seen EXCEPT ![t] = {}]
          /\ UNCHANGED write_lock
  /\ UNCHANGED <<read_lock, memory, clocks, history>>

\* Drop the locks one after the other, then empty the logs.
Rollback(t, after) ==
  /\ IF tx[t].i <= Len(tx[t].write_log)
     THEN /\ write_lock' = [write_lock EXCEPT ![Mine(t, tx[t].i).stripe] = NULL]
          /\ Become(t, [tx[t] EXCEPT !.i = @ + 1])
          /\ UNCHANGED seen
     ELSE /\ Become(t, [Cleared(tx[t]) EXCEPT !.pc = after, !.rolled_back = TRUE])
          /\ seen' = [seen EXCEPT ![t] = {}]
          /\ UNCHANGED write_lock
  /\ UNCHANGED <<read_lock, memory, clocks, history>>

\* A transaction whose commit overflowed the clock has rolled back already.
TxRestart(t) == At(t, "restart") /\ ~ tx[t].rolled_back /\ Rollback(t, "restart")

TxRestarted(t) ==
  /\ At(t, "restart") /\ tx[t].rolled_back
  /\ Become(t, [tx[t] EXCEPT !.pc = "start", !.status = "restarted", !.i = 0])
  /\ UNCHANGED <<read_lock, write_lock, memory, clocks, ghosts>>

\* The application gives up: TxAbort, and the jump behind the transaction.
TxAbort(t) ==
  /\ Doing(t, {"abort"})
  /\ Become(t, [tx[t] EXCEPT !.pc = "abort", !.i = 1])
  /\ UNCHANGED <<read_lock, write_lock, memory, clocks, ghosts>>

AbortRollback(t) == At(t, "abort") /\ ~ tx[t].rolled_back /\ Rollback(t, "abort")

TxAborted(t) ==
  /\ At(t, "abort") /\ tx[t].rolled_back
  /\ Become(t, [tx[t] EXCEPT !.pc = "start", !.status = "aborted", !.done = @ + 1, !.i = 0])
  /\ UNCHANGED <<read_lock, write_lock, memory, clocks, ghosts>>

----------------------------------------------------------------------------
(* The clock overflows: StartSynchronization, RestartCommitTS *)

Overflow(t) ==
  /\ At(t, "overflow")
  /\ Become(t, [tx[t] EXCEPT !.status = "aborted", !.pc = "overflow_release", !.i = 1])
  /\ UNCHANGED <<read_lock, write_lock, memory, clocks, ghosts>>

OverflowRelease(t) == ReleaseReadLocks(t, "overflow_release", "overflow_rollback")
OverflowRollback(t) == At(t, "overflow_rollback") /\ Rollback(t, "sync")

\* The first thread restarts the clock, the others go to Synchronize.
StartSynchronization(t) ==
  /\ At(t, "sync")
  /\ IF synchronization_in_progress
     THEN Goto(t, "sync_other") /\ UNCHANGED synchronization_in_progress
     ELSE /\ Become(t, [tx[t] EXCEPT !.pc = "sync_wait", !.i = 1])
          /\ synchronization_in_progress' = TRUE
  /\ UNCHANGED <<read_lock, write_lock, memory, commit_ts, cm_order, ghosts>>

SyncNobody(t) ==  \* fault: nobody is waited for
  /\ At(t, "sync_wait")
  /\ Become(t, Advance(tx[t], NThreads, "restart_ts"))
  /\ UNCHANGED <<read_lock, write_lock, memory, clocks, ghosts>>

SyncWait(t) ==
  /\ At(t, "sync_wait") /\ tx[tx[t].i].status # "executing"
  /\ Become(t, Advance(tx[t], NThreads, "restart_ts"))
  /\ UNCHANGED <<read_lock, write_lock, memory, clocks, ghosts>>

RestartCommitTs(t) ==
  /\ At(t, "restart_ts")
  /\ commit_ts' = MINIMUM_TS + 1
  /\ history' = [history EXCEPT !.epoch = @ + 1]
  /\ Goto(t, "restart_locks")
  /\ UNCHANGED <<read_lock, write_lock, memory, cm_order, synchronization_in_progress, seen>>

\* InitializeReadLocks.  Merged: no transaction is executing.  A thread that comes
\* late from its own overflow may still put versions back (Overflow is before
\* OverflowRelease): it does so before or after this step.
RestartReadLocks(t) ==
  /\ At(t, "restart_locks")
  /\ read_lock' = [s \in Stripe |-> MINIMUM_TS + 1]
  /\ Goto(t, "end_sync")
  /\ UNCHANGED <<write_lock, memory, clocks, ghosts>>

EndSynchronization(t) ==
  /\ At(t, "end_sync")
  /\ synchronization_in_progress' = FALSE
  /\ Goto(t, "restart")
  /\ UNCHANGED <<read_lock, write_lock, memory, commit_ts, cm_order, ghosts>>

\* Synchronize, in the threads that came too late to restart the clock.
SyncOther(t) ==
  /\ At(t, "sync_other")
  /\ Become(t, IF synchronization_in_progress
               THEN [tx[t] EXCEPT !.status = "idle", !.pc = "sync_other_wait"]
               ELSE [tx[t] EXCEPT !.pc = "restart"])
  /\ UNCHANGED <<read_lock, write_lock, memory, clocks, ghosts>>

SyncOtherWait(t) ==
  /\ At(t, "sync_other_wait") /\ ~ synchronization_in_progress
  /\ Goto(t, "restart")
  /\ UNCHANGED <<read_lock, write_lock, memory, clocks, ghosts>>

----------------------------------------------------------------------------
Starts(t) == TxStart(t) \/ StartSync(t) \/ StartWait(t) \/ StartAgain(t) \/ StartTs(t)
Reads(t) == \/ ReadWord(t) \/ ReadVersion(t) \/ ReadValue(t) \/ ReadCheck(t)
            \/ ExtendTs(t) \/ Validate(t) \/ ReadExtended(t)
Writes(t) == \/ WriteWord(t) \/ WriteConflict(t) \/ AbortOther(t) \/ WriteCas(t)
             \/ WriteReload(t) \/ WriteVersion(t) \/ WriteExtended(t)
Ends(t) == \/ TxCommit(t) \/ LockReads(t) \/ IncrementCommitTs(t) \/ ValidateCommit(t)
           \/ WriteBack(t) \/ UnlockRead(t) \/ UnlockWrite(t) \/ TxCommitted(t)
           \/ ReleaseInvalid(t) \/ TxRestart(t) \/ TxRestarted(t)
           \/ TxAbort(t) \/ AbortRollback(t) \/ TxAborted(t)
Restarts(t) == \/ Overflow(t) \/ OverflowRelease(t) \/ OverflowRollback(t)
               \/ StartSynchronization(t) \/ SyncWait(t) \/ RestartCommitTs(t)
               \/ RestartReadLocks(t) \/ EndSynchronization(t) \/ SyncOther(t)
               \/ SyncOtherWait(t)
Step(t) == Starts(t) \/ Skip(t) \/ Reads(t) \/ Writes(t) \/ Ends(t) \/ Restarts(t)

Next == \E t \in Thread : Step(t)
Spec == Init /\ [][Next]_vars

\* The steps of the loop in LockMemoryStripe, while the stripe is free.
AsksFree(t) == At(t, "write_locked") /\ write_lock[StripeOfOp(t)] = NULL /\ WriteConflict(t)
AbortsFree(t) == At(t, "abort_other") /\ write_lock[StripeOfOp(t)] = NULL /\ AbortOther(t)
TakesFree(t) == At(t, "write_cas") /\ write_lock[StripeOfOp(t)] = NULL /\ WriteCas(t)
ReloadsFree(t) == At(t, "write_reload") /\ write_lock[StripeOfOp(t)] = NULL /\ WriteReload(t)

----------------------------------------------------------------------------
(* Properties *)

StartPc == {"start", "start_sync", "start_wait", "start_again", "start_ts"}
AccessPc == {"read_version", "read_value", "read_check", "extend_ts", "extend", "extended",
             "write_locked", "abort_other", "write_cas", "write_reload", "write_version"}
LockedPc == {"increment_ts", "validate"}
CommitPc == {"lock_reads", "write_back", "unlock_read", "unlock_write", "release"} \cup LockedPc
RollbackPc == {"restart", "abort", "overflow", "overflow_release", "overflow_rollback"}
SyncPc == {"sync", "sync_wait", "restart_ts", "restart_locks", "end_sync", "sync_other",
           "sync_other_wait"}
PC == StartPc \cup AccessPc \cup CommitPc \cup RollbackPc \cup SyncPc \cup {"run", "committed"}

ReadEntry == [stripe : Stripe, version : Nat]
Entry == [stripe : Stripe, old_version : Nat, words : [Addr -> Nat \cup {NULL}]]
State == [pc : PC, status : {"idle", "executing", "aborted", "restarted", "committed"},
          done : Nat, valid_ts : Nat, aborted_externally : BOOLEAN, rolled_back : BOOLEAN,
          locations_accessed : Nat,
          read_log : Seq(ReadEntry), write_log : Seq(Entry), ip : Nat, acc : Nat,
          ptr : Ptr \cup {NULL}, version : Nat, value : Nat, i : Nat, ts : Nat]

\* Every variable keeps its type, the timestamps truncated to an unsigned
\* included: no sequence of steps makes one negative.
TypeOK ==
  /\ tx \in [Thread -> State]
  /\ read_lock \in [Stripe -> Nat]
  /\ write_lock \in [Stripe -> Ptr \cup {NULL}]
  /\ memory \in [Addr -> Nat]
  /\ commit_ts \in Nat /\ cm_order \in Seq(Thread)
  /\ synchronization_in_progress \in BOOLEAN

\* Where a commit stands in history: the clock's epoch and its timestamp.
NotAfter(c, d) == c.epoch < d.epoch \/ (c.epoch = d.epoch /\ c.ts <= d.ts)
ValueIn(a, commits) ==
  LET writers == {c \in commits : c.words[a] # NULL}
  IN IF writers = {} THEN 0
     ELSE (CHOOSE c \in writers : \A d \in writers : NotAfter(d, c)).words[a]
UpToCommit(d) == {c \in history.commits : NotAfter(c, d)}
Agree(reads, commits) == \A r \in reads : ValueIn(r.addr, commits) = r.value

\* What a transaction has read so far, whether or not it will commit, is what
\* some prefix of the committed transactions left: no transaction computes
\* with values that never stood in memory together.
Opacity ==
  \A t \in Thread : \/ Agree(seen[t], {})
                    \/ \E d \in history.commits : Agree(seen[t], UpToCommit(d))

\* A committed transaction has read what the transactions before it left, and
\* so the transactions are serialized in the order of their timestamps, from
\* one epoch of the clock to the next.
SerialCommits ==
  \A d \in history.commits : Agree(d.seen, UpToCommit(d) \ {d})

\* What the writers that have passed their validation wrote is in memory once
\* nobody holds the stripe: no rollback, late write-back or restart of the
\* clock undoes a committed transaction.
NothingLost ==
  \A a \in Addr : write_lock[StripeOf[a]] = NULL => memory[a] = ValueIn(a, history.commits)

\* The read locks a transaction holds are those of stripes it has write-locked,
\* from the first it sets to the last it releases: no reader waits for a
\* stripe that nobody will release.
ReadLocksOwned ==
  \A s \in Stripe : read_lock[s] = READ_LOCK_SET =>
    \E t \in Thread : /\ LockedByMe(t, write_lock[s])
                      /\ tx[t].pc \in CommitPc \cup {"overflow", "overflow_release"}

\* A write lock leads to a live entry of its owner's log for that stripe.
HasLocks(t) == tx[t].pc \in AccessPc \cup CommitPc \cup RollbackPc \cup {"run"}
LocksLogged ==
  \A s \in Stripe : write_lock[s] # NULL =>
    LET e == write_lock[s]
    IN /\ e[2] \in DOMAIN tx[e[1]].write_log /\ Deref(e).stripe = s
       /\ HasLocks(e[1])

\* The clock restarts while no transaction uses a timestamp of its own.
QuietRestart ==
  \A t \in Thread : tx[t].pc \in {"restart_ts", "restart_locks"} =>
    \A u \in Thread : tx[u].pc \notin AccessPc \cup CommitPc \cup {"run"}

Finished == \A t \in Thread : ~ HasTx(t)
=============================================================================
