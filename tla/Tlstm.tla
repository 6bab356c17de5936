------------------------------- MODULE Tlstm -------------------------------
(***************************************************************************)
(* The task protocol of TLSTM (stm/transaction_mixinv.h): a program thread *)
(* runs one transaction after the other, each cut into SpecDepth tasks     *)
(* that run speculatively, one system thread per task.  A task's serial    *)
(* fixes its place in program order; the task with the highest serial of a *)
(* transaction commits it, and a validator thread per program thread       *)
(* extends the timestamp at which the transaction's reads are valid.       *)
(*                                                                         *)
(* An operator or action is one atomic step of one thread: at most one     *)
(* access to state that another running thread may change in between,      *)
(* except where a comment says which accesses are merged and why, and for: *)
(*   - one iteration of a wait loop, and the look at the abort flags that  *)
(*     begins a write: a flag raised after its load is found by the next   *)
(*     look at it, and every wait and every write looks again;             *)
(*   - ShouldAbortWrite's loads (WriteConflict): progress and greedy_ts    *)
(*     are a heuristic, and the lock is loaded again before it is taken;   *)
(*   - what follows the CAS that took a stripe (WriteExtend): its version  *)
(*     cannot change while this program thread holds the write lock.       *)
(***************************************************************************)
EXTENDS Integers, FiniteSets, Sequences

CONSTANTS
  Thread,             \* program threads (ptid)
  SpecDepth,          \* tasks per transaction
  Stripe,             \* lock stripes: a read lock and a write lock each
  Addr,               \* words of memory
  StripeOf,           \* map_address_to_index: the stripe of a word
  Code,               \* Code[p][s]: the operations of the task of p with serial
                      \* s (the application); p's serials are DOMAIN Code[p]
  CmAccessThreshold,  \* CM_ACCESS_THRESHOLD
  LogSize,            \* bound: write log entries a task can hold
  MaxTs,              \* bound: commit timestamps the model hands out
  NULL                \* WRITE_LOCK_CLEAR, the null pointer

MINIMUM_TS == 0
READ_LOCK_SET == 0    \* get_value of the locked word; versions start at 1

CommitTask == SpecDepth - 1
Task == Thread \X (0 .. SpecDepth - 1)
Ptr == Task \X (1 .. LogSize)

\* An access to a word, for some values of the task's accumulator.
Operation == [kind : {"read", "write"}, addr : Addr, when : SUBSET Nat]

ASSUME TlstmAssumption ==
  /\ SpecDepth \in Nat \ {0}
  /\ LogSize \in Nat /\ MaxTs \in Nat /\ CmAccessThreshold \in Nat
  /\ StripeOf \in [Addr -> Stripe]
  /\ NULL \notin Ptr /\ NULL \notin Nat
  /\ \A p \in Thread : /\ DOMAIN Code[p] \subseteq Nat
                       /\ \A s \in DOMAIN Code[p] : Code[p][s] \in Seq(Operation)

VARIABLES
  prog_thread,  \* struct ProgramThread, per ptid
  tx,           \* the TxMixinv object and the registers of each task
  entry,        \* the memory of each task's write log; a pointer is <<task, i>>
  read_lock,    \* per stripe: READ_LOCK_SET or a version
  write_lock,   \* per stripe: NULL or a pointer to a log entry
  memory,
  commit_ts, cm_ts,
  validator     \* the validate_transaction thread of each ptid

vars == <<prog_thread, tx, entry, read_lock, write_lock, memory, commit_ts,
          cm_ts, validator>>
clocks == <<commit_ts, cm_ts>>
locks == <<read_lock, write_lock>>

----------------------------------------------------------------------------
(* Reading the state *)

Owner(p, serial) == <<p, serial % SpecDepth>>
try_commit(t) == t[2] = CommitTask
start_serial(t) == tx[t].serial - t[2]
commit_serial(t) == start_serial(t) + CommitTask
Deref(e) == entry[e[1]][e[2]]
PtidOf(e) == e[1][1]
OwnLock(t, e) == e # NULL /\ PtidOf(e) = t[1]
LiveEntries(t) == {<<t, i>> : i \in 1 .. tx[t].write_log}

\* The loops over the write logs go by task, in program order.
Before(e, f) == e[1][2] < f[1][2] \/ (e[1][2] = f[1][2] /\ e[2] <= f[2])
FirstOf(todo) == CHOOSE e \in todo : \A f \in todo : Before(e, f)
LastOf(todo) == CHOOSE e \in todo : \A f \in todo : Before(f, e)
On(s, entries) == {e \in entries : Deref(e).stripe = s}

\* Follow old_entry from e while Skip holds of the entry reached.  A chain has
\* at most one entry per task of a transaction.
Walk(e, Skip(_)) ==
  LET hop[n \in 0 .. SpecDepth] ==
        IF n = 0 THEN e
        ELSE IF hop[n - 1] # NULL /\ Skip(hop[n - 1])
             THEN Deref(hop[n - 1]).old_entry ELSE hop[n - 1]
  IN hop[SpecDepth]

\* The topmost entry of a chain that task t or a task before it made.
UpTo(e, serial) == LET Later(x) == Deref(x).serial > serial IN Walk(e, Later)

\* FindWordLogEntry down the chain, else the committed value.
FindWord(e, a) == LET Lacks(x) == Deref(x).words[a] = NULL IN Walk(e, Lacks)
ChainValue(e, a) ==
  LET hit == FindWord(e, a)
  IN IF hit \in Ptr /\ Deref(hit).words[a] # NULL THEN Deref(hit).words[a] ELSE memory[a]

NeverExtend(t, version) == FALSE  \* fault
ShouldExtend(t, version) == version > prog_thread[t[1]].valid_ts

\* Fault: only the entries of the task read log are looked at.
ValidateTaskReads(t) ==
  \A r \in tx[t].task_read_log :
    LET e == UpTo(write_lock[r.stripe], tx[t].serial - 1)
    IN e # NULL /\ Deref(e).serial = r.serial

\* A write by an earlier task that t read is still the last one before t, and
\* no earlier task of the thread wrote a stripe t read from memory.
ValidateTLS(t) ==
  LET s == tx[t].serial
      Previous(stripe) == UpTo(write_lock[stripe], s - 1)
  IN /\ \A r \in tx[t].task_read_log :
          Previous(r.stripe) # NULL /\ Deref(Previous(r.stripe)).serial = r.serial
     /\ \A r \in tx[t].read_log :
          OwnLock(t, write_lock[r.stripe]) => Previous(r.stripe) = NULL

ValidateTx(p) ==
  \A k \in 0 .. CommitTask : \A r \in tx[<<p, k>>].read_log :
    read_lock[r.stripe] = r.version

\* Fault: a stripe is taken to be valid when anyone has locked it.
UnlockedInvalidTasks(p) ==
  {k \in 0 .. CommitTask : \E r \in tx[<<p, k>>].read_log :
     read_lock[r.stripe] \notin {r.version, READ_LOCK_SET}}

\* The tasks of a transaction whose read log fails the commit-time validation.
\* A stripe this thread is about to write may be locked.
InvalidTasks(p) ==
  {k \in 0 .. CommitTask : \E r \in tx[<<p, k>>].read_log :
     /\ read_lock[r.stripe] # r.version
     /\ ~ /\ read_lock[r.stripe] = READ_LOCK_SET
          /\ LET e == write_lock[r.stripe] IN e = NULL \/ PtidOf(e) = p}

CMStrongerThan(p, q) ==
  /\ prog_thread[p].greedy_ts # MINIMUM_TS
  /\ prog_thread[q].greedy_ts = MINIMUM_TS \/ prog_thread[p].greedy_ts < prog_thread[q].greedy_ts

----------------------------------------------------------------------------
(* Initial state *)

NoEntry == [stripe |-> NULL, old_version |-> READ_LOCK_SET, serial |-> 0,
            old_entry |-> NULL, words |-> [a \in Addr |-> NULL]]

Init ==
  /\ prog_thread = [p \in Thread |->
       [valid_ts |-> 1, last_completed_task |-> SpecDepth - 1,
        last_completed_writer |-> SpecDepth - 1, progress |-> 0,
        requires_validation |-> FALSE, validated |-> TRUE,
        greedy |-> FALSE, greedy_ts |-> MINIMUM_TS, locations_accessed |-> 0]]
  /\ tx = [t \in Task |->
       [pc |-> "start", serial |-> SpecDepth + t[2], last_writer |-> 0,
        abort_task |-> FALSE, abort_transaction |-> FALSE, aborting_transaction |-> FALSE,
        read_log |-> {}, task_read_log |-> {}, write_log |-> 0, read_only |-> TRUE,
        ip |-> 1, acc |-> 0,
        ptr |-> NULL, version |-> 0, value |-> 0, i |-> 0, from |-> 0, todo |-> {}]]
  /\ entry = [t \in Task |-> [i \in 1 .. LogSize |-> NoEntry]]
  /\ read_lock = [s \in Stripe |-> 1]
  /\ write_lock = [s \in Stripe |-> NULL]
  /\ memory = [a \in Addr |-> 0]
  /\ commit_ts = 1
  /\ cm_ts = 1
  /\ validator = [p \in Thread |-> [pc |-> "idle", ts |-> 0, i |-> 0]]

----------------------------------------------------------------------------
(* Steps.  At(t, pc) is the guard; Become(t, r) replaces the task's record. *)

At(t, pc) == tx[t].pc = pc
Become(t, r) == tx' = [tx EXCEPT ![t] = r]
Goto(t, pc) == Become(t, [tx[t] EXCEPT !.pc = pc])
PT(t) == prog_thread[t[1]]
UpdatePT(t, r) == prog_thread' = [prog_thread EXCEPT ![t[1]] = r]

HasTx(t) == tx[t].serial \in DOMAIN Code[t[1]]
Ops(t) == Code[t[1]][tx[t].serial]
Op(t) == Ops(t)[tx[t].ip]
\* The application's next operation; the registers of the last one are dead.
NextOp(r) == [r EXCEPT !.pc = "run", !.ip = @ + 1, !.ptr = NULL, !.version = 0, !.value = 0]
\* A read returns v to the application.
Returned(r, v) == NextOp([r EXCEPT !.acc = v])

\* The logs are empty and the registers dead: the task is about to start.
Cleared(r) ==
  [r EXCEPT !.pc = "start", !.read_log = {}, !.task_read_log = {}, !.last_writer = 0,
            !.ip = 1, !.acc = 0, !.ptr = NULL, !.version = 0, !.value = 0,
            !.i = 0, !.from = 0, !.todo = {}, !.read_only = TRUE]

\* The pc at which a task whose transaction must abort goes on: the commit task
\* rolls the transaction back, another task reports to it.
AbortPc(t) == IF try_commit(t) THEN "rollback_turn" ELSE "ready"

\* Merged: the task has logged nothing that a write of an earlier task between
\* the load and the store could make stale.
TxStart(t) ==
  /\ At(t, "start") /\ HasTx(t)
  /\ Become(t, [tx[t] EXCEPT !.pc = "run", !.abort_task = FALSE,
                  !.last_writer = PT(t).last_completed_writer])
  /\ UNCHANGED <<prog_thread, entry, locks, memory, clocks, validator>>

\* The application takes a branch around an operation.
Skip(t) ==
  /\ At(t, "run") /\ tx[t].ip <= Len(Ops(t)) /\ tx[t].acc \notin Op(t).when
  /\ Become(t, NextOp(tx[t]))
  /\ UNCHANGED <<prog_thread, entry, locks, memory, clocks, validator>>

Doing(t, kind) ==
  /\ At(t, "run") /\ tx[t].ip <= Len(Ops(t))
  /\ Op(t).kind = kind /\ tx[t].acc \in Op(t).when

\* Rollback and TxRestart of one task: its locks go back to what they were
\* below its entries, and it starts again.
TxRestart(t) ==
  /\ At(t, "restart")
  /\ write_lock' = [s \in Stripe |->
       IF On(s, LiveEntries(t)) = {} THEN write_lock[s]
       ELSE Deref(LastOf(On(s, LiveEntries(t)))).old_entry]
  /\ Become(t, [Cleared(tx[t]) EXCEPT !.write_log = 0])
  /\ UNCHANGED <<prog_thread, entry, read_lock, memory, clocks, validator>>

----------------------------------------------------------------------------
(* ReadWordInner *)

ReadWord(t) ==
  /\ Doing(t, "read")
  /\ LET a == Op(t).addr
         top == write_lock[StripeOf[a]]
         e == UpTo(top, tx[t].serial)
     IN IF ~ OwnLock(t, top) \/ e \notin Ptr
        THEN Goto(t, "read_version")
        ELSE IF Deref(e).serial = tx[t].serial
        THEN Become(t, Returned(tx[t], ChainValue(e, a)))
        ELSE Become(t, [tx[t] EXCEPT !.pc = "read_task", !.ptr = e])
  /\ UNCHANGED <<prog_thread, entry, locks, memory, clocks, validator>>

\* Wait for the earlier task that wrote the stripe.
ReadTaskAbort(t) ==
  /\ At(t, "read_task")
  /\ PT(t).last_completed_task < Deref(tx[t].ptr).serial
  /\ \/ tx[t].abort_task /\ Goto(t, "restart")
     \/ ~ tx[t].abort_task /\ tx[t].abort_transaction /\ Goto(t, AbortPc(t))
  /\ UNCHANGED <<prog_thread, entry, locks, memory, clocks, validator>>

\* The earlier tasks have completed, so no other thread changes what this
\* step reads.
ReadTask(t) ==
  /\ At(t, "read_task")
  /\ PT(t).last_completed_task >= Deref(tx[t].ptr).serial
  /\ LET a == Op(t).addr
         logged == [tx[t] EXCEPT !.task_read_log =
                      @ \cup {[stripe |-> StripeOf[a], serial |-> Deref(tx[t].ptr).serial]}]
         lw == PT(t).last_completed_writer
         valid == /\ ValidateTLS(t)
                  /\ LET e == UpTo(write_lock[StripeOf[a]], tx[t].serial - 1)
                     IN e # NULL /\ Deref(e).serial = Deref(tx[t].ptr).serial
     IN IF lw > tx[t].last_writer /\ ~ valid
        THEN Become(t, [logged EXCEPT !.pc = "restart"])
        ELSE Become(t, Returned([logged EXCEPT !.last_writer =
                                   IF lw > @ THEN lw ELSE @],
                                ChainValue(tx[t].ptr, a)))
  /\ UNCHANGED <<prog_thread, entry, locks, memory, clocks, validator>>

\* The committed value: its version, then the value and its version again.
ReadVersion(t) ==
  /\ At(t, "read_version")
  /\ read_lock[StripeOf[Op(t).addr]] # READ_LOCK_SET
  /\ Become(t, [tx[t] EXCEPT !.pc = "read_value", !.version = read_lock[StripeOf[Op(t).addr]]])
  /\ UNCHANGED <<prog_thread, entry, locks, memory, clocks, validator>>

\* The value and the second version load are merged: a change of the word
\* between them comes with a change of the version, and is tried again.
ReadValue(t) ==
  /\ At(t, "read_value")
  /\ IF read_lock[StripeOf[Op(t).addr]] = tx[t].version
     THEN Become(t, [tx[t] EXCEPT !.pc = "read_log", !.value = memory[Op(t).addr]])
     ELSE Goto(t, "read_version")
  /\ UNCHANGED <<prog_thread, entry, locks, memory, clocks, validator>>

ReadLog(t) ==
  /\ At(t, "read_log")
  /\ Become(t, [tx[t] EXCEPT !.pc = "read_extend",
       !.read_log = @ \cup {[stripe |-> StripeOf[Op(t).addr], version |-> tx[t].version]}])
  /\ UNCHANGED <<prog_thread, entry, locks, memory, clocks, validator>>

ReadExtend(t) ==
  /\ At(t, "read_extend")
  /\ UpdatePT(t, [PT(t) EXCEPT !.requires_validation = @ \/ ShouldExtend(t, tx[t].version)])
  /\ Become(t, Returned(tx[t], tx[t].value))
  /\ UNCHANGED <<entry, locks, memory, clocks, validator>>

----------------------------------------------------------------------------
(* WriteWordInner and LockMemoryStripe *)

WriteWord(t) ==
  /\ Doing(t, "write")
  /\ IF tx[t].abort_task THEN Goto(t, "restart")
     ELSE IF tx[t].abort_transaction THEN Goto(t, AbortPc(t))
     ELSE Goto(t, "write_load")
  /\ UNCHANGED <<prog_thread, entry, locks, memory, clocks, validator>>

\* The application writes a value that depends on the last one it read.
NewValue(t) == tx[t].acc + 1

\* Load the write lock, on entry and again after a wait or a failed CAS.
WriteLoad(t) ==
  /\ At(t, "write_load")
  /\ LET a == Op(t).addr
         top == write_lock[StripeOf[a]]
     IN IF OwnLock(t, top) /\ Deref(top).serial = tx[t].serial
        THEN /\ entry' = [entry EXCEPT ![top[1]][top[2]].words[a] = NewValue(t)]
             /\ Become(t, NextOp(tx[t]))
        ELSE /\ Become(t, [tx[t] EXCEPT !.ptr = top,
                             !.pc = IF top = NULL THEN "write_cas" ELSE "write_locked"])
             /\ UNCHANGED entry
  /\ UNCHANGED <<prog_thread, locks, memory, clocks, validator>>

\* The stripe is locked by another program thread: ShouldAbortWrite.
WriteConflict(t) ==
  /\ At(t, "write_locked") /\ ~ OwnLock(t, tx[t].ptr)
  /\ LET e == write_lock[StripeOf[Op(t).addr]]
         p == t[1]
         q == PtidOf(e)
         mine == prog_thread[p].progress
         theirs == prog_thread[q].progress
     IN IF tx[t].abort_transaction THEN Goto(t, AbortPc(t))
        ELSE IF e = NULL THEN Goto(t, "write_load")
        ELSE Become(t, [tx[t] EXCEPT !.ptr = e, !.i = 0,
               !.pc = IF theirs < mine \/ (theirs = mine /\ CMStrongerThan(p, q))
                      THEN "abort_other" ELSE "abort_self"])
  /\ UNCHANGED <<prog_thread, entry, locks, memory, clocks, validator>>

\* Raise abort_transaction in the tasks of the loser, one after the other: of
\* this thread, which then aborts, or of the other, and then ask again.
Loser(t) == IF At(t, "abort_self") THEN t[1] ELSE PtidOf(tx[t].ptr)
SignalAbort(t) ==
  /\ tx[t].pc \in {"abort_self", "abort_other"}
  /\ LET next == IF At(t, "abort_self") THEN "abort_decided" ELSE "write_load"
     IN tx' = [tx EXCEPT ![<<Loser(t), tx[t].i>>].abort_transaction = TRUE,
                         ![t].i = IF @ = CommitTask THEN 0 ELSE @ + 1,
                         ![t].pc = IF tx[t].i = CommitTask THEN next ELSE @]
  /\ UNCHANGED <<prog_thread, entry, locks, memory, clocks, validator>>

\* The flag of this task may have been cleared again by then.
AbortDecided(t) ==
  /\ At(t, "abort_decided")
  /\ Goto(t, IF tx[t].abort_transaction THEN AbortPc(t) ELSE "restart")
  /\ UNCHANGED <<prog_thread, entry, locks, memory, clocks, validator>>

\* The stripe is locked by an earlier task of this transaction.
WriteAfterTask(t) ==
  /\ At(t, "write_locked") /\ OwnLock(t, tx[t].ptr)
  /\ Deref(tx[t].ptr).serial < tx[t].serial
  /\ Goto(t, IF PT(t).last_completed_task < Deref(tx[t].ptr).serial THEN "restart"
             ELSE IF tx[t].abort_transaction THEN AbortPc(t) ELSE "write_cas")
  /\ UNCHANGED <<prog_thread, entry, locks, memory, clocks, validator>>

\* The stripe is locked by a later task of this transaction: it has to abort.
WriteBeforeTask(t) ==
  /\ At(t, "write_locked") /\ OwnLock(t, tx[t].ptr)
  /\ Deref(tx[t].ptr).serial >= tx[t].serial
  /\ IF tx[t].abort_transaction THEN Goto(t, AbortPc(t))
     ELSE tx' = [tx EXCEPT ![t].pc = "write_load",
                           ![Owner(t[1], Deref(tx[t].ptr).serial)].abort_task = TRUE]
  /\ UNCHANGED <<prog_thread, entry, locks, memory, clocks, validator>>

\* Fault: the lock is taken with a store.
WriteStore(t) ==
  /\ At(t, "write_cas") /\ tx[t].write_log < LogSize
  /\ LET a == Op(t).addr
         n == tx[t].write_log + 1
     IN /\ entry' = [entry EXCEPT ![t][n] =
             [stripe |-> StripeOf[a], serial |-> tx[t].serial, old_entry |-> tx[t].ptr,
              old_version |-> entry[t][n].old_version,
              words |-> [b \in Addr |-> IF b = a THEN NewValue(t) ELSE NULL]]]
        /\ write_lock' = [write_lock EXCEPT ![StripeOf[a]] = <<t, n>>]
        /\ Become(t, [tx[t] EXCEPT !.write_log = n, !.ptr = NULL, !.pc = "write_extend"])
  /\ UNCHANGED <<prog_thread, read_lock, memory, clocks, validator>>

\* Fill the next log entry and try to put it on top of the lock; the entry's
\* memory is written whether or not the CAS succeeds.
WriteCas(t) ==
  /\ At(t, "write_cas") /\ tx[t].write_log < LogSize
  /\ LET a == Op(t).addr
         s == StripeOf[a]
         n == tx[t].write_log + 1
         won == write_lock[s] = tx[t].ptr
     IN /\ entry' = [entry EXCEPT ![t][n] =
             [stripe |-> s, serial |-> tx[t].serial, old_entry |-> tx[t].ptr,
              old_version |-> entry[t][n].old_version,
              words |-> [b \in Addr |-> IF b = a THEN NewValue(t) ELSE NULL]]]
        /\ write_lock' = IF won THEN [write_lock EXCEPT ![s] = <<t, n>>] ELSE write_lock
        /\ Become(t, [tx[t] EXCEPT !.write_log = IF won THEN n ELSE @, !.ptr = NULL,
                        !.pc = IF won THEN "write_extend" ELSE "write_load"])
  /\ UNCHANGED <<prog_thread, read_lock, memory, clocks, validator>>

\* CmOnAccess: after enough accesses the transaction takes a greedy timestamp.
CmOnAccess(t, r) ==
  IF r.greedy THEN r
  ELSE IF r.locations_accessed < CmAccessThreshold
  THEN [r EXCEPT !.locations_accessed = @ + 1]
  ELSE [r EXCEPT !.locations_accessed = @ + 1, !.greedy = TRUE, !.greedy_ts = cm_ts + 1]

\* The lock is held: extend if the stripe is newer than the snapshot, check
\* what was read from earlier tasks, and note the version to restore.
WriteExtend(t) ==
  /\ At(t, "write_extend")
  /\ LET n == tx[t].write_log
         version == read_lock[StripeOf[Op(t).addr]]
         pt == [PT(t) EXCEPT !.requires_validation = @ \/ ShouldExtend(t, version)]
         lw == PT(t).last_completed_writer
         done == CmOnAccess(t, pt)
     IN IF lw > tx[t].last_writer /\ ~ ValidateTLS(t)
        THEN /\ UpdatePT(t, pt) /\ Goto(t, "restart")
             /\ UNCHANGED <<entry, cm_ts>>
        ELSE /\ UpdatePT(t, done)
             /\ cm_ts' = IF done.greedy /\ ~ pt.greedy THEN cm_ts + 1 ELSE cm_ts
             /\ entry' = [entry EXCEPT ![t][n].old_version = version]
             /\ Become(t, NextOp([tx[t] EXCEPT !.last_writer = IF lw > @ THEN lw ELSE @]))
  /\ UNCHANGED <<locks, memory, commit_ts, validator>>

----------------------------------------------------------------------------
(* TxCommit and TxTryCommit *)

TxCommit(t) ==
  /\ At(t, "run") /\ tx[t].ip > Len(Ops(t))
  /\ Become(t, [tx[t] EXCEPT !.read_only = (tx[t].write_log = 0),
                  !.pc = IF tx[t].write_log = 0 THEN "turn" ELSE "turn_writer"])
  /\ UNCHANGED <<prog_thread, entry, locks, memory, clocks, validator>>

\* Only a writer looks for abort_task, before each look at the turn.
CommitTaskAborted(t) ==
  /\ At(t, "turn_writer")
  /\ Goto(t, IF tx[t].abort_task THEN "restart" ELSE "turn")
  /\ UNCHANGED <<prog_thread, entry, locks, memory, clocks, validator>>

TurnToCome(t) == PT(t).last_completed_task <= tx[t].serial - 1  \* fault
MyTurn(t) == PT(t).last_completed_task = tx[t].serial - 1

CommitTurn(t) ==
  /\ At(t, "turn")
  /\ MyTurn(t) \/ ~ tx[t].read_only
  /\ Goto(t, IF ~ MyTurn(t) THEN "turn_writer"
             ELSE IF try_commit(t) THEN "await_abort" ELSE "check_abort")
  /\ UNCHANGED <<prog_thread, entry, locks, memory, clocks, validator>>

\* The commit task waits for the validator unless a task of the transaction is
\* ready to abort: three loads, in this order.
AwaitAbort(t) ==
  /\ At(t, "await_abort")
  /\ Goto(t, IF tx[t].aborting_transaction THEN "rollback_turn" ELSE "await_request")
  /\ UNCHANGED <<prog_thread, entry, locks, memory, clocks, validator>>

AwaitRequest(t) ==
  /\ At(t, "await_request")
  /\ Goto(t, IF PT(t).requires_validation THEN "await_abort" ELSE "await_validated")
  /\ UNCHANGED <<prog_thread, entry, locks, memory, clocks, validator>>

AwaitValidated(t) ==
  /\ At(t, "await_validated")
  /\ Goto(t, IF PT(t).validated THEN "check_abort" ELSE "await_abort")
  /\ UNCHANGED <<prog_thread, entry, locks, memory, clocks, validator>>

CheckAbort(t) ==
  /\ At(t, "check_abort")
  /\ Goto(t, IF tx[t].abort_transaction THEN AbortPc(t) ELSE "check_tasks")
  /\ UNCHANGED <<prog_thread, entry, locks, memory, clocks, validator>>

\* It is the task's turn: the earlier tasks have completed.
CheckTasks(t) ==
  /\ At(t, "check_tasks")
  /\ Goto(t, IF PT(t).last_completed_writer > tx[t].last_writer /\ ~ ValidateTLS(t) THEN "restart"
             ELSE IF ~ try_commit(t) THEN "complete"
             ELSE IF ~ tx[t].read_only \/ PT(t).last_completed_writer >= start_serial(t)
             THEN "lock_reads" ELSE "commit_done")
  /\ UNCHANGED <<prog_thread, entry, locks, memory, clocks, validator>>

\* Fault: a task completes the whole transaction.
CompleteTransaction(t) ==
  /\ At(t, "complete")
  /\ UpdatePT(t, [PT(t) EXCEPT !.last_completed_task = commit_serial(t),
                    !.last_completed_writer = IF tx[t].read_only THEN @ ELSE tx[t].serial])
  /\ Goto(t, "progress")
  /\ UNCHANGED <<entry, locks, memory, clocks, validator>>

\* A task that does not commit publishes its completion: last_completed_writer
\* and then last_completed_task.  Waiting tasks look at the second only; one that
\* sees the first alone validates against log entries that are all in place.
Complete(t) ==
  /\ At(t, "complete")
  /\ UpdatePT(t, [PT(t) EXCEPT !.last_completed_task = tx[t].serial,
                    !.last_completed_writer = IF tx[t].read_only THEN @ ELSE tx[t].serial])
  /\ Goto(t, "progress")
  /\ UNCHANGED <<entry, locks, memory, clocks, validator>>

Progress(t) ==
  /\ At(t, "progress")
  /\ UpdatePT(t, [PT(t) EXCEPT !.progress = @ + 1])
  /\ Goto(t, "await_commit")
  /\ UNCHANGED <<entry, locks, memory, clocks, validator>>

\* ... and waits until its transaction has committed or is rolled back.
AwaitCommit(t) ==
  /\ At(t, "await_commit")
  /\ IF PT(t).last_completed_task >= commit_serial(t)
     THEN Goto(t, "committed")
     ELSE /\ tx[t].aborting_transaction
          /\ Become(t, [tx[t] EXCEPT !.pc = "restart", !.aborting_transaction = FALSE])
  /\ UNCHANGED <<prog_thread, entry, locks, memory, clocks, validator>>

\* Fault: the loops over the tasks end one task too early.
TooFewEntries(p) == UNION {LiveEntries(<<p, k>>) : k \in 0 .. CommitTask - 1}
TxEntries(p) == UNION {LiveEntries(<<p, k>>) : k \in 0 .. CommitTask}

\* Lock the read locks of all stripes the transaction wrote.  The stores are
\* merged: a reader that finds one of the stripes not locked yet is in the
\* position of a reader before the first store.
LockReads(t) ==
  /\ At(t, "lock_reads")
  /\ read_lock' = [s \in Stripe |-> IF On(s, TxEntries(t[1])) # {} THEN READ_LOCK_SET
                                    ELSE read_lock[s]]
  /\ Goto(t, "increment_ts")
  /\ UNCHANGED <<prog_thread, entry, write_lock, memory, clocks, validator>>

IncrementCommitTs(t) ==
  /\ At(t, "increment_ts") /\ commit_ts < MaxTs
  /\ commit_ts' = commit_ts + 1
  /\ Become(t, [tx[t] EXCEPT !.version = commit_ts + 1, !.pc = "validate_commit"])
  /\ UNCHANGED <<prog_thread, entry, locks, memory, cm_ts, validator>>

KeepReadLocks(p) == UNCHANGED read_lock  \* fault
ReleaseReadLocks(p) ==
  read_lock' = [s \in Stripe |-> IF On(s, TxEntries(p)) = {} THEN read_lock[s]
                                 ELSE Deref(LastOf(On(s, TxEntries(p)))).old_version]

\* Nobody committed since the snapshot was last known to be valid, or every
\* task's reads are still valid.  Otherwise ReleaseReadLocks and roll back from
\* the first task that read something stale.
ValidateCommit(t) ==
  /\ At(t, "validate_commit")
  /\ LET p == t[1]
         bad == InvalidTasks(p)
     IN IF tx[t].version = PT(t).valid_ts + 1 \/ bad = {}
        THEN /\ Become(t, [tx[t] EXCEPT !.pc = "write_back", !.todo = TxEntries(p)])
             /\ UNCHANGED read_lock
        ELSE /\ ReleaseReadLocks(p)
             /\ Become(t, [tx[t] EXCEPT !.pc = "rollback", !.version = 0,
                             !.from = CHOOSE k \in bad : \A j \in bad : k <= j])
  /\ UNCHANGED <<prog_thread, entry, write_lock, memory, clocks, validator>>

\* Write one entry's words, and release its stripe if no later task locked it
\* over this entry.
WriteBack(t) ==
  /\ At(t, "write_back") /\ tx[t].todo # {}
  /\ LET e == FirstOf(tx[t].todo)
         s == Deref(e).stripe
         top == write_lock[s] = e
     IN /\ memory' = [a \in Addr |-> IF Deref(e).words[a] # NULL THEN Deref(e).words[a] ELSE memory[a]]
        /\ read_lock' = IF top THEN [read_lock EXCEPT ![s] = tx[t].version] ELSE read_lock
        /\ write_lock' = IF top THEN [write_lock EXCEPT ![s] = NULL] ELSE write_lock
        /\ Become(t, [tx[t] EXCEPT !.todo = @ \ {e}])
  /\ UNCHANGED <<prog_thread, entry, clocks, validator>>

WrittenBack(t) ==
  /\ At(t, "write_back") /\ tx[t].todo = {}
  /\ UpdatePT(t, [PT(t) EXCEPT !.last_completed_writer = tx[t].serial])
  /\ Become(t, [tx[t] EXCEPT !.pc = "commit_done", !.version = 0])
  /\ UNCHANGED <<entry, locks, memory, clocks, validator>>

\* CmStartTx, then the other tasks of the transaction learn of the commit.
CommitDone(t) ==
  /\ At(t, "commit_done")
  /\ UpdatePT(t, [PT(t) EXCEPT !.greedy = FALSE, !.greedy_ts = MINIMUM_TS,
                    !.locations_accessed = 0, !.progress = 0,
                    !.last_completed_task = tx[t].serial])
  /\ Goto(t, "committed")
  /\ UNCHANGED <<entry, locks, memory, clocks, validator>>

\* Clear the logs and go on to this task's part of the next transaction.
TxCommitted(t) ==
  /\ At(t, "committed")
  /\ Become(t, [Cleared(tx[t]) EXCEPT !.serial = @ + SpecDepth,
                  !.write_log = IF tx[t].read_only THEN @ ELSE 0])
  /\ UNCHANGED <<prog_thread, entry, locks, memory, clocks, validator>>

----------------------------------------------------------------------------
(* RollbackTransaction, by the commit task, and ReadyToAbortTransaction *)

RollbackTurn(t) ==
  /\ At(t, "rollback_turn") /\ MyTurn(t)
  /\ Become(t, [tx[t] EXCEPT !.pc = "rollback", !.from = 0])
  /\ UNCHANGED <<prog_thread, entry, locks, memory, clocks, validator>>

\* Take the locks back, last task first, forget the completed tasks, and
\* withdraw the tasks' requests to abort.
RollbackTransaction(t) ==
  /\ At(t, "rollback")
  /\ LET p == t[1]
         undone == {<<p, k>> : k \in tx[t].from .. CommitTask}
         Under(s) == On(s, UNION {LiveEntries(u) : u \in undone})
         before == start_serial(t) + tx[t].from - 1
     IN /\ write_lock' = [s \in Stripe |-> IF Under(s) = {} THEN write_lock[s]
                                           ELSE Deref(FirstOf(Under(s))).old_entry]
        /\ UpdatePT(t, [PT(t) EXCEPT !.last_completed_writer = before, !.progress = 0,
                          !.last_completed_task = before])
        /\ tx' = [u \in Task |->
             IF u = t THEN [tx[t] EXCEPT !.write_log = 0, !.aborting_transaction = FALSE,
                              !.i = tx[t].from, !.pc = "rollback_clear"]
             ELSE IF u \in undone THEN [tx[u] EXCEPT !.write_log = 0] ELSE tx[u]]
  /\ UNCHANGED <<entry, read_lock, memory, clocks, validator>>

\* Fault: the loop goes one task too far.
RollbackClearTooFar(t) ==
  /\ At(t, "rollback_clear")
  /\ tx' = [tx EXCEPT ![<<t[1], tx[t].i % SpecDepth>>].abort_transaction = FALSE,
                      ![t].i = IF @ > CommitTask THEN tx[t].from ELSE @ + 1,
                      ![t].pc = IF tx[t].i > CommitTask THEN "rollback_valid" ELSE @]
  /\ UNCHANGED <<prog_thread, entry, locks, memory, clocks, validator>>

RollbackClear(t) ==
  /\ At(t, "rollback_clear")
  /\ tx' = [tx EXCEPT ![<<t[1], tx[t].i>>].abort_transaction = FALSE,
                      ![t].i = IF @ = CommitTask THEN tx[t].from ELSE @ + 1,
                      ![t].pc = IF tx[t].i = CommitTask THEN "rollback_valid" ELSE @]
  /\ UNCHANGED <<prog_thread, entry, locks, memory, clocks, validator>>

RollbackValid(t) ==
  /\ At(t, "rollback_valid")
  /\ UpdatePT(t, [PT(t) EXCEPT !.requires_validation = FALSE, !.validated = TRUE,
                    !.valid_ts = commit_ts])
  /\ Goto(t, "rollback_signal")
  /\ UNCHANGED <<entry, locks, memory, clocks, validator>>

\* Fault: the loop ends one task too early.
RollbackSignalTooFew(t) ==
  /\ At(t, "rollback_signal")
  /\ IF tx[t].i + 1 >= CommitTask THEN Become(t, [tx[t] EXCEPT !.pc = "restart", !.i = 0, !.from = 0])
     ELSE tx' = [tx EXCEPT ![<<t[1], tx[t].i>>].aborting_transaction = TRUE,
                           ![t].i = @ + 1]
  /\ UNCHANGED <<prog_thread, entry, locks, memory, clocks, validator>>

\* Let the waiting tasks restart, one after the other.
RollbackSignal(t) ==
  /\ At(t, "rollback_signal")
  /\ IF tx[t].i = CommitTask THEN Become(t, [tx[t] EXCEPT !.pc = "restart", !.i = 0, !.from = 0])
     ELSE tx' = [tx EXCEPT ![<<t[1], tx[t].i>>].aborting_transaction = TRUE,
                           ![t].i = @ + 1]
  /\ UNCHANGED <<prog_thread, entry, locks, memory, clocks, validator>>

Ready(t) ==
  /\ At(t, "ready")
  /\ tx' = [tx EXCEPT ![<<t[1], CommitTask>>].aborting_transaction = TRUE,
                      ![t].pc = "ready_turn"]
  /\ UNCHANGED <<prog_thread, entry, locks, memory, clocks, validator>>

ReadyTurn(t) ==
  /\ At(t, "ready_turn") /\ MyTurn(t)
  /\ UpdatePT(t, [PT(t) EXCEPT !.last_completed_task = tx[t].serial])
  /\ Goto(t, "ready_wait")
  /\ UNCHANGED <<entry, locks, memory, clocks, validator>>

\* Faults: the task goes on without the signal, or leaves it for the next wait.
ReadyOnward(t) ==
  /\ At(t, "ready_wait")
  /\ Become(t, [tx[t] EXCEPT !.pc = "restart", !.aborting_transaction = FALSE])
  /\ UNCHANGED <<prog_thread, entry, locks, memory, clocks, validator>>
ReadyAgain(t) ==
  /\ At(t, "ready_wait") /\ tx[t].aborting_transaction
  /\ Goto(t, "restart")
  /\ UNCHANGED <<prog_thread, entry, locks, memory, clocks, validator>>

ReadyWait(t) ==
  /\ At(t, "ready_wait") /\ tx[t].aborting_transaction
  /\ Become(t, [tx[t] EXCEPT !.pc = "restart", !.aborting_transaction = FALSE])
  /\ UNCHANGED <<prog_thread, entry, locks, memory, clocks, validator>>

----------------------------------------------------------------------------
(* validate_transaction: the validator thread of p *)

Validator(p, from, to) ==
  /\ validator[p].pc = from
  /\ validator' = [validator EXCEPT ![p].pc = to]
SetPT(p, r) == prog_thread' = [prog_thread EXCEPT ![p] = r]

ValidatorWakes(p) ==
  /\ prog_thread[p].requires_validation
  /\ Validator(p, "idle", "begin")
  /\ UNCHANGED <<prog_thread, tx, entry, locks, memory, clocks>>

ValidatorBegins(p) ==
  /\ Validator(p, "begin", "clear")
  /\ SetPT(p, [prog_thread[p] EXCEPT !.validated = FALSE])
  /\ UNCHANGED <<tx, entry, locks, memory, clocks>>

ValidatorClears(p) ==
  /\ Validator(p, "clear", "stamp")
  /\ SetPT(p, [prog_thread[p] EXCEPT !.requires_validation = FALSE])
  /\ UNCHANGED <<tx, entry, locks, memory, clocks>>

\* ExtendTx: the time first, then the read logs of all tasks.
ValidatorReadsTs(p) ==
  /\ validator[p].pc = "stamp"
  /\ validator' = [validator EXCEPT ![p].pc = "check", ![p].ts = commit_ts]
  /\ UNCHANGED <<prog_thread, tx, entry, locks, memory, clocks>>

ExtendTx(p) ==
  /\ validator[p].pc = "check"
  /\ validator' = [validator EXCEPT ![p].pc = IF ValidateTx(p) THEN "done" ELSE "abort",
                                    ![p].ts = 0]
  /\ IF ValidateTx(p) THEN SetPT(p, [prog_thread[p] EXCEPT !.valid_ts = validator[p].ts])
     ELSE UNCHANGED prog_thread
  /\ UNCHANGED <<tx, entry, locks, memory, clocks>>

ValidatorAborts(p) ==
  /\ validator[p].pc = "abort"
  /\ tx' = [tx EXCEPT ![<<p, validator[p].i>>].abort_transaction = TRUE]
  /\ validator' = [validator EXCEPT
       ![p].pc = IF validator[p].i = CommitTask THEN "done" ELSE @,
       ![p].i = IF @ = CommitTask THEN 0 ELSE @ + 1]
  /\ UNCHANGED <<prog_thread, entry, locks, memory, clocks>>

ValidatorDone(p) ==
  /\ Validator(p, "done", "idle")
  /\ SetPT(p, [prog_thread[p] EXCEPT !.validated = TRUE])
  /\ UNCHANGED <<tx, entry, locks, memory, clocks>>

----------------------------------------------------------------------------
Reads(t) == \/ ReadWord(t) \/ ReadTaskAbort(t) \/ ReadTask(t)
            \/ ReadVersion(t) \/ ReadValue(t) \/ ReadLog(t) \/ ReadExtend(t)
Writes(t) == \/ WriteWord(t) \/ WriteLoad(t) \/ WriteConflict(t) \/ SignalAbort(t)
             \/ AbortDecided(t) \/ WriteAfterTask(t) \/ WriteBeforeTask(t)
             \/ WriteCas(t) \/ WriteExtend(t)
Commits(t) == \/ TxCommit(t) \/ CommitTaskAborted(t) \/ CommitTurn(t) \/ AwaitAbort(t)
              \/ AwaitRequest(t) \/ AwaitValidated(t) \/ CheckAbort(t) \/ CheckTasks(t)
              \/ Complete(t) \/ Progress(t) \/ AwaitCommit(t) \/ LockReads(t)
              \/ IncrementCommitTs(t) \/ ValidateCommit(t) \/ WriteBack(t)
              \/ WrittenBack(t) \/ CommitDone(t) \/ TxCommitted(t)
Aborts(t) == \/ RollbackTurn(t) \/ RollbackTransaction(t) \/ RollbackClear(t)
             \/ RollbackValid(t) \/ RollbackSignal(t) \/ Ready(t) \/ ReadyTurn(t)
             \/ ReadyWait(t) \/ TxRestart(t)
TaskStep(t) == TxStart(t) \/ Skip(t) \/ Reads(t) \/ Writes(t) \/ Commits(t) \/ Aborts(t)
ValidatorStep(p) == \/ ValidatorWakes(p) \/ ValidatorBegins(p) \/ ValidatorClears(p)
                    \/ ValidatorReadsTs(p) \/ ExtendTx(p) \/ ValidatorAborts(p)
                    \/ ValidatorDone(p)

Next == (\E t \in Task : TaskStep(t)) \/ (\E p \in Thread : ValidatorStep(p))

Spec == Init /\ [][Next]_vars

\* Every task thread and every validator thread is a system thread that runs
\* on its own: a step it can take for good is taken.
Fairness == /\ \A t \in Task : WF_vars(TaskStep(t))
            /\ \A p \in Thread : WF_vars(ValidatorStep(p))
\* A task told to abort waits a random time that grows with every abort before
\* it tries again (WaitOnAbort), and the stripe is free meanwhile: a task that
\* needs it and finds it free again and again takes its next step then.
Free(t) ==
  LET top == write_lock[StripeOf[Op(t).addr]]
  IN \/ top = NULL
     \/ /\ OwnLock(t, top) /\ Deref(top).serial < tx[t].serial
        /\ Deref(top).serial <= PT(t).last_completed_task
Retry(t) == \/ WriteConflict(t) \/ WriteAfterTask(t) \/ WriteBeforeTask(t)
            \/ At(t, "abort_other") /\ SignalAbort(t)
Backoff == \A t \in Task : /\ SF_vars(Retry(t) /\ Free(t))
                           /\ SF_vars(WriteLoad(t) /\ Free(t))
                           /\ SF_vars(WriteCas(t) /\ Free(t))

----------------------------------------------------------------------------
(* Properties *)

PC == {"start", "run", "read_task", "read_version", "read_value", "read_log", "read_extend",
       "write_load", "write_locked", "write_cas", "write_extend", "abort_other", "abort_self",
       "abort_decided", "restart", "turn", "turn_writer", "await_abort", "await_request",
       "await_validated", "check_abort", "check_tasks", "complete", "progress", "await_commit",
       "lock_reads", "increment_ts", "validate_commit", "write_back", "commit_done",
       "committed", "rollback_turn", "rollback", "rollback_clear", "rollback_valid",
       "rollback_signal", "ready", "ready_turn", "ready_wait"}
ValidatorPC == {"idle", "begin", "clear", "stamp", "check", "abort", "done"}

TaskState ==
  [pc : PC, serial : Nat, last_writer : Nat,
   abort_task : BOOLEAN, abort_transaction : BOOLEAN, aborting_transaction : BOOLEAN,
   read_log : SUBSET [stripe : Stripe, version : Nat],
   task_read_log : SUBSET [stripe : Stripe, serial : Nat],
   write_log : 0 .. LogSize, read_only : BOOLEAN,
   ip : Nat \ {0}, acc : Nat, ptr : Ptr \cup {NULL}, version : Nat, value : Nat,
   i : 0 .. CommitTask, from : 0 .. CommitTask, todo : SUBSET Ptr]

ThreadState ==
  [valid_ts : Nat, last_completed_task : Nat, last_completed_writer : Nat, progress : Nat,
   requires_validation : BOOLEAN, validated : BOOLEAN,
   greedy : BOOLEAN, greedy_ts : Nat, locations_accessed : Nat]
Entry == [stripe : Stripe \cup {NULL}, old_version : Nat, serial : Nat,
          old_entry : Ptr \cup {NULL}, words : [Addr -> Nat \cup {NULL}]]

\* The pcs between the steps of an access.
Accessing == {"read_task", "read_version", "read_value", "read_log", "read_extend",
              "write_load", "write_locked", "write_cas", "write_extend", "abort_other"}

\* A task accesses memory for an operation it has.
Working(t) == /\ tx[t].pc \in Accessing \cup {"run"} => HasTx(t)
              /\ tx[t].pc \in Accessing => tx[t].ip <= Len(Ops(t))
              /\ tx[t].pc = "read_task" => tx[t].ptr # NULL
              /\ tx[t].serial >= SpecDepth + t[2]

\* Every variable holds what the C declarations allow: in particular every
\* pointer and every index into the owners and the logs is one that exists.
TypeOK ==
  /\ prog_thread \in [Thread -> ThreadState]
  /\ tx \in [Task -> TaskState]
  /\ entry \in [Task -> [1 .. LogSize -> Entry]]
  /\ read_lock \in [Stripe -> Nat]
  /\ write_lock \in [Stripe -> Ptr \cup {NULL}]
  /\ memory \in [Addr -> Nat]
  /\ commit_ts \in Nat /\ cm_ts \in Nat
  /\ validator \in [Thread -> [pc : ValidatorPC, ts : Nat, i : 0 .. CommitTask]]
  /\ \A t \in Task : Working(t)

Deciding == {"increment_ts", "validate_commit", "write_back"}

\* The transaction's locks are being released, or are.
Released(t) == \/ PT(t).last_completed_task >= commit_serial(t)
               \/ tx[<<t[1], CommitTask>>].pc \in {"write_back", "commit_done"}

\* A write lock leads through old_entry only to entries that are in the write
\* log of a task of one program thread, for this stripe, later tasks first; and
\* every entry of a log is on the chain of its stripe.  Rollbacks and later
\* tasks restore and stack these pointers with plain stores.
LockChains ==
  /\ \A s \in Stripe : write_lock[s] # NULL =>
       /\ Deref(write_lock[s]).stripe = s
       /\ write_lock[s][2] <= tx[write_lock[s][1]].write_log
  /\ \A t \in Task : ~ Released(t) => \A e \in LiveEntries(t) :
       LET s == Deref(e).stripe
           below == Deref(e).old_entry
       IN /\ Deref(e).serial = tx[t].serial
          /\ below # NULL =>
               /\ PtidOf(below) = t[1] /\ below[1][2] < t[2]
               /\ below \in LiveEntries(below[1]) /\ Deref(below).stripe = s
          /\ \/ write_lock[s] = e
             \/ \E u \in Task : \E f \in LiveEntries(u) :
                  u[1] = t[1] /\ Deref(f).stripe = s /\ Deref(f).old_entry = e

\* A locked read lock belongs to one committing transaction that wrote the
\* stripe: no stripe stays locked for readers when nobody will release it.
ReadLocksHeld ==
  \A s \in Stripe : read_lock[s] = READ_LOCK_SET =>
    \E p \in Thread :
      /\ tx[<<p, CommitTask>>].pc \in Deciding
      /\ write_lock[s] # NULL /\ PtidOf(write_lock[s]) = p

\* The pcs at which a task has found that it is its turn, and relies on it.
Turn == {"await_abort", "await_request", "await_validated", "check_abort", "check_tasks",
         "complete", "lock_reads", "increment_ts", "validate_commit", "write_back",
         "commit_done", "rollback"}

\* The tasks of a program thread validate, complete, commit and roll back one
\* at a time and in program order: the turn is handed on by plain stores to
\* last_completed_task, forwards by a task and back by a rollback.
OneInTurn ==
  \A t \in Task : tx[t].pc \in Turn =>
    /\ PT(t).last_completed_task = tx[t].serial - 1
    /\ \A u \in Task : u[1] = t[1] /\ tx[u].pc \in Turn => u = t

\* A task that is working has not completed: its serial is beyond
\* last_completed_task, across commits, rollbacks and partial rollbacks.
Parked == {"progress", "await_commit", "ready_wait", "committed"}
WorkIsAhead ==
  \A t \in Task : tx[t].pc \notin Parked => tx[t].serial > PT(t).last_completed_task

\* The signal to restart reaches only tasks that wait for it, and a commit
\* task is told of an abort only while a task is waiting to abort: a signal
\* never survives into the next attempt or the next transaction.
SignalsAreAwaited ==
  \A t \in Task : tx[t].aborting_transaction =>
    IF try_commit(t)
    THEN \E k \in 0 .. CommitTask - 1 : tx[<<t[1], k>>].pc \in {"ready_turn", "ready_wait"}
    ELSE /\ tx[t].pc \in {"progress", "await_commit", "ready_wait"}
         /\ tx[t].serial > PT(t).last_completed_task

----------------------------------------------------------------------------
(* Why tasks take turns: an inductive invariant *)

Waiting == {"progress", "await_commit", "ready_wait"}
RollingBack == {"rollback_clear", "rollback_valid", "rollback_signal"}
CommitPcs == {"await_abort", "await_request", "await_validated", "lock_reads", "increment_ts",
              "validate_commit", "write_back", "commit_done", "rollback_turn", "rollback"}
             \cup RollingBack
EarlierPcs == {"complete", "ready", "ready_turn"} \cup Waiting

Committer(t) == <<t[1], CommitTask>>

\* A rollback has undone task t and has not told it yet.
Held(t) == LET c == tx[Committer(t)]
           IN /\ ~ try_commit(t) /\ c.pc \in RollingBack /\ c.from <= t[2]
              /\ c.pc = "rollback_signal" => c.i <= t[2]

Roles(t) == /\ tx[t].pc \in CommitPcs => try_commit(t)
            /\ tx[t].pc \in EarlierPcs => ~ try_commit(t)
            /\ tx[t].pc \in {"rollback_valid", "rollback_signal"} => tx[t].from <= tx[t].i

\* How far a task can be from the completed tasks and from the commit task.
Window(t) ==
  LET last == PT(t).last_completed_task
      first == start_serial(Committer(t))
  IN /\ start_serial(t) - 1 <= last /\ last < tx[t].serial + SpecDepth
     /\ start_serial(t) \in {first - SpecDepth, first, first + SpecDepth}
     /\ tx[t].pc \notin Parked => last < tx[t].serial
     /\ tx[t].pc = "committed" => commit_serial(t) <= last
     /\ tx[t].pc \in Turn => last = tx[t].serial - 1

HeldWaits(t) ==
  Held(t) => /\ tx[t].pc \in Waiting /\ ~ tx[t].aborting_transaction
             /\ start_serial(t) = start_serial(Committer(t))
             /\ PT(t).last_completed_task < tx[t].serial

\* A task that is waiting to be told that its transaction was rolled back.
AwaitsAbort(t) == /\ ~ try_commit(t) /\ ~ Held(t)
                  /\ \/ tx[t].pc = "ready_turn"
                     \/ tx[t].pc = "ready_wait" /\ ~ tx[t].aborting_transaction

Signalled(t) ==
  tx[t].aborting_transaction =>
    IF try_commit(t) THEN \E u \in Task : u[1] = t[1] /\ AwaitsAbort(u)
    ELSE tx[t].pc \in Waiting /\ PT(t).last_completed_task < tx[t].serial

\* Every task is within one transaction of its commit task and less than one
\* ahead of or behind the completed tasks, takes its turn only when the task
\* before it is the last completed one, and what a rollback has undone waits
\* until it is told.
InOrder == \A t \in Task : Roles(t) /\ Window(t) /\ HeldWaits(t) /\ Signalled(t)

----------------------------------------------------------------------------
\* A task t waits for a stripe that a later task u of its thread holds, while
\* u waits for its turn to abort.
WaitsForAborting(t, u) ==
  /\ tx[t].pc \in {"write_load", "write_locked"}
  /\ LET e == write_lock[StripeOf[Op(t).addr]] IN e \in LiveEntries(u)
  /\ u[1] = t[1] /\ tx[u].serial > tx[t].serial
  /\ tx[u].pc \in {"rollback_turn", "ready_turn"}

\* A later task that is ready to abort and owns a write lock does not keep an
\* earlier task waiting for good.  With every other thread finished and the
\* validator idle nobody is left to tell the earlier task to abort.
NoAbortDeadlock ==
  \A t, u \in Task : WaitsForAborting(t, u) /\ ~ tx[t].abort_transaction =>
    \/ \E v \in Task : v[1] # t[1] /\ HasTx(v)
    \/ validator[t[1]].pc # "idle" \/ PT(t).requires_validation

\* Everything every program thread has to run commits.
Finished == \A t \in Task : ~ HasTx(t)
=============================================================================
