---------------------------- MODULE ClockRestart ----------------------------
(***************************************************************************)
(* The restart of the commit clock when transactions are split into tasks  *)
(* (stm/transaction_mixinv.h; SwissTm has that of the protocol without     *)
(* tasks).  The commit of a transaction that overflows the clock waits     *)
(* until no task is executing.  What the tasks do is left out but for the  *)
(* lock each thread's transactions take and for who waits for whom.        *)
(***************************************************************************)
EXTENDS Integers, FiniteSets

CONSTANTS
  NThreads,    \* program threads
  SpecDepth,   \* tasks of a thread, and of each of its transactions
  Stripes,     \* the stripes the threads' transactions write, one after the other
  Txs,         \* bound: transactions of a thread
  MAXIMUM_TS,
  NULL

Thread == 1 .. NThreads
Task == Thread \X (1 .. SpecDepth)
StripeOf(k) == k[1] % Stripes
\* transactions[]: the tasks in the order in which they registered.
Index == 1 .. NThreads * SpecDepth
TaskAt(i) == <<((i - 1) \div SpecDepth) + 1, ((i - 1) % SpecDepth) + 1>>

VARIABLES
  task,                 \* pc, tx_status, serial and the loop counter of each task
  last_completed_task,  \* per thread
  write_lock,           \* per stripe: NULL or the task that holds it
  commit_ts,
  synchronization_in_progress

crvars == <<task, last_completed_task, write_lock, commit_ts, synchronization_in_progress>>
shared == <<last_completed_task, write_lock, commit_ts, synchronization_in_progress>>

At(k, pc) == task[k].pc = pc
Become(k, r) == task' = [task EXCEPT ![k] = r]
Goto(k, pc) == Become(k, [task[k] EXCEPT !.pc = pc])
Serial(k) == task[k].serial
\* The last task of a transaction commits it.
TryCommit(k) == k[2] = SpecDepth
CommitSerial(k) == Serial(k) - k[2] + SpecDepth

Init ==
  /\ task = [k \in Task |-> [pc |-> "start", status |-> "idle", serial |-> k[2], i |-> 1]]
  /\ last_completed_task = [p \in Thread |-> 0]
  /\ write_lock = [s \in {StripeOf(k) : k \in Task} |-> NULL]
  /\ commit_ts = 1 /\ synchronization_in_progress = FALSE

----------------------------------------------------------------------------
(* TxStart and Synchronize *)

TxStart(k) ==
  /\ At(k, "start") /\ Serial(k) <= SpecDepth * Txs
  /\ Become(k, [task[k] EXCEPT !.pc = "start_sync", !.status = "executing"])
  /\ UNCHANGED shared

StartSync(k) ==
  /\ At(k, "start_sync")
  /\ Become(k, IF synchronization_in_progress
               THEN [task[k] EXCEPT !.pc = "start_wait", !.status = "idle"]
               ELSE [task[k] EXCEPT !.pc = "write"])
  /\ UNCHANGED shared

StartWait(k) ==
  /\ At(k, "start_wait") /\ ~ synchronization_in_progress
  /\ Goto(k, "start_again")
  /\ UNCHANGED shared

StartAgain(k) ==
  /\ At(k, "start_again")
  /\ Become(k, [task[k] EXCEPT !.pc = "write", !.status = "executing"])
  /\ UNCHANGED shared

\* The body of a task: the first of a transaction locks a stripe, and gives way to
\* another thread's lock: so the contention manager decides before the transaction
\* has written often enough to have a greedy_ts.  (A transaction with a greedy_ts
\* spins instead, executing, on a lock whose owner may be waiting in SyncWait.)
Write(k) ==
  LET s == StripeOf(k)
  IN /\ At(k, "write")
     /\ \/ /\ k[2] = 1 => write_lock[s] = NULL
           /\ write_lock' = IF k[2] = 1 THEN [write_lock EXCEPT ![s] = k] ELSE write_lock
           /\ Goto(k, "complete")
        \/ /\ k[2] = 1 /\ write_lock[s] # NULL
           /\ Become(k, [task[k] EXCEPT !.pc = "start", !.status = "restarted"])
           /\ UNCHANGED write_lock
  /\ UNCHANGED <<last_completed_task, commit_ts, synchronization_in_progress>>

----------------------------------------------------------------------------
(* TxCommit, TxTryCommit *)

\* A task completes after the one before it, and waits for the commit of the
\* transaction; tx_status is still executing.
Complete(k) ==
  /\ At(k, "complete") /\ last_completed_task[k[1]] = Serial(k) - 1
  /\ IF TryCommit(k) THEN Goto(k, "increment_ts") /\ UNCHANGED last_completed_task
     ELSE /\ Goto(k, "await")
          /\ last_completed_task' = [last_completed_task EXCEPT ![k[1]] = Serial(k)]
  /\ UNCHANGED <<write_lock, commit_ts, synchronization_in_progress>>

Await(k) ==
  /\ At(k, "await") /\ last_completed_task[k[1]] >= CommitSerial(k)
  /\ Goto(k, "committed")
  /\ UNCHANGED shared

OverflowExecuting(k) ==  \* fault: tx_status stays as it is
  /\ At(k, "increment_ts")
  /\ commit_ts' = commit_ts + 1
  /\ Goto(k, IF commit_ts + 1 >= MAXIMUM_TS THEN "sync" ELSE "commit")
  /\ UNCHANGED <<last_completed_task, write_lock, synchronization_in_progress>>

\* Merged: nobody but the restart of a clock looks at tx_status.
IncrementCommitTs(k) ==
  /\ At(k, "increment_ts")
  /\ commit_ts' = commit_ts + 1
  /\ Become(k, IF commit_ts + 1 >= MAXIMUM_TS
               THEN [task[k] EXCEPT !.pc = "sync", !.status = "aborted"]
               ELSE [task[k] EXCEPT !.pc = "commit"])
  /\ UNCHANGED <<last_completed_task, write_lock, synchronization_in_progress>>

\* Write back and release the locks of all the tasks, then tell them.
Commit(k) ==
  /\ At(k, "commit")
  /\ write_lock' = [s \in DOMAIN write_lock |->
       IF write_lock[s] # NULL /\ write_lock[s][1] = k[1] THEN NULL ELSE write_lock[s]]
  /\ last_completed_task' = [last_completed_task EXCEPT ![k[1]] = Serial(k)]
  /\ Goto(k, "committed")
  /\ UNCHANGED <<commit_ts, synchronization_in_progress>>

TxCommitted(k) ==
  /\ At(k, "committed")
  /\ Become(k, [task[k] EXCEPT !.pc = "start", !.status = "committed", !.serial = @ + SpecDepth])
  /\ UNCHANGED shared

----------------------------------------------------------------------------
(* The clock overflows: StartSynchronization, RestartCommitTS *)

StartSynchronization(k) ==
  /\ At(k, "sync")
  /\ Become(k, [task[k] EXCEPT !.pc = IF synchronization_in_progress THEN "sync_other"
                                      ELSE "sync_wait", !.i = 1])
  /\ synchronization_in_progress' = TRUE
  /\ UNCHANGED <<last_completed_task, write_lock, commit_ts>>

SyncWait(k) ==
  /\ At(k, "sync_wait") /\ task[TaskAt(task[k].i)].status # "executing"
  /\ Become(k, IF task[k].i < NThreads * SpecDepth THEN [task[k] EXCEPT !.i = @ + 1]
               ELSE [task[k] EXCEPT !.pc = "restart_ts", !.i = 1])
  /\ UNCHANGED shared

RestartCommitTs(k) ==
  /\ At(k, "restart_ts")
  /\ commit_ts' = 1
  /\ Goto(k, "end_sync")
  /\ UNCHANGED <<last_completed_task, write_lock, synchronization_in_progress>>

EndSynchronization(k) ==
  /\ At(k, "end_sync")
  /\ synchronization_in_progress' = FALSE
  /\ Goto(k, "restart")
  /\ UNCHANGED <<last_completed_task, write_lock, commit_ts>>

\* Synchronize, in a task that came too late to restart the clock.
SyncOther(k) ==
  /\ At(k, "sync_other")
  /\ Become(k, IF synchronization_in_progress
               THEN [task[k] EXCEPT !.status = "idle", !.pc = "sync_other_wait"]
               ELSE [task[k] EXCEPT !.pc = "restart"])
  /\ UNCHANGED shared

SyncOtherWait(k) ==
  /\ At(k, "sync_other_wait") /\ ~ synchronization_in_progress
  /\ Goto(k, "restart")
  /\ UNCHANGED shared

\* TxRestart after the overflow: the commit task's own locks only.
TxRestart(k) ==
  /\ At(k, "restart")
  /\ write_lock' = [s \in DOMAIN write_lock |-> IF write_lock[s] = k THEN NULL ELSE write_lock[s]]
  /\ Become(k, [task[k] EXCEPT !.pc = "start", !.status = "restarted"])
  /\ UNCHANGED <<last_completed_task, commit_ts, synchronization_in_progress>>

Step(k) ==
  \/ TxStart(k) \/ StartSync(k) \/ StartWait(k) \/ StartAgain(k) \/ Write(k)
  \/ Complete(k) \/ Await(k) \/ IncrementCommitTs(k) \/ Commit(k) \/ TxCommitted(k)
  \/ StartSynchronization(k) \/ SyncWait(k) \/ RestartCommitTs(k) \/ EndSynchronization(k)
  \/ SyncOther(k) \/ SyncOtherWait(k) \/ TxRestart(k)

Next == \E k \in Task : Step(k)
Spec == Init /\ [][Next]_crvars /\ \A k \in Task : WF_crvars(Step(k))

----------------------------------------------------------------------------
\* A restart of the clock comes to its end: the tasks it waits for stop
\* executing, and nobody waits for ever at the start of a transaction.
RestartEnds == synchronization_in_progress ~> ~ synchronization_in_progress
=============================================================================
