----------------------------- MODULE ThreadPool -----------------------------
(***************************************************************************)
(* The thread pool of the benchmarks (mubench/threadpool.c).  One thread   *)
(* dispatches tasks in the order of their task_id; workers take them from  *)
(* a ring.  The mutex makes what happens between two waits one step.       *)
(***************************************************************************)
EXTENDS Integers, FiniteSets

CONSTANTS
  Worker,   \* the threads of the pool
  Tasks,    \* bound: the tasks that are dispatched
  NoTask

ASSUME PoolAssumption == IsFiniteSet(Worker) /\ Worker # {}

arrsz == Cardinality(Worker)
Slot == 0 .. arrsz - 1

VARIABLES
  ops, next_op, num_ops_waiting, num_ops_working,
  worker,      \* "idle", "asleep" on job_posted, or "working"
  myarg,       \* what a worker has copied out of ops
  dispatcher,  \* "idle", or "asleep" on job_taken
  task_id      \* the next task to be dispatched

vars == <<ops, next_op, num_ops_waiting, num_ops_working, worker, myarg, dispatcher, task_id>>

Init == /\ ops = [s \in Slot |-> NoTask] /\ next_op = 0
        /\ num_ops_waiting = 0 /\ num_ops_working = 0
        /\ worker = [w \in Worker |-> "idle"] /\ myarg = [w \in Worker |-> NoTask]
        /\ dispatcher = "idle" /\ task_id = 0

\* pthread_cond_signal(&pool->job_posted), when the workers are as in ws: one
\* of those asleep, if any, looks again.
Signal(ws) ==
  LET asleep == {w \in Worker : ws[w] = "asleep"}
  IN IF asleep = {} THEN {ws} ELSE {[ws EXCEPT ![w] = "idle"] : w \in asleep}

----------------------------------------------------------------------------
(* do_work *)

Sleep(w) ==
  /\ worker[w] = "idle" /\ num_ops_waiting = 0
  /\ worker' = [worker EXCEPT ![w] = "asleep"]
  /\ UNCHANGED <<ops, next_op, num_ops_waiting, num_ops_working, myarg, dispatcher, task_id>>

Take(w) ==
  /\ worker[w] = "idle" /\ num_ops_waiting # 0
  /\ myarg' = [myarg EXCEPT ![w] = ops[next_op]]
  /\ next_op' = (next_op + 1) % arrsz
  /\ num_ops_waiting' = num_ops_waiting - 1
  /\ worker' \in Signal([worker EXCEPT ![w] = "working"])
  /\ UNCHANGED <<ops, num_ops_working, dispatcher, task_id>>

DoneSilently(w) ==  \* fault: the dispatcher is not told
  /\ worker[w] = "working"
  /\ worker' = [worker EXCEPT ![w] = "idle"] /\ myarg' = [myarg EXCEPT ![w] = NoTask]
  /\ num_ops_working' = num_ops_working - 1
  /\ UNCHANGED <<ops, next_op, num_ops_waiting, dispatcher, task_id>>

\* The job is run, and job_taken is signalled.
Done(w) ==
  /\ worker[w] = "working"
  /\ worker' = [worker EXCEPT ![w] = "idle"] /\ myarg' = [myarg EXCEPT ![w] = NoTask]
  /\ num_ops_working' = num_ops_working - 1
  /\ dispatcher' = "idle"
  /\ UNCHANGED <<ops, next_op, num_ops_waiting, task_id>>

----------------------------------------------------------------------------
(* dispatch *)

DispatchWait ==
  /\ dispatcher = "idle" /\ task_id < Tasks /\ num_ops_working = arrsz
  /\ worker' \in Signal(worker)
  /\ dispatcher' = "asleep"
  /\ UNCHANGED <<ops, next_op, num_ops_waiting, num_ops_working, myarg, task_id>>

Post ==
  /\ ops' = [ops EXCEPT ![task_id % arrsz] = task_id]
  /\ num_ops_waiting' = num_ops_waiting + 1 /\ num_ops_working' = num_ops_working + 1
  /\ task_id' = task_id + 1
  /\ worker' \in Signal(worker)
  /\ UNCHANGED <<next_op, myarg, dispatcher>>

DispatchFull ==  \* fault: room for one task more than there are workers
  dispatcher = "idle" /\ task_id < Tasks /\ num_ops_working <= arrsz /\ Post
Dispatch == dispatcher = "idle" /\ task_id < Tasks /\ num_ops_working # arrsz /\ Post

\* A pthread_cond_wait may end by itself; both waits are in loops.
SpuriousWakeup ==
  /\ \/ dispatcher = "asleep" /\ dispatcher' = "idle" /\ UNCHANGED worker
     \/ /\ \E w \in Worker : worker[w] = "asleep" /\ worker' = [worker EXCEPT ![w] = "idle"]
        /\ UNCHANGED dispatcher
  /\ UNCHANGED <<ops, next_op, num_ops_waiting, num_ops_working, myarg, task_id>>

WorkerStep(w) == Sleep(w) \/ Take(w) \/ Done(w)
Next == DispatchWait \/ Dispatch \/ SpuriousWakeup \/ \E w \in Worker : WorkerStep(w)
Fairness == WF_vars(DispatchWait \/ Dispatch) /\ \A w \in Worker : WF_vars(WorkerStep(w))
Spec == Init /\ [][Next]_vars /\ Fairness

----------------------------------------------------------------------------
(* Properties *)

\* Although workers take by position and dispatch stores by task_id, a worker
\* takes the oldest task nobody has taken: no task is overwritten in the ring,
\* lost or run twice.
OldestFirst == [][\A w \in Worker : Take(w) => myarg'[w] = task_id - num_ops_waiting]_vars

\* Every task was dispatched and run: whoever sleeps is woken when there is
\* something to do, so that this comes about in the end.
AllRun == task_id = Tasks /\ num_ops_working = 0
=============================================================================
