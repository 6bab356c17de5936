------------------------------- MODULE Intset -------------------------------
(***************************************************************************)
(* The benchmark on top of the task protocol (mubench/intset.c):           *)
(* task_threads runs one task of each transaction of a program thread,     *)
(* main creates the tasks, joins them, and compares the size of the set    *)
(* with what the tasks have counted.  A transaction is one step on the     *)
(* set (Tlstm), in which its tasks' operations take effect in order        *)
(* (Serializable), and which tells each task its answer.                   *)
(***************************************************************************)
EXTENDS Integers, FiniteSets, FiniteSetsExt

CONSTANTS
  NbThreads, NbTasks,  \* nb_threads, nb_tasks
  range,               \* the values are 1 .. range
  Initial,             \* the sizes of the set before the test
  NUM_OPS              \* the transactions of a thread are 1 .. NUM_OPS - 1

Thread == 1 .. NbThreads
Slot == 0 .. NbTasks - 1
Task == Thread \X Slot
Main == <<0, 0>>
Element == 1 .. range
INSTANCE Barrier WITH Count <- NbThreads * NbTasks + 1

VARIABLES
  set,      \* the elements of the set
  task,     \* task_data_t, where the task is, and the answer it has not counted yet
  ops,      \* per thread: the add and value of main's loop that fills ops
  barrier,
  main      \* where main is, size, and the tasks it has joined

vars == <<set, task, ops, barrier, main>>

At(k, pc) == task[k].pc = pc
Goto(k, pc) == task' = [task EXCEPT ![k].pc = pc]
\* The order of data[] and threads[].
InOrder(i) == <<(i \div NbTasks) + 1, i % NbTasks>>

Init ==
  /\ set \in {s \in SUBSET Element : Cardinality(s) \in Initial}
  /\ task = [k \in Task |-> [pc |-> "enter", serial |-> k[2] + NbTasks, diff |-> 0,
                             type |-> "none", answer |-> FALSE]]
  /\ ops = [p \in Thread |-> [add |-> 0, value |-> 0]]
  /\ barrier = BarrierInit
  /\ main = [pc |-> "enter", size |-> Cardinality(set), joined |-> 0]

----------------------------------------------------------------------------
(* barrier_cross, by the tasks and by main *)

Cross(k) ==
  /\ At(k, "enter")
  /\ barrier' = BarrierCross(barrier, k)
  /\ Goto(k, "barrier")
  /\ UNCHANGED <<set, ops, main>>

Leave(k) ==
  /\ At(k, "barrier") /\ Through(barrier, k)
  /\ Goto(k, "loop")
  /\ UNCHANGED <<set, ops, barrier, main>>

MainCross ==
  /\ main.pc = "enter"
  /\ barrier' = BarrierCross(barrier, Main)
  /\ main' = [main EXCEPT !.pc = "barrier"]
  /\ UNCHANGED <<set, task, ops>>

MainLeave ==
  /\ main.pc = "barrier" /\ Through(barrier, Main)
  /\ main' = [main EXCEPT !.pc = "join"]
  /\ UNCHANGED <<set, task, ops, barrier>>

SpuriousWakeup ==
  /\ \E t \in barrier.waiting : barrier' = Spurious(barrier, t)
  /\ UNCHANGED <<set, task, ops, main>>

----------------------------------------------------------------------------
(* task_threads *)

\* What main's loop puts into ops for the tasks of a transaction, from a draw
\* per task: an update transaction adds a value and removes it in turns, the
\* others look for values.  (NUM_OPS here is too small for add's % 2001.)
Plan(p, update, draw) ==
  [j \in Slot |->
    IF ~ update THEN [type |-> "contains", value |-> draw[j]]
    ELSE IF (ops[p].add + j) % 2 = 0 THEN [type |-> "add", value |-> draw[j]]
    ELSE [type |-> "remove", value |-> IF j = 0 THEN ops[p].value ELSE draw[j - 1]]]

\* set_add, set_remove, set_contains.
Apply(s, op) ==
  CASE op.type = "add" -> s \cup {op.value}
    [] op.type = "remove" -> s \ {op.value}
    [] OTHER -> s
Answer(s, op) == IF op.type = "add" THEN op.value \notin s ELSE op.value \in s

\* The set that task j of a transaction finds.
Before(plan) ==
  LET before[j \in 0 .. NbTasks] == IF j = 0 THEN set ELSE Apply(before[j - 1], plan[j - 1])
  IN before

\* START_ID ... COMMIT of all the tasks of a transaction, at their serials.
Transaction(p) ==
  /\ \A j \in Slot : /\ At(<<p, j>>, "loop")
                     /\ task[<<p, j>>].serial < NUM_OPS * NbTasks
                     /\ task[<<p, j>>].serial - j = task[<<p, 0>>].serial
  /\ \E update \in BOOLEAN, draw \in [Slot -> Element] :
       LET plan == Plan(p, update, draw)
           before == Before(plan)
           added == {j \in Slot : plan[j].type = "add"}
       IN /\ set' = before[NbTasks]
          /\ task' = [k \in Task |->
               IF k[1] # p THEN task[k]
               ELSE [task[k] EXCEPT !.pc = "count", !.type = plan[k[2]].type,
                                    !.answer = Answer(before[k[2]], plan[k[2]])]]
          /\ ops' = [ops EXCEPT ![p] =
               [add |-> IF update THEN (@.add + NbTasks) % 2 ELSE @.add,
                value |-> IF added = {} THEN @.value ELSE plan[Max(added)].value]]
  /\ UNCHANGED <<barrier, main>>

CountAdds(k) ==  \* fault: an add that found its value is counted
  /\ At(k, "count")
  /\ task' = [task EXCEPT ![k] =
       [@ EXCEPT !.pc = "loop", !.serial = @ + NbTasks, !.type = "none", !.answer = FALSE,
                 !.diff = @ + (IF task[k].type = "add" THEN 1
                               ELSE IF task[k].answer /\ task[k].type = "remove" THEN -1 ELSE 0)]]
  /\ UNCHANGED <<set, ops, barrier, main>>

\* The task counts its answer, which is its own data, and goes on to its task
\* of the next transaction.
CountDiff(k) ==
  /\ At(k, "count")
  /\ task' = [task EXCEPT ![k] =
       [@ EXCEPT !.pc = "loop", !.serial = @ + NbTasks, !.type = "none", !.answer = FALSE,
                 !.diff = @ + (IF ~ task[k].answer THEN 0
                               ELSE IF task[k].type = "add" THEN 1
                               ELSE IF task[k].type = "remove" THEN -1 ELSE 0)]]
  /\ UNCHANGED <<set, ops, barrier, main>>

Exit(k) ==
  /\ At(k, "loop") /\ task[k].serial >= NUM_OPS * NbTasks
  /\ Goto(k, "exit")
  /\ UNCHANGED <<set, ops, barrier, main>>

----------------------------------------------------------------------------
(* main *)

Join ==
  /\ main.pc = "join" /\ At(InOrder(main.joined), "exit")
  /\ main' = [main EXCEPT !.joined = @ + 1,
                          !.pc = IF main.joined + 1 = NbThreads * NbTasks THEN "sum" ELSE "join"]
  /\ UNCHANGED <<set, task, ops, barrier>>

Report ==
  /\ main.pc = "sum"
  /\ main' = [main EXCEPT !.pc = "done",
                          !.size = @ + MapThenSumSet(LAMBDA k : task[k].diff, Task)]
  /\ UNCHANGED <<set, task, ops, barrier>>

Step == \/ \E k \in Task : Cross(k) \/ Leave(k) \/ CountDiff(k) \/ Exit(k)
        \/ \E p \in Thread : Transaction(p)
        \/ MainCross \/ MainLeave \/ Join \/ Report
Next == Step \/ SpuriousWakeup
Spec == Init /\ [][Next]_vars /\ WF_vars(Step)

----------------------------------------------------------------------------
(* Properties *)

\* "Set size: %d (expected: %d)": the two are the same in the end, although
\* each task has counted, after the commit, an answer that another task of its
\* transaction or another thread may have made out of date.
SizeIsExpected == main.pc = "done" => main.size = Cardinality(set)

\* The benchmark ends: whoever comes last lets everybody through the barrier,
\* also those that a spurious wake-up has let through before, and no task waits
\* for a task of its transaction that has stopped.
BenchmarkEnds == <>(main.pc = "done")
=============================================================================
