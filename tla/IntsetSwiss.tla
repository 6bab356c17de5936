---------------------------- MODULE IntsetSwiss ----------------------------
(***************************************************************************)
(* The benchmark on top of SwissTM (mubench/intset_swisstm.c): threads run *)
(* transactions of one operation until main, having slept, tells them to   *)
(* stop.  A transaction is one step on the set (SwissTm).                  *)
(***************************************************************************)
EXTENDS Integers, FiniteSets, FiniteSetsExt

CONSTANTS
  NbThreads,  \* nb_threads
  range,      \* the values are 1 .. range
  Initial     \* the sizes of the set before the test

Thread == 1 .. NbThreads
Main == 0
Element == 1 .. range
INSTANCE Barrier WITH Count <- NbThreads + 1

VARIABLES
  set,      \* the elements of the set
  thread,   \* thread_data_t, where the thread is, and its answer
  stop,
  barrier,
  main      \* where main is, size, and how many threads it has joined

vars == <<set, thread, stop, barrier, main>>

At(t, pc) == thread[t].pc = pc
Become(t, r) == thread' = [thread EXCEPT ![t] = r]
Goto(t, pc) == Become(t, [thread[t] EXCEPT !.pc = pc])

Init ==
  /\ set \in {s \in SUBSET Element : Cardinality(s) \in Initial}
  /\ thread = [t \in Thread |-> [pc |-> "enter", last |-> -1, diff |-> 0, val |-> 0]]
  /\ stop = FALSE
  /\ barrier = BarrierInit
  /\ main = [pc |-> "enter", size |-> Cardinality(set), joined |-> 0]

----------------------------------------------------------------------------
(* test *)

Cross(t) ==
  /\ At(t, "enter")
  /\ barrier' = BarrierCross(barrier, t) /\ Goto(t, "barrier")
  /\ UNCHANGED <<set, stop, main>>

Leave(t) ==
  /\ At(t, "barrier") /\ Through(barrier, t)
  /\ Goto(t, "loop")
  /\ UNCHANGED <<set, stop, barrier, main>>

SpuriousWakeup ==
  /\ \E t \in barrier.waiting : barrier' = Spurious(barrier, t)
  /\ UNCHANGED <<set, thread, stop, main>>

AddCounts(t, val) ==  \* fault: a value that an add finds is the thread's own too
  /\ At(t, "loop") /\ ~ stop /\ thread[t].last < 0
  /\ set' = set \cup {val}
  /\ Become(t, [thread[t] EXCEPT !.pc = "added", !.val = val])
  /\ UNCHANGED <<stop, barrier, main>>

\* set_add of a random value, when the last value added was removed.
Add(t, val) ==
  /\ At(t, "loop") /\ ~ stop /\ thread[t].last < 0
  /\ set' = set \cup {val}
  /\ IF val \in set THEN UNCHANGED thread
     ELSE Become(t, [thread[t] EXCEPT !.pc = "added", !.val = val])
  /\ UNCHANGED <<stop, barrier, main>>

Added(t) ==
  /\ At(t, "added")
  /\ Become(t, [thread[t] EXCEPT !.pc = "loop", !.diff = @ + 1, !.last = thread[t].val, !.val = 0])
  /\ UNCHANGED <<set, stop, barrier, main>>

\* set_remove of the last value added.
Remove(t) ==
  /\ At(t, "loop") /\ ~ stop /\ thread[t].last >= 0
  /\ set' = set \ {thread[t].last}
  /\ Become(t, [thread[t] EXCEPT !.pc = "removed", !.val = IF thread[t].last \in set THEN 1 ELSE 0])
  /\ UNCHANGED <<stop, barrier, main>>

Removed(t) ==
  /\ At(t, "removed")
  /\ Become(t, [thread[t] EXCEPT !.pc = "loop", !.diff = @ - thread[t].val, !.last = -1, !.val = 0])
  /\ UNCHANGED <<set, stop, barrier, main>>

\* set_contains changes nothing.  The loop ends when stop is read.
Stop(t) ==
  /\ At(t, "loop") /\ stop
  /\ Goto(t, "exit")
  /\ UNCHANGED <<set, stop, barrier, main>>

----------------------------------------------------------------------------
(* main *)

MainCross ==
  /\ main.pc = "enter"
  /\ barrier' = BarrierCross(barrier, Main)
  /\ main' = [main EXCEPT !.pc = "barrier"]
  /\ UNCHANGED <<set, thread, stop>>

\* After the barrier, and a nap of any length.
SetStop ==
  /\ main.pc = "barrier" /\ Through(barrier, Main)
  /\ stop' = TRUE
  /\ main' = [main EXCEPT !.pc = "join"]
  /\ UNCHANGED <<set, thread, barrier>>

Join ==
  /\ main.pc = "join" /\ At(main.joined + 1, "exit")
  /\ main' = [main EXCEPT !.joined = @ + 1,
                          !.pc = IF main.joined + 1 = NbThreads THEN "sum" ELSE "join"]
  /\ UNCHANGED <<set, thread, stop, barrier>>

\* The loop adds each diff twice.
Report ==
  /\ main.pc = "sum"
  /\ main' = [main EXCEPT !.pc = "done",
                !.size = @ + MapThenSumSet(LAMBDA t : thread[t].diff + thread[t].diff, Thread)]
  /\ UNCHANGED <<set, thread, stop, barrier>>

Next ==
  \/ \E t \in Thread : \/ Cross(t) \/ Leave(t) \/ Added(t) \/ Remove(t) \/ Removed(t) \/ Stop(t)
                       \/ \E val \in Element : Add(t, val)
  \/ SpuriousWakeup \/ MainCross \/ SetStop \/ Join \/ Report
Spec == Init /\ [][Next]_vars

----------------------------------------------------------------------------
(* Properties *)

\* A thread takes out the value it has put in last, without looking at the set
\* again: no other thread has taken it out before, or has it as its own.  So every
\* removal finds its value, and a thread's diff is 0 or 1.
OwnsItsValue ==
  \A t \in Thread :
    /\ thread[t].last > 0 /\ ~ At(t, "removed") => thread[t].last \in set
    /\ At(t, "removed") => thread[t].val = 1
    /\ thread[t].diff \in {0, 1}
=============================================================================
