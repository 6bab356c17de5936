--------------------------- MODULE ThreadBarrier ---------------------------
(***************************************************************************)
(* Parallel sections of the benchmarks (mubench/thread.c): secondary       *)
(* threads wait at a logarithmic barrier for the primary thread to start a *)
(* section, run it, and meet again at its end.  What a thread does under   *)
(* one countLock is a step.  A wait ends only when it is signalled: unlike  *)
(* the wait on proceedCond, that on proceedAllCond looks at nothing again,  *)
(* and SectionsApart does not survive a spurious wake-up of it.             *)
(***************************************************************************)
EXTENDS Integers

CONSTANTS
  numThread,  \* a power of two
  Sections    \* bound: the sections that are started

\* Whoever divides it is even, or 1; with one thread, thread_barrier returns at once.
ASSUME BarrierAssumption ==
  /\ numThread \in Nat \ {0, 1}
  /\ \A d \in 2 .. numThread : numThread % d = 0 => d % 2 = 0

Thread == 0 .. numThread - 1
Index == 0 .. numThread - 2

VARIABLES
  count,      \* per node of the barrier
  asleep,     \* the threads that wait for proceedAllCond of their node
  thread,     \* where each thread is, and its i
  started,    \* sections the primary thread has started: global_funcPtr
  global_doShutdown

svars == <<count, asleep, thread, started, global_doShutdown>>

\* "startup" is where a thread waits for the start of a section, "func" where
\* it runs it, and "section end" where it waits for its end.
Enter(then) == [pc |-> "up", i |-> 2, then |-> then]

\* thread_startup: the primary thread returns, the others call threadWait.
SInit == /\ count = [n \in Index |-> 0] /\ asleep = {}
        /\ thread = [t \in Thread |-> IF t = 0 THEN [pc |-> "main", i |-> 0, then |-> "main"]
                                      ELSE Enter("started")]
        /\ started = 0 /\ global_doShutdown = FALSE

At(t, pc) == thread[t].pc = pc
Become(t, r) == thread' = [thread EXCEPT ![t] = r]
Goto(t, pc) == Become(t, [thread[t] EXCEPT !.pc = pc])

----------------------------------------------------------------------------
(* thread_barrier *)

\* base, when the loops have come to i: numThread / 2 + numThread / 4 + ...
base(i) == numThread - (2 * numThread) \div i
NodeOf(t) == base(thread[t].i) + t \div thread[t].i

\* The loop upwards: a winner waits, in a loop, until its partner has come (who
\* signals proceedCond), a loser for its partner to come back down.
Winner(t) == t % thread[t].i = 0
Arrive(t) ==
  /\ At(t, "up")
  /\ count' = [count EXCEPT ![NodeOf(t)] = @ + 1]
  /\ Goto(t, IF Winner(t) THEN "proceed" ELSE "proceed_all")
  /\ asleep' = IF Winner(t) THEN asleep ELSE asleep \cup {t}
  /\ UNCHANGED <<started, global_doShutdown>>

Proceed(t) ==
  /\ At(t, "proceed") /\ count[NodeOf(t)] >= 2
  /\ Become(t, IF 2 * thread[t].i <= numThread THEN [thread[t] EXCEPT !.pc = "up", !.i = 2 * @]
               ELSE [thread[t] EXCEPT !.pc = "down"])
  /\ UNCHANGED <<count, asleep, started, global_doShutdown>>

\* The loop downwards starts at half of the i where the thread has stopped:
\* for a loser, below the node where it lost.
Released(t, i) ==
  IF i > 1 THEN [thread[t] EXCEPT !.pc = "down", !.i = i]
  ELSE [thread[t] EXCEPT !.pc = thread[t].then, !.i = 0]
ProceedAll(t) ==
  /\ At(t, "proceed_all") /\ t \notin asleep
  /\ Become(t, Released(t, thread[t].i \div 2))
  /\ UNCHANGED <<count, asleep, started, global_doShutdown>>

Loser(n) == {u \in asleep : NodeOf(u) = n}
LowerKeepsCount(t) ==  \* fault: count is not reset
  /\ At(t, "down")
  /\ asleep' = asleep \ Loser(NodeOf(t))
  /\ Become(t, Released(t, thread[t].i \div 2))
  /\ UNCHANGED <<count, started, global_doShutdown>>

Lower(t) ==
  /\ At(t, "down")
  /\ count' = [count EXCEPT ![NodeOf(t)] = 0]
  /\ asleep' = asleep \ Loser(NodeOf(t))
  /\ Become(t, Released(t, thread[t].i \div 2))
  /\ UNCHANGED <<started, global_doShutdown>>

----------------------------------------------------------------------------
(* threadWait, thread_start, thread_shutdown *)

thread_start ==
  /\ At(0, "main") /\ started < Sections
  /\ started' = started + 1
  /\ Become(0, Enter("started"))
  /\ UNCHANGED <<count, asleep, global_doShutdown>>

thread_shutdown ==
  /\ At(0, "main") /\ ~ global_doShutdown
  /\ global_doShutdown' = TRUE
  /\ Become(0, Enter("join"))
  /\ UNCHANGED <<count, asleep, started>>

Started(t) ==
  /\ At(t, "started")
  /\ Goto(t, IF global_doShutdown THEN "exit" ELSE "func")
  /\ UNCHANGED <<count, asleep, started, global_doShutdown>>

\* The section's function ends.
FuncDone(t) ==
  /\ At(t, "func")
  /\ Become(t, Enter("ended"))
  /\ UNCHANGED <<count, asleep, started, global_doShutdown>>

Ended(t) ==
  /\ At(t, "ended")
  /\ Become(t, IF t = 0 THEN [thread[t] EXCEPT !.pc = "main", !.then = "main"]
               ELSE Enter("started"))
  /\ UNCHANGED <<count, asleep, started, global_doShutdown>>

Join ==
  /\ At(0, "join") /\ \A t \in Thread \ {0} : At(t, "exit")
  /\ Goto(0, "done")
  /\ UNCHANGED <<count, asleep, started, global_doShutdown>>

Step(t) == \/ Arrive(t) \/ Proceed(t) \/ ProceedAll(t) \/ Lower(t)
           \/ Started(t) \/ FuncDone(t) \/ Ended(t)
SNext == (\E t \in Thread : Step(t)) \/ thread_start \/ thread_shutdown \/ Join
SFairness == (\A t \in Thread : WF_svars(Step(t))) /\ WF_svars(thread_shutdown) /\ WF_svars(Join)
SSpec == SInit /\ [][SNext]_svars /\ SFairness

----------------------------------------------------------------------------
(* Properties *)

\* Sections do not overlap: while a thread runs the function of a section, none
\* has left the barrier at its end or still waits to leave that of the section
\* before, and the primary thread is not back in main.
SectionsApart ==
  \A t \in Thread : At(t, "func") =>
    \A u \in Thread : thread[u].then = "started" \/ (thread[u].then = "ended" /\ ~ At(u, "ended"))

\* thread_shutdown returns: the barrier lets everybody out of every section.
ShutdownEnds == global_doShutdown ~> At(0, "done")
=============================================================================
