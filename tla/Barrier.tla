------------------------------ MODULE Barrier ------------------------------
(***************************************************************************)
(* The barrier of the benchmarks (barrier_t of mubench/intset.c and        *)
(* mubench/intset_swisstm.c), for programs that use one.  Its mutex makes  *)
(* a crossing one step; the wait is not in a loop, so that a spurious      *)
(* wake-up of pthread_cond_wait lets its thread through.                   *)
(***************************************************************************)
EXTENDS Integers

CONSTANT Count  \* how many threads are to cross

BarrierInit == [crossing |-> 0, waiting |-> {}]

BarrierCrossWakesOne(b, t) ==  \* fault: pthread_cond_signal
  IF b.crossing + 1 < Count THEN [crossing |-> b.crossing + 1, waiting |-> b.waiting \cup {t}]
  ELSE [crossing |-> 0, waiting |-> IF b.waiting = {} THEN {}
                                    ELSE b.waiting \ {CHOOSE u \in b.waiting : TRUE}]
\* barrier_cross by t up to the wait: the last thread wakes the others.
BarrierCross(b, t) ==
  IF b.crossing + 1 < Count THEN [crossing |-> b.crossing + 1, waiting |-> b.waiting \cup {t}]
  ELSE BarrierInit

\* The wait of t is over.
Through(b, t) == t \notin b.waiting
Spurious(b, t) == [b EXCEPT !.waiting = @ \ {t}]
=============================================================================
