----------------------------- MODULE AtomicTx -----------------------------
(***************************************************************************)
(* What TLSTM promises: a program thread's transactions happen one after   *)
(* the other, each at one instant, as if its tasks ran one after the other *)
(* in program order on the store the transactions before it left.          *)
(***************************************************************************)
EXTENDS Naturals, Sequences, SequencesExt, FiniteSetsExt

CONSTANTS Thread, SpecDepth, Addr, Code

VARIABLES
  store,  \* the committed value of every word
  done    \* number of transactions each program thread has committed

svars == <<store, done>>

\* A task reads into its accumulator and writes the accumulator plus one; an
\* operation happens only for some values of the accumulator.
Step(st, op) ==
  IF st.acc \notin op.when THEN st
  ELSE IF op.kind = "read" THEN [st EXCEPT !.acc = st.store[op.addr]]
  ELSE [st EXCEPT !.store[op.addr] = st.acc + 1]

RunTask(mem, ops) == FoldLeft(Step, [store |-> mem, acc |-> 0], ops).store

\* The tasks of the n-th transaction of p, in program order.
Tasks(p, n) == [k \in 1 .. SpecDepth |-> Code[p][n * SpecDepth + k - 1]]
RunTx(mem, p, n) == FoldLeft(RunTask, mem, Tasks(p, n))

Zero == [a \in Addr |-> 0]
Transactions(p) == Cardinality(DOMAIN Code[p]) \div SpecDepth

\* The stores that all the transactions leave, over every order of them that
\* keeps the order of each program thread's own.
Orders ==
  LET n == FoldSet(LAMBDA p, sum : sum + Transactions(p), 0, Thread)
  IN {o \in [1 .. n -> Thread] :
        \A p \in Thread : Cardinality({i \in 1 .. n : o[i] = p}) = Transactions(p)}
RunNext(st, p) == [store |-> RunTx(st.store, p, st.done[p] + 1),
                 done |-> [st.done EXCEPT ![p] = @ + 1]]
SerialOutcomes ==
  {FoldLeft(RunNext, [store |-> Zero, done |-> [p \in Thread |-> 0]], o).store : o \in Orders}

SInit == /\ store = Zero
         /\ done = [p \in Thread |-> 0]

Commit(p) == /\ done[p] < Transactions(p)
             /\ store' = RunTx(store, p, done[p] + 1)
             /\ done' = [done EXCEPT ![p] = @ + 1]

SNext == \E p \in Thread : Commit(p)

SSpec == SInit /\ [][SNext]_svars
=============================================================================
