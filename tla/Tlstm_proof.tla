----------------------------- MODULE Tlstm_proof -----------------------------
(***************************************************************************)
(* What Tlstm promises, for every number of threads, tasks, stripes and    *)
(* words and every program.                                                *)
(*                                                                         *)
(* First, TypeOK and InOrder, an inductive invariant: with it tasks take   *)
(* turns, a task that is working has not completed, and a signal to        *)
(* restart reaches only tasks that wait for it.                            *)
(*                                                                         *)
(* Then, of the locks: the write locks lead to chains of log entries, and  *)
(* a read lock is held only by a transaction that is committing.           *)
(***************************************************************************)
EXTENDS Tlstm, WellFoundedInduction, TLAPS

(***************************************************************************)
(* The first and the last entry of a non-empty set of log entries exist.   *)
(***************************************************************************)

\* A non-empty set of numbers has a least element.
LEMMA Least == ASSUME NEW S \in SUBSET Nat, S # {}
               PROVE \E m \in S : \A n \in S : m <= n
<1>1. IsWellFoundedOn(OpToRel(<, Nat), Nat)
  BY NatLessThanWellFounded
<1>2. PICK m \in S : \A n \in S : ~ (<<n, m>> \in OpToRel(<, Nat))
  BY <1>1, WFMin
<1>3. \A n \in S : ~ (n < m)
  BY <1>2 DEF OpToRel
<1>4. QED BY <1>3

\* A non-empty set of numbers up to n has a greatest element.
LEMMA Greatest == ASSUME NEW n \in Nat, NEW S \in SUBSET (0 .. n), S # {}
                  PROVE \E m \in S : \A k \in S : k <= m
<1> DEFINE T == {n - k : k \in S}
<1>1. T \in SUBSET Nat /\ T # {}
  <2>1. PICK k \in S : TRUE
    OBVIOUS
  <2>2. n - k \in T
    OBVIOUS
  <2>3. ASSUME NEW e \in T PROVE e \in Nat
    OBVIOUS
  <2>4. QED BY <2>2, <2>3
<1>2. PICK d \in T : \A e \in T : d <= e
  <2> HIDE DEF T
  <2> QED BY <1>1, Least
<1>3. PICK m \in S : d = n - m
  OBVIOUS
<1>4. ASSUME NEW k \in S PROVE k <= m
  <2>1. n - k \in T
    OBVIOUS
  <2>2. n - m <= n - k
    BY <1>2, <1>3, <2>1
  <2> QED BY <2>2
<1>5. QED BY <1>4

\* What is assumed of the constants, in the form the proofs use.
LEMMA Constants == /\ SpecDepth \in Nat /\ SpecDepth >= 1
                   /\ CommitTask \in Nat /\ CommitTask = SpecDepth - 1
                   /\ LogSize \in Nat /\ MaxTs \in Nat /\ CmAccessThreshold \in Nat
                   /\ StripeOf \in [Addr -> Stripe]
                   /\ NULL \notin Ptr /\ NULL \notin Nat
  BY TlstmAssumption DEF CommitTask

\* The loops over the write logs find an entry to begin with.
LEMMA FirstLast == ASSUME NEW S \in SUBSET Ptr, S # {}
                   PROVE  /\ FirstOf(S) \in S /\ \A f \in S : Before(FirstOf(S), f)
                          /\ LastOf(S) \in S /\ \A f \in S : Before(f, LastOf(S))
<1> DEFINE K == {e[1][2] : e \in S}
<1>1. K \in SUBSET (0 .. CommitTask) /\ K # {}
  BY DEF Ptr, Task, CommitTask
<1>2. K \in SUBSET Nat
  BY <1>1
<1>3. \E e \in S : \A f \in S : Before(e, f)
  <2>1. PICK k \in K : \A j \in K : k <= j
    <3> HIDE DEF K
    <3> QED BY <1>1, <1>2, Least
  <2> DEFINE I == {e[2] : e \in {x \in S : x[1][2] = k}}
  <2>2. I \in SUBSET Nat /\ I # {}
    BY <2>1 DEF Ptr
  <2>3. PICK i \in I : \A j \in I : i <= j
    <3> HIDE DEF I
    <3> QED BY <2>2, Least
  <2>4. PICK e \in S : e[1][2] = k /\ e[2] = i
    BY <2>3
  <2>5. ASSUME NEW f \in S PROVE Before(e, f)
    <3>1. k <= f[1][2] /\ k \in Nat /\ f[1][2] \in Nat
      BY <2>1, <1>2
    <3>2. CASE f[1][2] = k
      BY <3>2, <2>3, <2>4 DEF Before
    <3>3. CASE f[1][2] # k
      BY <3>1, <3>3, <2>4 DEF Before
    <3>4. QED BY <3>2, <3>3
  <2>6. QED BY <2>4, <2>5
<1>4. \E e \in S : \A f \in S : Before(f, e)
  <2>1. PICK k \in K : \A j \in K : j <= k
    <3> HIDE DEF K
    <3> QED BY <1>1, Greatest, Constants
  <2> DEFINE I == {e[2] : e \in {x \in S : x[1][2] = k}}
  <2>2. I \in SUBSET (0 .. LogSize) /\ I # {}
    BY <2>1, Constants DEF Ptr
  <2>3. PICK i \in I : \A j \in I : j <= i
    <3> HIDE DEF I
    <3> QED BY <2>2, Greatest, Constants
  <2>4. PICK e \in S : e[1][2] = k /\ e[2] = i
    BY <2>3
  <2>5. ASSUME NEW f \in S PROVE Before(f, e)
    <3>1. f[1][2] <= k /\ k \in Nat /\ f[1][2] \in Nat
      BY <2>1, <1>2
    <3>2. CASE f[1][2] = k
      BY <3>2, <2>3, <2>4 DEF Before
    <3>3. CASE f[1][2] # k
      BY <3>1, <3>3, <2>4 DEF Before
    <3>4. QED BY <3>2, <3>3
  <2>6. QED BY <2>4, <2>5
<1>5. QED BY <1>3, <1>4 DEF FirstOf, LastOf

----------------------------------------------------------------------------
(***************************************************************************)
(* Steps that replace the record of one task.                              *)
(***************************************************************************)

\* Working, of a record r that task t may have.
WorkingAs(t, r) ==
  /\ r.pc \in Accessing \cup {"run"} => r.serial \in DOMAIN Code[t[1]]
  /\ r.pc \in Accessing => r.ip <= Len(Code[t[1]][r.serial])
  /\ r.pc = "read_task" => r.ptr # NULL
  /\ r.serial >= SpecDepth + t[2]

\* A step that gives one task a well-typed record keeps the tasks well-typed.
LEMMA BecomeTyped ==
  ASSUME TypeOK, NEW t \in Task, NEW r \in TaskState, WorkingAs(t, r), Become(t, r)
  PROVE  tx' \in [Task -> TaskState] /\ \A u \in Task : Working(u)'
<1>1. tx' = [tx EXCEPT ![t] = r] /\ tx \in [Task -> TaskState]
  BY DEF Become, TypeOK
<1>2. tx' \in [Task -> TaskState]
  BY <1>1
<1>3. ASSUME NEW u \in Task PROVE Working(u)'
  <2>1. CASE u = t
    BY <1>1, <2>1 DEF Working, WorkingAs, HasTx, Ops
  <2>2. CASE u # t
    <3>1. tx'[u] = tx[u]
      BY <1>1, <2>2
    <3>2. Working(u)
      BY DEF TypeOK
    <3>3. QED BY <3>1, <3>2 DEF Working, HasTx, Ops
  <2>3. QED BY <2>1, <2>2
<1>4. QED BY <1>2, <1>3

\* ... and nothing else changes.
LEMMA OneTaskTyped ==
  ASSUME TypeOK, NEW t \in Task, NEW r \in TaskState, WorkingAs(t, r), Become(t, r),
         UNCHANGED <<prog_thread, entry, locks, memory, clocks, validator>>
  PROVE  TypeOK'
<1>1. tx' \in [Task -> TaskState] /\ \A u \in Task : Working(u)'
  BY BecomeTyped
<1>2. QED BY <1>1 DEF TypeOK, locks, clocks

\* What TypeOK says of the record of one task.
LEMMA TaskTyped ==
  ASSUME TypeOK, NEW t \in Task
  PROVE  /\ tx[t] \in TaskState /\ Working(t) /\ PT(t) \in ThreadState
         /\ t[1] \in Thread /\ t[2] \in 0 .. CommitTask
  BY DEF TypeOK, Task, PT, CommitTask

\* Steps that only go on to a pc that is not part of an access, or from one pc
\* of an access to another.
LEMMA GotoTyped ==
  ASSUME TypeOK, NEW t \in Task, NEW pc \in PC, Goto(t, pc),
         pc = "read_task" => tx[t].ptr # NULL,
         pc \in Accessing => HasTx(t) /\ tx[t].ip <= Len(Ops(t)),
         pc = "run" => HasTx(t)
  PROVE  tx' \in [Task -> TaskState] /\ \A u \in Task : Working(u)'
<1> DEFINE r == [tx[t] EXCEPT !.pc = pc]
<1>1. tx[t] \in TaskState /\ Working(t)
  BY TaskTyped
<1>2. r \in TaskState
  BY <1>1 DEF TaskState
<1>3. WorkingAs(t, r)
  BY <1>1 DEF WorkingAs, Working, TaskState, HasTx, Ops
<1>4. Become(t, r)
  BY DEF Goto
<1> HIDE DEF r
<1>5. QED BY <1>2, <1>3, <1>4, BecomeTyped

LEMMA NextOpTyped ==
  ASSUME NEW t \in Task, NEW r \in TaskState, r.serial \in DOMAIN Code[t[1]],
         r.serial >= SpecDepth + t[2], NEW v \in Nat
  PROVE  /\ NextOp(r) \in TaskState /\ WorkingAs(t, NextOp(r))
         /\ Returned(r, v) \in TaskState /\ WorkingAs(t, Returned(r, v))
<1>1. "run" \in PC
  BY DEF PC
<1>2. ASSUME NEW q \in TaskState
      PROVE  NextOp(q) \in TaskState /\ NextOp(q).pc = "run" /\ NextOp(q).serial = q.serial
  <2>1. q.ip + 1 \in Nat \ {0} /\ 0 \in Nat
    BY DEF TaskState
  <2>2. NextOp(q) \in TaskState
    BY <1>1, <2>1, Zenon DEF NextOp, TaskState
  <2>3. NextOp(q).pc = "run" /\ NextOp(q).serial = q.serial
    BY DEF NextOp, TaskState
  <2>4. QED BY <2>2, <2>3
<1>3. [r EXCEPT !.acc = v] \in TaskState /\ [r EXCEPT !.acc = v].serial = r.serial
  BY DEF TaskState
<1>4. WorkingAs(t, NextOp(r))
  BY <1>2 DEF WorkingAs, Accessing
<1>5. Returned(r, v) \in TaskState /\ WorkingAs(t, Returned(r, v))
  BY <1>2, <1>3 DEF Returned, WorkingAs, Accessing
<1>6. QED BY <1>2, <1>4, <1>5

LEMMA ClearedTyped ==
  ASSUME NEW r \in TaskState
  PROVE  /\ Cleared(r) \in TaskState /\ Cleared(r).pc = "start"
         /\ Cleared(r).serial = r.serial
<1>1. "start" \in PC /\ 0 \in Nat /\ 1 \in Nat \ {0} /\ 0 \in 0 .. CommitTask
  BY Constants DEF PC
<1>2. Cleared(r) \in TaskState
  BY <1>1, Zenon DEF Cleared, TaskState
<1>3. Cleared(r).pc = "start" /\ Cleared(r).serial = r.serial
  BY DEF Cleared, TaskState
<1>4. QED BY <1>2, <1>3

\* A step of t that only goes on.
LEMMA GotoOnly ==
  ASSUME TypeOK, NEW t \in Task, NEW pc \in PC, Goto(t, pc),
         pc = "read_task" => tx[t].ptr # NULL,
         pc \in Accessing => HasTx(t) /\ tx[t].ip <= Len(Ops(t)),
         pc = "run" => HasTx(t),
         UNCHANGED <<prog_thread, entry, locks, memory, clocks, validator>>
  PROVE  TypeOK'
<1>1. tx' \in [Task -> TaskState] /\ \A u \in Task : Working(u)'
  BY GotoTyped
<1>2. QED BY <1>1 DEF TypeOK, locks, clocks

\* The steps that look at the state and go on outside an access.
Looks(t) == \/ ReadTaskAbort(t) \/ AbortDecided(t) \/ CommitTaskAborted(t)
            \/ CommitTurn(t) \/ AwaitAbort(t) \/ AwaitRequest(t) \/ AwaitValidated(t)
            \/ CheckAbort(t) \/ CheckTasks(t)

LEMMA LooksTyped == ASSUME TypeOK, NEW t \in Task, Looks(t) PROVE TypeOK'
<1> DEFINE Onward == {"restart", "rollback_turn", "ready", "turn", "turn_writer", "await_abort",
                      "await_request", "await_validated", "check_abort", "check_tasks",
                      "complete", "lock_reads", "commit_done"}
<1>1. \E pc \in Onward : Goto(t, pc)
  <2>1. CASE ReadTaskAbort(t)
    BY <2>1 DEF ReadTaskAbort, AbortPc
  <2>2. CASE AbortDecided(t)
    BY <2>2 DEF AbortDecided, AbortPc
  <2>3. CASE CommitTaskAborted(t)
    BY <2>3 DEF CommitTaskAborted
  <2>4. CASE CommitTurn(t)
    BY <2>4 DEF CommitTurn
  <2>5. CASE AwaitAbort(t)
    BY <2>5 DEF AwaitAbort
  <2>6. CASE AwaitRequest(t)
    BY <2>6 DEF AwaitRequest
  <2>7. CASE AwaitValidated(t)
    BY <2>7 DEF AwaitValidated
  <2>8. CASE CheckAbort(t)
    BY <2>8 DEF CheckAbort, AbortPc
  <2>9. CASE CheckTasks(t)
    BY <2>9 DEF CheckTasks
  <2>10. QED BY <2>1, <2>2, <2>3, <2>4, <2>5, <2>6, <2>7, <2>8, <2>9 DEF Looks
<1>2. UNCHANGED <<prog_thread, entry, locks, memory, clocks, validator>>
  BY DEF Looks, ReadTaskAbort, AbortDecided, CommitTaskAborted, CommitTurn, AwaitAbort,
         AwaitRequest, AwaitValidated, CheckAbort, CheckTasks
<1>3. PICK pc \in Onward : Goto(t, pc)
  BY <1>1
<1>4. pc \in PC /\ pc \notin Accessing /\ pc # "run" /\ pc # "read_task"
  BY DEF Accessing, PC
<1> HIDE DEF Onward
<1>5. QED BY <1>2, <1>3, <1>4, GotoOnly

----------------------------------------------------------------------------
(***************************************************************************)
(* Start and reads.                                                        *)
(***************************************************************************)

\* The task's operation is one the application may have.
LEMMA OpTyped ==
  ASSUME TypeOK, NEW t \in Task, HasTx(t), tx[t].ip <= Len(Ops(t))
  PROVE  Op(t) \in Operation /\ Op(t).addr \in Addr /\ StripeOf[Op(t).addr] \in Stripe
<1>1. Ops(t) \in Seq(Operation)
  BY TlstmAssumption, TaskTyped DEF HasTx, Ops
<1>2. tx[t].ip \in 1 .. Len(Ops(t))
  BY <1>1, TaskTyped DEF TaskState
<1>3. Op(t) \in Operation
  BY <1>1, <1>2 DEF Op
<1>4. QED BY <1>3, Constants DEF Operation

\* What a chain lookup finds is a number.
LEMMA ChainValueTyped ==
  ASSUME TypeOK, NEW a \in Addr, NEW e PROVE ChainValue(e, a) \in Nat
<1> DEFINE hit == FindWord(e, a)
<1>1. memory[a] \in Nat
  BY DEF TypeOK
<1>2. CASE hit \in Ptr
  <2>1. Deref(hit) \in Entry
    BY <1>2 DEF TypeOK, Deref, Ptr
  <2>2. Deref(hit).words[a] \in Nat \cup {NULL}
    BY <2>1 DEF Entry
  <2> HIDE DEF hit
  <2>3. (IF hit \in Ptr /\ Deref(hit).words[a] # NULL THEN Deref(hit).words[a] ELSE memory[a]) \in Nat
    BY <1>1, <2>2
  <2>4. QED BY <2>3 DEF ChainValue, hit
<1>3. CASE hit \notin Ptr
  BY <1>1, <1>3 DEF ChainValue
<1>4. QED BY <1>2, <1>3

LEMMA TxStartTyped == ASSUME TypeOK, NEW t \in Task, TxStart(t) PROVE TypeOK'
<1> DEFINE r == [tx[t] EXCEPT !.pc = "run", !.abort_task = FALSE,
                              !.last_writer = PT(t).last_completed_writer]
<1>1. tx[t] \in TaskState /\ PT(t).last_completed_writer \in Nat /\ Working(t)
  BY TaskTyped DEF ThreadState
<1>2. "run" \in PC /\ FALSE \in BOOLEAN
  BY DEF PC
<1>3. r \in TaskState
  BY <1>1, <1>2, Zenon DEF TaskState
<1>4. r.pc = "run" /\ r.serial = tx[t].serial
  BY <1>1 DEF TaskState
<1>5. Become(t, r) /\ HasTx(t) /\ UNCHANGED <<prog_thread, entry, locks, memory, clocks, validator>>
  BY DEF TxStart
<1>6. WorkingAs(t, r)
  BY <1>1, <1>4, <1>5 DEF WorkingAs, Working, HasTx, Accessing
<1> HIDE DEF r
<1>7. QED BY <1>3, <1>5, <1>6, OneTaskTyped

LEMMA SkipTyped == ASSUME TypeOK, NEW t \in Task, Skip(t) PROVE TypeOK'
<1>1. tx[t] \in TaskState /\ Working(t)
  BY TaskTyped
<1>2. tx[t].serial \in DOMAIN Code[t[1]] /\ tx[t].serial >= SpecDepth + t[2]
  BY <1>1 DEF Skip, At, Working, HasTx
<1>3. QED BY <1>1, <1>2, NextOpTyped, OneTaskTyped DEF Skip

\* A task that goes on with its access has the operation and the transaction.
LEMMA AccessingOp ==
  ASSUME TypeOK, NEW t \in Task, tx[t].pc \in Accessing \/ (tx[t].pc = "run" /\ tx[t].ip <= Len(Ops(t)))
  PROVE  /\ HasTx(t) /\ tx[t].ip <= Len(Ops(t)) /\ tx[t].serial >= SpecDepth + t[2]
         /\ tx[t].serial \in DOMAIN Code[t[1]]
         /\ Op(t).addr \in Addr /\ StripeOf[Op(t).addr] \in Stripe
<1>1. HasTx(t) /\ tx[t].ip <= Len(Ops(t)) /\ tx[t].serial >= SpecDepth + t[2]
  BY TaskTyped DEF Working
<1>2. QED BY <1>1, OpTyped DEF HasTx

LEMMA ReadWordTyped == ASSUME TypeOK, NEW t \in Task, ReadWord(t) PROVE TypeOK'
<1> DEFINE a == Op(t).addr
           top == write_lock[StripeOf[a]]
           e == UpTo(top, tx[t].serial)
           r == [tx[t] EXCEPT !.pc = "read_task", !.ptr = e]
<1>1. tx[t] \in TaskState /\ Working(t)
  BY TaskTyped
<1>2. /\ HasTx(t) /\ tx[t].ip <= Len(Ops(t)) /\ tx[t].serial >= SpecDepth + t[2]
      /\ tx[t].serial \in DOMAIN Code[t[1]] /\ a \in Addr
  BY AccessingOp DEF ReadWord, Doing, At
<1>3. UNCHANGED <<prog_thread, entry, locks, memory, clocks, validator>>
  BY DEF ReadWord
<1>4. CASE ~ OwnLock(t, top) \/ e \notin Ptr
  <2>1. Goto(t, "read_version")
    BY <1>4 DEF ReadWord
  <2>2. "read_version" \in PC
    BY DEF PC
  <2>3. QED BY <1>2, <1>3, <2>1, <2>2, GotoOnly
<1>5. CASE OwnLock(t, top) /\ e \in Ptr /\ Deref(e).serial = tx[t].serial
  <2>1. Become(t, Returned(tx[t], ChainValue(e, a)))
    BY <1>5 DEF ReadWord
  <2>2. ChainValue(e, a) \in Nat
    BY <1>2, ChainValueTyped
  <2> HIDE DEF e
  <2>3. QED BY <1>1, <1>2, <1>3, <2>1, <2>2, NextOpTyped, OneTaskTyped
<1>6. CASE OwnLock(t, top) /\ e \in Ptr /\ Deref(e).serial # tx[t].serial
  <2>1. Become(t, r)
    BY <1>6 DEF ReadWord
  <2> HIDE DEF e
  <2>2. "read_task" \in PC /\ e \in Ptr \cup {NULL} /\ e # NULL
    BY <1>6, Constants DEF PC
  <2>3. r \in TaskState
    BY <1>1, <2>2, Zenon DEF TaskState
  <2>4. r.pc = "read_task" /\ r.serial = tx[t].serial /\ r.ip = tx[t].ip /\ r.ptr = e
    BY <1>1 DEF TaskState
  <2> HIDE DEF r
  <2>5. WorkingAs(t, r)
    BY <1>2, <2>2, <2>4 DEF WorkingAs, Ops
  <2>6. QED BY <1>3, <2>1, <2>3, <2>5, OneTaskTyped
<1>7. QED BY <1>4, <1>5, <1>6

\* A step that gives t a record with the same operation, in the same access.
LEMMA SameOpTyped ==
  ASSUME TypeOK, NEW t \in Task, NEW r \in TaskState, Become(t, r),
         tx[t].pc \in Accessing, r.pc \in Accessing \ {"read_task"},
         r.serial = tx[t].serial, r.ip = tx[t].ip
  PROVE  tx' \in [Task -> TaskState] /\ \A u \in Task : Working(u)'
<1>1. /\ HasTx(t) /\ tx[t].ip <= Len(Ops(t)) /\ tx[t].serial >= SpecDepth + t[2]
      /\ tx[t].serial \in DOMAIN Code[t[1]]
  BY AccessingOp
<1>2. WorkingAs(t, r)
  BY <1>1 DEF WorkingAs, Ops
<1>3. QED BY <1>2, BecomeTyped

LEMMA UpdateTyped ==
  ASSUME TypeOK, NEW t \in Task, NEW r \in ThreadState, UpdatePT(t, r)
  PROVE  prog_thread' \in [Thread -> ThreadState]
  BY DEF TypeOK, UpdatePT

LEMMA ReadTaskTyped == ASSUME TypeOK, NEW t \in Task, ReadTask(t) PROVE TypeOK'
<1> DEFINE a == Op(t).addr
           log == tx[t].task_read_log \cup
                    {[stripe |-> StripeOf[a], serial |-> Deref(tx[t].ptr).serial]}
           logged == [tx[t] EXCEPT !.task_read_log = log]
           lw == PT(t).last_completed_writer
           late == [logged EXCEPT !.pc = "restart"]
           noted == [logged EXCEPT !.last_writer = IF lw > @ THEN lw ELSE @]
<1>1. tx[t] \in TaskState /\ Working(t) /\ lw \in Nat
  BY TaskTyped DEF ThreadState
<1>2. /\ HasTx(t) /\ tx[t].ip <= Len(Ops(t)) /\ tx[t].serial >= SpecDepth + t[2]
      /\ tx[t].serial \in DOMAIN Code[t[1]] /\ a \in Addr /\ StripeOf[a] \in Stripe
  BY AccessingOp DEF ReadTask, At, Accessing
<1>3. UNCHANGED <<prog_thread, entry, locks, memory, clocks, validator>>
  BY DEF ReadTask
<1>4. tx[t].ptr \in Ptr
  BY <1>1 DEF ReadTask, At, Working, TaskState
<1>5. Deref(tx[t].ptr).serial \in Nat
  BY <1>4 DEF TypeOK, Deref, Ptr, Entry
<1>6. log \in SUBSET [stripe : Stripe, serial : Nat]
  BY <1>1, <1>2, <1>5 DEF TaskState
<1>7. Become(t, late) \/ Become(t, Returned(noted, ChainValue(tx[t].ptr, a)))
  BY DEF ReadTask
<1> HIDE DEF log
<1>8. logged \in TaskState /\ logged.serial = tx[t].serial /\ logged.last_writer = tx[t].last_writer
  BY <1>1, <1>6 DEF TaskState
<1> HIDE DEF logged
<1>9. CASE Become(t, late)
  <2>1. late \in TaskState /\ late.pc = "restart" /\ late.serial = tx[t].serial
    BY <1>8 DEF TaskState, PC
  <2> HIDE DEF late
  <2>2. WorkingAs(t, late)
    BY <1>2, <2>1 DEF WorkingAs, Accessing
  <2>3. QED BY <1>3, <1>9, <2>1, <2>2, OneTaskTyped
<1>10. CASE Become(t, Returned(noted, ChainValue(tx[t].ptr, a)))
  <2>1. noted \in TaskState /\ noted.serial = tx[t].serial
    BY <1>1, <1>8 DEF TaskState
  <2>2. ChainValue(tx[t].ptr, a) \in Nat
    BY <1>2, ChainValueTyped
  <2> HIDE DEF noted
  <2>3. QED BY <1>2, <1>3, <1>10, <2>1, <2>2, NextOpTyped, OneTaskTyped
<1>11. QED BY <1>7, <1>9, <1>10

LEMMA ReadVersionTyped == ASSUME TypeOK, NEW t \in Task, ReadVersion(t) PROVE TypeOK'
<1> DEFINE v == read_lock[StripeOf[Op(t).addr]]
           r == [tx[t] EXCEPT !.pc = "read_value", !.version = v]
<1>1. tx[t] \in TaskState /\ tx[t].pc \in Accessing
  BY TaskTyped DEF ReadVersion, At, Accessing
<1>2. v \in Nat
  BY <1>1, AccessingOp DEF TypeOK
<1>3. Become(t, r) /\ UNCHANGED <<prog_thread, entry, locks, memory, clocks, validator>>
  BY DEF ReadVersion
<1> HIDE DEF v
<1>4. "read_value" \in PC
  BY DEF PC
<1>5. r \in TaskState
  BY <1>1, <1>2, <1>4, Zenon DEF TaskState
<1>6. r.pc = "read_value" /\ r.serial = tx[t].serial /\ r.ip = tx[t].ip
  BY <1>1 DEF TaskState
<1> HIDE DEF r
<1>7. tx' \in [Task -> TaskState] /\ \A u \in Task : Working(u)'
  BY <1>1, <1>3, <1>5, <1>6, SameOpTyped DEF Accessing
<1>8. QED BY <1>3, <1>7 DEF TypeOK, locks, clocks

LEMMA ReadValueTyped == ASSUME TypeOK, NEW t \in Task, ReadValue(t) PROVE TypeOK'
<1> DEFINE a == Op(t).addr
           r == [tx[t] EXCEPT !.pc = "read_log", !.value = memory[a]]
<1>1. tx[t] \in TaskState /\ tx[t].pc \in Accessing
  BY TaskTyped DEF ReadValue, At, Accessing
<1>2. HasTx(t) /\ tx[t].ip <= Len(Ops(t)) /\ a \in Addr
  BY <1>1, AccessingOp
<1>3. UNCHANGED <<prog_thread, entry, locks, memory, clocks, validator>>
  BY DEF ReadValue
<1>4. "read_log" \in PC /\ "read_version" \in PC
  BY DEF PC
<1>5. CASE Become(t, r)
  <2>1. memory[a] \in Nat
    BY <1>2 DEF TypeOK
  <2>2. r \in TaskState
    BY <1>1, <1>4, <2>1, Zenon DEF TaskState
  <2>3. r.pc = "read_log" /\ r.serial = tx[t].serial /\ r.ip = tx[t].ip
    BY <1>1 DEF TaskState
  <2> HIDE DEF r
  <2>4. tx' \in [Task -> TaskState] /\ \A u \in Task : Working(u)'
    BY <1>1, <1>5, <2>2, <2>3, SameOpTyped DEF Accessing
  <2>5. QED BY <1>3, <2>4 DEF TypeOK, locks, clocks
<1>6. CASE Goto(t, "read_version")
  BY <1>2, <1>3, <1>4, <1>6, GotoOnly
<1>7. QED BY <1>5, <1>6 DEF ReadValue

LEMMA ReadLogTyped == ASSUME TypeOK, NEW t \in Task, ReadLog(t) PROVE TypeOK'
<1> DEFINE log == tx[t].read_log \cup {[stripe |-> StripeOf[Op(t).addr], version |-> tx[t].version]}
           r == [tx[t] EXCEPT !.pc = "read_extend", !.read_log = log]
<1>1. tx[t] \in TaskState /\ tx[t].pc \in Accessing
  BY TaskTyped DEF ReadLog, At, Accessing
<1>2. log \in SUBSET [stripe : Stripe, version : Nat]
  BY <1>1, AccessingOp DEF TaskState
<1>3. Become(t, r) /\ UNCHANGED <<prog_thread, entry, locks, memory, clocks, validator>>
  BY DEF ReadLog
<1> HIDE DEF log
<1>4. "read_extend" \in PC
  BY DEF PC
<1>5. r \in TaskState
  BY <1>1, <1>2, <1>4, Zenon DEF TaskState
<1>6. r.pc = "read_extend" /\ r.serial = tx[t].serial /\ r.ip = tx[t].ip
  BY <1>1 DEF TaskState
<1> HIDE DEF r
<1>7. tx' \in [Task -> TaskState] /\ \A u \in Task : Working(u)'
  BY <1>1, <1>3, <1>5, <1>6, SameOpTyped DEF Accessing
<1>8. QED BY <1>3, <1>7 DEF TypeOK, locks, clocks

LEMMA ReadExtendTyped == ASSUME TypeOK, NEW t \in Task, ReadExtend(t) PROVE TypeOK'
<1> DEFINE q == [PT(t) EXCEPT !.requires_validation = @ \/ ShouldExtend(t, tx[t].version)]
<1>1. tx[t] \in TaskState /\ tx[t].value \in Nat /\ PT(t) \in ThreadState
  BY TaskTyped DEF TaskState
<1>2. tx[t].serial \in DOMAIN Code[t[1]] /\ tx[t].serial >= SpecDepth + t[2]
  BY AccessingOp DEF ReadExtend, At, Accessing
<1>3. UpdatePT(t, q) /\ Become(t, Returned(tx[t], tx[t].value))
      /\ UNCHANGED <<entry, locks, memory, clocks, validator>>
  BY DEF ReadExtend
<1>4. tx' \in [Task -> TaskState] /\ \A u \in Task : Working(u)'
  BY <1>1, <1>2, <1>3, NextOpTyped, BecomeTyped
<1>5. (PT(t).requires_validation \/ ShouldExtend(t, tx[t].version)) \in BOOLEAN
  OBVIOUS
<1>6. q \in ThreadState
  BY <1>1, <1>5, Zenon DEF ThreadState
<1>7. prog_thread' \in [Thread -> ThreadState]
  BY <1>3, <1>6, UpdateTyped
<1>8. QED BY <1>3, <1>4, <1>7 DEF TypeOK, locks, clocks

----------------------------------------------------------------------------
(***************************************************************************)
(* Writes.                                                                 *)
(***************************************************************************)

LEMMA AbortPcTyped == ASSUME NEW t
                      PROVE  AbortPc(t) \in PC /\ AbortPc(t) \notin Accessing \cup {"run"}
  BY DEF AbortPc, PC, Accessing

LEMMA WriteWordTyped == ASSUME TypeOK, NEW t \in Task, WriteWord(t) PROVE TypeOK'
<1>1. HasTx(t) /\ tx[t].ip <= Len(Ops(t))
  BY AccessingOp DEF WriteWord, Doing, At
<1>2. UNCHANGED <<prog_thread, entry, locks, memory, clocks, validator>>
  BY DEF WriteWord
<1>3. \E pc \in {"restart", AbortPc(t), "write_load"} : Goto(t, pc)
  BY DEF WriteWord
<1>4. PICK pc \in {"restart", AbortPc(t), "write_load"} : Goto(t, pc)
  BY <1>3
<1>5. pc \in PC /\ pc # "read_task"
  BY <1>4, AbortPcTyped DEF PC, Accessing
<1>6. QED BY <1>1, <1>2, <1>4, <1>5, GotoOnly

\* Overwriting one word of an entry.
LEMMA WordTyped ==
  ASSUME NEW f \in [Task -> [1 .. LogSize -> Entry]], NEW u, NEW i, NEW a, NEW v \in Nat
  PROVE  [f EXCEPT ![u][i].words[a] = v] \in [Task -> [1 .. LogSize -> Entry]]
<1> DEFINE e2 == [f[u][i] EXCEPT !.words[a] = v]
           log2 == [f[u] EXCEPT ![i] = e2]
<1>1. ASSUME u \in Task, i \in 1 .. LogSize PROVE e2 \in Entry
  <2>1. f[u][i] \in Entry
    BY <1>1
  <2>2. f[u][i].words \in [Addr -> Nat \cup {NULL}]
    BY <2>1 DEF Entry
  <2>3. [f[u][i].words EXCEPT ![a] = v] \in [Addr -> Nat \cup {NULL}]
    BY <2>2
  <2>4. e2 = [f[u][i] EXCEPT !.words = [f[u][i].words EXCEPT ![a] = v]]
    OBVIOUS
  <2>5. QED BY <2>1, <2>3, <2>4, Zenon DEF Entry
<1> HIDE DEF e2
<1>2. ASSUME u \in Task PROVE log2 \in [1 .. LogSize -> Entry]
  BY <1>1, <1>2
<1>3. [f EXCEPT ![u][i].words[a] = v] = [f EXCEPT ![u] = log2]
  BY DEF e2
<1> HIDE DEF log2
<1>4. QED BY <1>2, <1>3

LEMMA NewValueTyped == ASSUME TypeOK, NEW t \in Task PROVE NewValue(t) \in Nat
  BY TaskTyped DEF NewValue, TaskState

LEMMA WriteLoadTyped == ASSUME TypeOK, NEW t \in Task, WriteLoad(t) PROVE TypeOK'
<1> DEFINE a == Op(t).addr
           top == write_lock[StripeOf[a]]
           pc == IF top = NULL THEN "write_cas" ELSE "write_locked"
           r == [tx[t] EXCEPT !.ptr = top, !.pc = pc]
<1>1. tx[t] \in TaskState /\ tx[t].pc \in Accessing
  BY TaskTyped DEF WriteLoad, At, Accessing
<1>2. /\ tx[t].serial \in DOMAIN Code[t[1]] /\ tx[t].serial >= SpecDepth + t[2]
      /\ StripeOf[a] \in Stripe
  BY <1>1, AccessingOp
<1>3. top \in Ptr \cup {NULL}
  BY <1>2 DEF TypeOK
<1>4. UNCHANGED <<prog_thread, locks, memory, clocks, validator>>
  BY DEF WriteLoad
<1>5. CASE /\ entry' = [entry EXCEPT ![top[1]][top[2]].words[a] = NewValue(t)]
           /\ Become(t, NextOp(tx[t]))
  <2>1. entry' \in [Task -> [1 .. LogSize -> Entry]]
    BY <1>5, NewValueTyped, WordTyped DEF TypeOK
  <2>2. tx' \in [Task -> TaskState] /\ \A u \in Task : Working(u)'
    BY <1>1, <1>2, <1>5, NextOpTyped, BecomeTyped
  <2>3. QED BY <1>4, <2>1, <2>2 DEF TypeOK, locks, clocks
<1>6. CASE Become(t, r) /\ UNCHANGED entry
  <2> HIDE DEF top
  <2>1. pc \in PC /\ pc \in Accessing \ {"read_task"}
    BY DEF PC, Accessing
  <2> HIDE DEF pc
  <2>2. r \in TaskState
    BY <1>1, <1>3, <2>1, Zenon DEF TaskState
  <2>3. r.pc = pc /\ r.serial = tx[t].serial /\ r.ip = tx[t].ip
    BY <1>1 DEF TaskState
  <2> HIDE DEF r
  <2>4. tx' \in [Task -> TaskState] /\ \A u \in Task : Working(u)'
    BY <1>1, <1>6, <2>1, <2>2, <2>3, SameOpTyped
  <2>5. QED BY <1>4, <1>6, <2>4 DEF TypeOK, locks, clocks
<1>7. QED BY <1>5, <1>6 DEF WriteLoad

LEMMA WriteConflictTyped == ASSUME TypeOK, NEW t \in Task, WriteConflict(t) PROVE TypeOK'
<1> DEFINE e == write_lock[StripeOf[Op(t).addr]]
           p == t[1]
           q == PtidOf(e)
           mine == prog_thread[p].progress
           theirs == prog_thread[q].progress
           pc == IF theirs < mine \/ (theirs = mine /\ CMStrongerThan(p, q))
                 THEN "abort_other" ELSE "abort_self"
           r == [tx[t] EXCEPT !.ptr = e, !.i = 0, !.pc = pc]
<1>1. tx[t] \in TaskState /\ tx[t].pc \in Accessing
  BY TaskTyped DEF WriteConflict, At, Accessing
<1>2. /\ HasTx(t) /\ tx[t].ip <= Len(Ops(t)) /\ StripeOf[Op(t).addr] \in Stripe
      /\ tx[t].serial \in DOMAIN Code[t[1]] /\ tx[t].serial >= SpecDepth + t[2]
  BY <1>1, AccessingOp
<1>3. e \in Ptr \cup {NULL}
  BY <1>2 DEF TypeOK
<1>4. UNCHANGED <<prog_thread, entry, locks, memory, clocks, validator>>
  BY DEF WriteConflict
<1>5. CASE Goto(t, AbortPc(t))
  BY <1>4, <1>5, AbortPcTyped, GotoOnly DEF Accessing
<1>6. CASE Goto(t, "write_load")
  <2>1. "write_load" \in PC
    BY DEF PC
  <2>2. QED BY <1>2, <1>4, <1>6, <2>1, GotoOnly
<1>7. CASE Become(t, r)
  <2>1. pc \in PC /\ pc \in {"abort_other", "abort_self"} /\ 0 \in 0 .. CommitTask
    BY Constants DEF PC
  <2> HIDE DEF pc, e
  <2>2. r \in TaskState
    BY <1>1, <1>3, <2>1, Zenon DEF TaskState
  <2>3. r.pc = pc /\ r.serial = tx[t].serial /\ r.ip = tx[t].ip
    BY <1>1 DEF TaskState
  <2> HIDE DEF r
  <2>4. WorkingAs(t, r)
    BY <1>2, <2>1, <2>3 DEF WorkingAs, Ops
  <2>5. QED BY <1>4, <1>7, <2>2, <2>4, OneTaskTyped
<1>8. QED BY <1>5, <1>6, <1>7 DEF WriteConflict

LEMMA WriteAfterTaskTyped == ASSUME TypeOK, NEW t \in Task, WriteAfterTask(t) PROVE TypeOK'
<1>1. HasTx(t) /\ tx[t].ip <= Len(Ops(t))
  BY AccessingOp DEF WriteAfterTask, At, Accessing
<1>2. UNCHANGED <<prog_thread, entry, locks, memory, clocks, validator>>
  BY DEF WriteAfterTask
<1>3. PICK pc \in {"restart", AbortPc(t), "write_cas"} : Goto(t, pc)
  BY DEF WriteAfterTask
<1>4. pc \in PC /\ pc # "read_task"
  BY <1>3, AbortPcTyped DEF PC, Accessing
<1>5. QED BY <1>1, <1>2, <1>3, <1>4, GotoOnly

(***************************************************************************)
(* Steps that set a flag of another task.                                  *)
(***************************************************************************)

TasksOK(f) == f \in [Task -> TaskState] /\ \A u \in Task : WorkingAs(u, f[u])

LEMMA TypedTasks == TypeOK => TasksOK(tx)
  BY DEF TypeOK, TasksOK, Working, WorkingAs, HasTx, Ops

LEMMA TasksTyped == ASSUME TasksOK(tx')
                    PROVE  tx' \in [Task -> TaskState] /\ \A u \in Task : Working(u)'
  BY DEF TasksOK, Working, WorkingAs, HasTx, Ops

LEMMA SetTaskOK ==
  ASSUME NEW f, TasksOK(f), NEW t \in Task, NEW r \in TaskState, WorkingAs(t, r)
  PROVE  TasksOK([f EXCEPT ![t] = r])
<1>1. [f EXCEPT ![t] = r] \in [Task -> TaskState]
  BY DEF TasksOK
<1>2. \A u \in Task : [f EXCEPT ![t] = r][u] = IF u = t THEN r ELSE f[u]
  BY DEF TasksOK
<1> DEFINE g == [f EXCEPT ![t] = r]
<1> HIDE DEF g
<1>3. QED BY <1>1, <1>2 DEF g, TasksOK

\* The flags say nothing of a task's operation.
LEMMA FlagOK ==
  ASSUME NEW f, TasksOK(f), NEW a, NEW v \in BOOLEAN
  PROVE  /\ TasksOK([f EXCEPT ![a].abort_task = v])
         /\ TasksOK([f EXCEPT ![a].abort_transaction = v])
         /\ TasksOK([f EXCEPT ![a].aborting_transaction = v])
<1> DEFINE r1 == [f[a] EXCEPT !.abort_task = v]
           r2 == [f[a] EXCEPT !.abort_transaction = v]
           r3 == [f[a] EXCEPT !.aborting_transaction = v]
<1>1. CASE a \in Task
  <2>1. f[a] \in TaskState /\ WorkingAs(a, f[a])
    BY <1>1 DEF TasksOK
  <2>2. r1 \in TaskState /\ r2 \in TaskState /\ r3 \in TaskState
    <3>1. r1 \in TaskState
      BY <2>1, Zenon DEF TaskState
    <3>2. r2 \in TaskState
      BY <2>1, Zenon DEF TaskState
    <3>3. r3 \in TaskState
      BY <2>1, Zenon DEF TaskState
    <3>4. QED BY <3>1, <3>2, <3>3
  <2>3. \A r \in {r1, r2, r3} : /\ r.pc = f[a].pc /\ r.serial = f[a].serial
                                /\ r.ip = f[a].ip /\ r.ptr = f[a].ptr
    BY <2>1 DEF TaskState
  <2> HIDE DEF r1, r2, r3
  <2>4. \A r \in {r1, r2, r3} : WorkingAs(a, r)
    BY <2>1, <2>3 DEF WorkingAs
  <2>5. TasksOK([f EXCEPT ![a] = r1]) /\ TasksOK([f EXCEPT ![a] = r2]) /\ TasksOK([f EXCEPT ![a] = r3])
    BY <1>1, <2>2, <2>4, SetTaskOK
  <2>6. QED BY <2>5 DEF r1, r2, r3
<1>2. CASE a \notin Task
  <2>1. \A r : [f EXCEPT ![a] = r] = f
    BY <1>2 DEF TasksOK
  <2>2. TasksOK([f EXCEPT ![a] = r1]) /\ TasksOK([f EXCEPT ![a] = r2]) /\ TasksOK([f EXCEPT ![a] = r3])
    BY <2>1
  <2>3. QED BY <2>2 DEF r1, r2, r3
<1>3. QED BY <1>1, <1>2

\* One round of the loop that raises abort_transaction.
LEMMA SignalAbortTyped ==
  ASSUME TypeOK, NEW t \in Task, SignalAbort(t)
  PROVE  TypeOK'
<1> DEFINE pc == tx[t].pc
           p == Loser(t)
           next == IF At(t, "abort_self") THEN "abort_decided" ELSE "write_load"
           f == [tx EXCEPT ![<<p, tx[t].i>>].abort_transaction = TRUE]
           i2 == IF f[t].i = CommitTask THEN 0 ELSE f[t].i + 1
           pc2 == IF tx[t].i = CommitTask THEN next ELSE f[t].pc
           r == [f[t] EXCEPT !.i = i2, !.pc = pc2]
<1>1. TasksOK(f)
  BY TypedTasks, FlagOK
<1>2. tx[t] \in TaskState
  BY TaskTyped
<1>14. /\ pc # "run" /\ pc # "read_task" /\ next \in PC \ {"run", "read_task"}
       /\ next \in Accessing => pc \in Accessing
  BY DEF SignalAbort, At, PC, Accessing
<1>15. tx' = [tx EXCEPT ![<<p, tx[t].i>>].abort_transaction = TRUE,
                        ![t].i = IF @ = CommitTask THEN 0 ELSE @ + 1,
                        ![t].pc = IF tx[t].i = CommitTask THEN next ELSE @]
  BY DEF SignalAbort
<1> HIDE DEF p, next
<1>3. f[t].pc = pc /\ f[t].i = tx[t].i
  BY <1>2 DEF TypeOK, TaskState
<1>4. f[t] \in TaskState /\ WorkingAs(t, f[t])
  BY <1>1 DEF TasksOK
<1>5. tx' = [f EXCEPT ![t] = r]
  BY <1>15
<1> HIDE DEF f
<1>6. i2 \in 0 .. CommitTask
  BY <1>4, Constants DEF TaskState
<1>7. pc2 \in PC
  BY <1>4, <1>14 DEF TaskState
<1>8. pc2 \in {pc, next}
  BY <1>3
<1> HIDE DEF i2, pc2, pc
<1>9. r \in TaskState
  BY <1>4, <1>6, <1>7, Zenon DEF TaskState
<1>10. r.pc = pc2 /\ r.serial = f[t].serial /\ r.ip = f[t].ip /\ r.ptr = f[t].ptr
  BY <1>4 DEF TaskState
<1> HIDE DEF r
<1>11. WorkingAs(t, r)
  BY <1>3, <1>4, <1>8, <1>10, <1>14 DEF WorkingAs
<1>12. TasksOK(tx')
  BY <1>1, <1>5, <1>9, <1>11, SetTaskOK
<1>13. QED BY <1>12, TasksTyped DEF SignalAbort, TypeOK, locks, clocks

LEMMA WriteBeforeTaskTyped == ASSUME TypeOK, NEW t \in Task, WriteBeforeTask(t) PROVE TypeOK'
<1> DEFINE r == [tx[t] EXCEPT !.pc = "write_load"]
           u == Owner(t[1], Deref(tx[t].ptr).serial)
           f == [tx EXCEPT ![t] = r]
<1>1. tx[t] \in TaskState /\ tx[t].pc \in Accessing
  BY TaskTyped DEF WriteBeforeTask, At, Accessing
<1>2. UNCHANGED <<prog_thread, entry, locks, memory, clocks, validator>>
  BY DEF WriteBeforeTask
<1>3. CASE Goto(t, AbortPc(t))
  BY <1>2, <1>3, AbortPcTyped, GotoOnly DEF Accessing
<1>4. CASE tx' = [tx EXCEPT ![t].pc = "write_load", ![u].abort_task = TRUE]
  <2>1. "write_load" \in PC \cap Accessing
    BY DEF PC, Accessing
  <2>2. r \in TaskState /\ r.pc = "write_load" /\ r.serial = tx[t].serial /\ r.ip = tx[t].ip
    BY <1>1, <2>1 DEF TaskState
  <2>3. tx' = [f EXCEPT ![u].abort_task = TRUE]
    BY <1>4
  <2> HIDE DEF r
  <2>4. WorkingAs(t, r)
    BY <1>1, <2>1, <2>2, TaskTyped DEF Working, WorkingAs, HasTx, Ops
  <2>5. TasksOK(f)
    BY <2>2, <2>4, TypedTasks, SetTaskOK
  <2> HIDE DEF f, u
  <2>6. TasksOK(tx')
    BY <2>3, <2>5, FlagOK
  <2>7. QED BY <1>2, <2>6, TasksTyped DEF TypeOK, locks, clocks
<1>5. QED BY <1>3, <1>4 DEF WriteBeforeTask

LEMMA WriteCasTyped == ASSUME TypeOK, NEW t \in Task, WriteCas(t) PROVE TypeOK'
<1> DEFINE a == Op(t).addr
           s == StripeOf[a]
           n == tx[t].write_log + 1
           won == write_lock[s] = tx[t].ptr
           wds == [b \in Addr |-> IF b = a THEN NewValue(t) ELSE NULL]
           new == [stripe |-> s, serial |-> tx[t].serial, old_entry |-> tx[t].ptr,
                   old_version |-> entry[t][n].old_version, words |-> wds]
           log == IF won THEN n ELSE tx[t].write_log
           pc == IF won THEN "write_extend" ELSE "write_load"
           r == [tx[t] EXCEPT !.write_log = log, !.ptr = NULL, !.pc = pc]
<1>1. tx[t] \in TaskState /\ tx[t].pc \in Accessing
  BY TaskTyped DEF WriteCas, At, Accessing
<1>2. a \in Addr /\ s \in Stripe
  BY <1>1, AccessingOp
<1>3. n \in 1 .. LogSize
  BY <1>1, Constants DEF WriteCas, TaskState
<1>4. entry' \in [Task -> [1 .. LogSize -> Entry]]
  <2>1. wds \in [Addr -> Nat \cup {NULL}]
    BY NewValueTyped
  <2>2. entry[t][n] \in Entry
    BY <1>3 DEF TypeOK
  <2>3. entry[t][n].old_version \in Nat
    BY <2>2 DEF Entry
  <2>4. tx[t].serial \in Nat /\ tx[t].ptr \in Ptr \cup {NULL}
    BY <1>1 DEF TaskState
  <2>5. entry' = [entry EXCEPT ![t][n] = new]
    BY DEF WriteCas
  <2> HIDE DEF wds, s, n
  <2>6. new \in Entry
    BY <1>2, <2>1, <2>3, <2>4 DEF Entry
  <2> HIDE DEF new
  <2>7. [entry[t] EXCEPT ![n] = new] \in [1 .. LogSize -> Entry]
    BY <2>6 DEF TypeOK
  <2>8. entry' = [entry EXCEPT ![t] = [entry[t] EXCEPT ![n] = new]]
    BY <2>5
  <2>9. QED BY <2>7, <2>8 DEF TypeOK
<1>5. write_lock' \in [Stripe -> Ptr \cup {NULL}]
  <2>1. <<t, n>> \in Ptr
    BY <1>3 DEF Ptr
  <2>2. write_lock' = IF won THEN [write_lock EXCEPT ![s] = <<t, n>>] ELSE write_lock
    BY DEF WriteCas
  <2> HIDE DEF n, s
  <2>3. QED BY <2>1, <2>2 DEF TypeOK
<1>6. tx' \in [Task -> TaskState] /\ \A u \in Task : Working(u)'
  <2>1. Become(t, r)
    BY DEF WriteCas
  <2>2. pc \in PC /\ pc \in Accessing \ {"read_task"} /\ NULL \in Ptr \cup {NULL}
    BY DEF PC, Accessing
  <2>3. log \in 0 .. LogSize
    BY <1>1, <1>3, Constants DEF TaskState
  <2> HIDE DEF log, pc
  <2>4. r \in TaskState
    BY <1>1, <2>2, <2>3, Zenon DEF TaskState
  <2>5. r.pc = pc /\ r.serial = tx[t].serial /\ r.ip = tx[t].ip
    BY <1>1 DEF TaskState
  <2> HIDE DEF r
  <2>6. QED BY <1>1, <2>1, <2>2, <2>4, <2>5, SameOpTyped
<1>7. QED BY <1>4, <1>5, <1>6 DEF WriteCas, TypeOK, locks, clocks

LEMMA CmOnAccessTyped ==
  ASSUME TypeOK, NEW t \in Task, NEW r \in ThreadState PROVE CmOnAccess(t, r) \in ThreadState
<1> DEFINE c1 == [r EXCEPT !.locations_accessed = @ + 1]
           c2 == [r EXCEPT !.locations_accessed = @ + 1, !.greedy = TRUE, !.greedy_ts = cm_ts + 1]
<1>1. r.locations_accessed + 1 \in Nat /\ cm_ts + 1 \in Nat /\ TRUE \in BOOLEAN
  BY DEF TypeOK, ThreadState
<1>2. c1 \in ThreadState /\ c2 \in ThreadState
  BY <1>1, Zenon DEF ThreadState
<1>3. CmOnAccess(t, r) \in {r, c1, c2}
  BY DEF CmOnAccess
<1> HIDE DEF c1, c2
<1>4. QED BY <1>2, <1>3

LEMMA WriteExtendTyped == ASSUME TypeOK, NEW t \in Task, WriteExtend(t) PROVE TypeOK'
<1> DEFINE n == tx[t].write_log
           version == read_lock[StripeOf[Op(t).addr]]
           pt == [PT(t) EXCEPT !.requires_validation = @ \/ ShouldExtend(t, version)]
           lw == PT(t).last_completed_writer
           done == CmOnAccess(t, pt)
           r == [tx[t] EXCEPT !.last_writer = IF lw > @ THEN lw ELSE @]
<1>1. tx[t] \in TaskState /\ PT(t) \in ThreadState /\ tx[t].pc \in Accessing /\ lw \in Nat
  BY TaskTyped DEF WriteExtend, At, Accessing, ThreadState
<1>2. /\ tx[t].serial \in DOMAIN Code[t[1]] /\ tx[t].serial >= SpecDepth + t[2]
      /\ StripeOf[Op(t).addr] \in Stripe
  BY <1>1, AccessingOp
<1>3. version \in Nat
  BY <1>2 DEF TypeOK
<1>4. pt \in ThreadState
  <2>1. (PT(t).requires_validation \/ ShouldExtend(t, version)) \in BOOLEAN
    OBVIOUS
  <2> HIDE DEF version
  <2>2. QED BY <1>1, <2>1, Zenon DEF ThreadState
<1>5. UNCHANGED <<locks, memory, commit_ts, validator>>
  BY DEF WriteExtend
<1>6. CASE UpdatePT(t, pt) /\ Goto(t, "restart") /\ UNCHANGED <<entry, cm_ts>>
  <2>1. prog_thread' \in [Thread -> ThreadState]
    BY <1>4, <1>6, UpdateTyped
  <2>2. "restart" \in PC /\ "restart" \notin Accessing
    BY DEF PC, Accessing
  <2>3. tx' \in [Task -> TaskState] /\ \A u \in Task : Working(u)'
    BY <1>6, <2>2, GotoTyped
  <2>4. QED BY <1>5, <1>6, <2>1, <2>3 DEF TypeOK, locks, clocks
<1>7. CASE /\ UpdatePT(t, done)
           /\ cm_ts' = IF done.greedy /\ ~ pt.greedy THEN cm_ts + 1 ELSE cm_ts
           /\ entry' = [entry EXCEPT ![t][n].old_version = version]
           /\ Become(t, NextOp(r))
  <2>1. prog_thread' \in [Thread -> ThreadState]
    BY <1>4, <1>7, CmOnAccessTyped, UpdateTyped
  <2>2. cm_ts' \in Nat
    BY <1>7 DEF TypeOK
  <2>3. entry' \in [Task -> [1 .. LogSize -> Entry]]
    <3> HIDE DEF version
    <3>1. ASSUME n \in 1 .. LogSize PROVE [entry[t][n] EXCEPT !.old_version = version] \in Entry
      <4>1. entry[t][n] \in Entry
        BY <3>1 DEF TypeOK
      <4>2. QED BY <1>3, <4>1, Zenon DEF Entry
    <3> HIDE DEF n
    <3>2. [entry[t] EXCEPT ![n].old_version = version] \in [1 .. LogSize -> Entry]
      <4> DEFINE e2 == [entry[t][n] EXCEPT !.old_version = version]
      <4>1. n \in 1 .. LogSize => e2 \in Entry
        BY <3>1
      <4>2. [entry[t] EXCEPT ![n].old_version = version] = [entry[t] EXCEPT ![n] = e2]
        OBVIOUS
      <4> HIDE DEF e2
      <4>3. entry[t] \in [1 .. LogSize -> Entry]
        BY DEF TypeOK
      <4>4. [entry[t] EXCEPT ![n] = e2] \in [1 .. LogSize -> Entry]
        BY <4>1, <4>3
      <4>5. QED BY <4>2, <4>4
    <3>3. entry' = [entry EXCEPT ![t] = [entry[t] EXCEPT ![n].old_version = version]]
      BY <1>7
    <3>4. QED BY <3>2, <3>3 DEF TypeOK
  <2>4. tx' \in [Task -> TaskState] /\ \A u \in Task : Working(u)'
    <3>1. r \in TaskState /\ r.serial = tx[t].serial
      BY <1>1 DEF TaskState
    <3> HIDE DEF r
    <3>2. Become(t, NextOp(r)) /\ NextOp(r) \in TaskState /\ WorkingAs(t, NextOp(r))
      BY <1>2, <1>7, <3>1, NextOpTyped
    <3>3. QED BY <3>2, BecomeTyped
  <2>5. QED BY <1>5, <2>1, <2>2, <2>3, <2>4 DEF TypeOK, locks, clocks
<1>8. QED BY <1>6, <1>7 DEF WriteExtend

----------------------------------------------------------------------------
(***************************************************************************)
(* Commit.                                                                 *)
(***************************************************************************)

\* A step that goes on, outside an access, and updates the thread's record.
LEMMA GotoUpdateTyped ==
  ASSUME TypeOK, NEW t \in Task, NEW pc \in PC \ (Accessing \cup {"run"}), Goto(t, pc),
         NEW r \in ThreadState, UpdatePT(t, r),
         UNCHANGED <<entry, locks, memory, clocks, validator>>
  PROVE  TypeOK'
<1>1. tx' \in [Task -> TaskState] /\ \A u \in Task : Working(u)'
  BY GotoTyped DEF Accessing
<1>2. prog_thread' \in [Thread -> ThreadState]
  BY UpdateTyped
<1>3. QED BY <1>1, <1>2 DEF TypeOK, locks, clocks

LEMMA TxCommitTyped == ASSUME TypeOK, NEW t \in Task, TxCommit(t) PROVE TypeOK'
<1> DEFINE ro == (tx[t].write_log = 0)
           pc == IF tx[t].write_log = 0 THEN "turn" ELSE "turn_writer"
           r == [tx[t] EXCEPT !.read_only = ro, !.pc = pc]
<1>1. tx[t] \in TaskState /\ Working(t)
  BY TaskTyped
<1>2. ro \in BOOLEAN /\ pc \in PC /\ pc \notin Accessing \cup {"run"}
  BY DEF PC, Accessing
<1>3. Become(t, r) /\ UNCHANGED <<prog_thread, entry, locks, memory, clocks, validator>>
  BY DEF TxCommit
<1> HIDE DEF ro, pc
<1>4. r \in TaskState
  BY <1>1, <1>2, Zenon DEF TaskState
<1>5. r.pc = pc /\ r.serial = tx[t].serial
  BY <1>1 DEF TaskState
<1> HIDE DEF r
<1>6. WorkingAs(t, r)
  BY <1>1, <1>2, <1>5 DEF WorkingAs, Working, Accessing
<1>7. QED BY <1>3, <1>4, <1>6, OneTaskTyped

LEMMA CompleteTyped == ASSUME TypeOK, NEW t \in Task, Complete(t) PROVE TypeOK'
<1> DEFINE lw == IF tx[t].read_only THEN PT(t).last_completed_writer ELSE tx[t].serial
           r == [PT(t) EXCEPT !.last_completed_task = tx[t].serial, !.last_completed_writer = lw]
<1>1. PT(t) \in ThreadState /\ tx[t].serial \in Nat /\ lw \in Nat
  BY TaskTyped DEF TaskState, ThreadState
<1>2. UpdatePT(t, r) /\ Goto(t, "progress") /\ UNCHANGED <<entry, locks, memory, clocks, validator>>
  BY DEF Complete
<1> HIDE DEF lw
<1>3. r \in ThreadState
  BY <1>1, Zenon DEF ThreadState
<1>4. "progress" \in PC \ (Accessing \cup {"run"})
  BY DEF PC, Accessing
<1>5. QED BY <1>2, <1>3, <1>4, GotoUpdateTyped

LEMMA ProgressTyped == ASSUME TypeOK, NEW t \in Task, Progress(t) PROVE TypeOK'
<1> DEFINE r == [PT(t) EXCEPT !.progress = @ + 1]
<1>1. r \in ThreadState
  BY TaskTyped DEF ThreadState
<1>2. "await_commit" \in PC \ (Accessing \cup {"run"})
  BY DEF PC, Accessing
<1>3. QED BY <1>1, <1>2, GotoUpdateTyped DEF Progress

\* A waiting task restarts or goes on; the signal is withdrawn.
LEMMA RestartsTyped ==
  ASSUME TypeOK, NEW t \in Task,
         Become(t, [tx[t] EXCEPT !.pc = "restart", !.aborting_transaction = FALSE]),
         UNCHANGED <<prog_thread, entry, locks, memory, clocks, validator>>
  PROVE  TypeOK'
<1> DEFINE r == [tx[t] EXCEPT !.pc = "restart", !.aborting_transaction = FALSE]
<1>1. tx[t] \in TaskState /\ Working(t)
  BY TaskTyped
<1>2. "restart" \in PC /\ "restart" \notin Accessing \cup {"run"} /\ FALSE \in BOOLEAN
  BY DEF PC, Accessing
<1>3. r \in TaskState
  BY <1>1, <1>2, Zenon DEF TaskState
<1>4. r.pc = "restart" /\ r.serial = tx[t].serial
  BY <1>1 DEF TaskState
<1>5. Become(t, r)
  OBVIOUS
<1> HIDE DEF r
<1>6. WorkingAs(t, r)
  BY <1>1, <1>2, <1>4 DEF WorkingAs, Working, Accessing
<1>7. QED BY <1>3, <1>5, <1>6, OneTaskTyped

LEMMA AwaitCommitTyped == ASSUME TypeOK, NEW t \in Task, AwaitCommit(t) PROVE TypeOK'
<1>1. "committed" \in PC /\ "committed" \notin Accessing
  BY DEF PC, Accessing
<1>2. UNCHANGED <<prog_thread, entry, locks, memory, clocks, validator>>
  BY DEF AwaitCommit
<1>3. CASE Goto(t, "committed")
  BY <1>1, <1>2, <1>3, GotoOnly
<1>4. CASE Become(t, [tx[t] EXCEPT !.pc = "restart", !.aborting_transaction = FALSE])
  BY <1>2, <1>4, RestartsTyped
<1>5. QED BY <1>3, <1>4 DEF AwaitCommit

LEMMA LockReadsTyped == ASSUME TypeOK, NEW t \in Task, LockReads(t) PROVE TypeOK'
<1>1. "increment_ts" \in PC /\ "increment_ts" \notin Accessing
  BY DEF PC, Accessing
<1>2. tx' \in [Task -> TaskState] /\ \A u \in Task : Working(u)'
  BY <1>1, GotoTyped DEF LockReads
<1>3. read_lock' \in [Stripe -> Nat]
  BY DEF LockReads, TypeOK, READ_LOCK_SET
<1>4. QED BY <1>2, <1>3 DEF LockReads, TypeOK, clocks

\* A step of t that sets its commit timestamp and goes on to another step of
\* the commit.
LEMMA IncrementCommitTsTyped == ASSUME TypeOK, NEW t \in Task, IncrementCommitTs(t) PROVE TypeOK'
<1> DEFINE r == [tx[t] EXCEPT !.version = commit_ts + 1, !.pc = "validate_commit"]
<1>1. tx[t] \in TaskState /\ Working(t) /\ commit_ts + 1 \in Nat
  BY TaskTyped DEF TypeOK
<1>2. "validate_commit" \in PC /\ "validate_commit" \notin Accessing \cup {"run"}
  BY DEF PC, Accessing
<1>3. Become(t, r) /\ commit_ts' = commit_ts + 1
      /\ UNCHANGED <<prog_thread, entry, locks, memory, cm_ts, validator>>
  BY DEF IncrementCommitTs
<1>4. r \in TaskState
  BY <1>1, <1>2, Zenon DEF TaskState
<1>5. r.pc = "validate_commit" /\ r.serial = tx[t].serial
  BY <1>1 DEF TaskState
<1> HIDE DEF r
<1>6. WorkingAs(t, r)
  BY <1>1, <1>2, <1>5 DEF WorkingAs, Working, Accessing
<1>7. tx' \in [Task -> TaskState] /\ \A u \in Task : Working(u)'
  BY <1>3, <1>4, <1>6, BecomeTyped
<1>8. QED BY <1>1, <1>3, <1>7 DEF TypeOK, locks

\* The entries of a log are entries of its memory.
LEMMA LiveTyped ==
  ASSUME TypeOK, NEW t \in Task
  PROVE  LiveEntries(t) \in SUBSET Ptr
<1>1. tx[t].write_log \in 0 .. LogSize
  BY TaskTyped DEF TaskState
<1>2. QED BY <1>1, Constants DEF LiveEntries, Ptr

LEMMA TxEntriesTyped ==
  ASSUME TypeOK, NEW p \in Thread PROVE TxEntries(p) \in SUBSET Ptr
<1>1. \A k \in 0 .. CommitTask : <<p, k>> \in Task
  BY DEF Task, CommitTask
<1>2. QED BY <1>1, LiveTyped DEF TxEntries

LEMMA DerefTyped ==
  ASSUME TypeOK, NEW e \in Ptr
  PROVE  /\ Deref(e) \in Entry /\ Deref(e).old_version \in Nat
         /\ Deref(e).old_entry \in Ptr \cup {NULL}
<1>1. Deref(e) \in Entry
  BY DEF TypeOK, Deref, Ptr
<1>2. QED BY <1>1 DEF Entry

LEMMA ReleaseTyped ==
  ASSUME TypeOK, NEW p \in Thread, ReleaseReadLocks(p) PROVE read_lock' \in [Stripe -> Nat]
<1>1. ASSUME NEW s \in Stripe, On(s, TxEntries(p)) # {}
      PROVE  Deref(LastOf(On(s, TxEntries(p)))).old_version \in Nat
  <2>1. On(s, TxEntries(p)) \in SUBSET Ptr
    BY TxEntriesTyped DEF On
  <2>2. LastOf(On(s, TxEntries(p))) \in Ptr
    BY <1>1, <2>1, FirstLast
  <2>3. QED BY <2>2, DerefTyped
<1>2. QED BY <1>1 DEF ReleaseReadLocks, TypeOK

LEMMA ValidateCommitTyped == ASSUME TypeOK, NEW t \in Task, ValidateCommit(t) PROVE TypeOK'
<1> DEFINE bad == InvalidTasks(t[1])
           first == CHOOSE k \in bad : \A j \in bad : k <= j
           r1 == [tx[t] EXCEPT !.pc = "write_back", !.todo = TxEntries(t[1])]
           r2 == [tx[t] EXCEPT !.pc = "rollback", !.version = 0, !.from = first]
<1>1. tx[t] \in TaskState /\ Working(t) /\ t[1] \in Thread
  BY TaskTyped
<1>2. /\ "write_back" \in PC /\ "write_back" \notin Accessing \cup {"run"}
      /\ "rollback" \in PC /\ "rollback" \notin Accessing \cup {"run"}
  BY DEF PC, Accessing
<1>3. UNCHANGED <<prog_thread, entry, write_lock, memory, clocks, validator>>
  BY DEF ValidateCommit
<1>4. CASE Become(t, r1) /\ UNCHANGED read_lock
  <2>1. TxEntries(t[1]) \in SUBSET Ptr
    BY <1>1, TxEntriesTyped
  <2>2. r1 \in TaskState
    BY <1>1, <1>2, <2>1, Zenon DEF TaskState
  <2>3. r1.pc = "write_back" /\ r1.serial = tx[t].serial
    BY <1>1 DEF TaskState
  <2> HIDE DEF r1
  <2>4. WorkingAs(t, r1)
    BY <1>1, <1>2, <2>3 DEF WorkingAs, Working, Accessing
  <2>5. QED BY <1>3, <1>4, <2>2, <2>4, OneTaskTyped DEF locks
<1>5. CASE bad # {} /\ ReleaseReadLocks(t[1]) /\ Become(t, r2)
  <2>1. bad \in SUBSET (0 .. CommitTask)
    BY DEF InvalidTasks
  <2> HIDE DEF bad
  <2>2. \E k \in bad : \A j \in bad : k <= j
    BY <1>5, <2>1, Least
  <2>3. first \in 0 .. CommitTask
    BY <2>1, <2>2
  <2> HIDE DEF first
  <2>4. 0 \in Nat
    OBVIOUS
  <2>5. r2 \in TaskState
    BY <1>1, <1>2, <2>3, <2>4, Zenon DEF TaskState
  <2>6. r2.pc = "rollback" /\ r2.serial = tx[t].serial
    BY <1>1 DEF TaskState
  <2> HIDE DEF r2
  <2>7. WorkingAs(t, r2)
    BY <1>1, <1>2, <2>6 DEF WorkingAs, Working, Accessing
  <2>8. tx' \in [Task -> TaskState] /\ \A u \in Task : Working(u)'
    BY <1>5, <2>5, <2>7, BecomeTyped
  <2>9. read_lock' \in [Stripe -> Nat]
    BY <1>1, <1>5, ReleaseTyped
  <2>10. QED BY <1>3, <2>8, <2>9 DEF TypeOK, clocks
<1>6. QED BY <1>4, <1>5 DEF ValidateCommit

LEMMA WriteBackTyped == ASSUME TypeOK, NEW t \in Task, WriteBack(t) PROVE TypeOK'
<1> DEFINE e == FirstOf(tx[t].todo)
           rest == tx[t].todo \ {e}
           r == [tx[t] EXCEPT !.todo = rest]
<1>1. tx[t] \in TaskState /\ Working(t) /\ tx[t].pc = "write_back"
      /\ tx[t].todo \in SUBSET Ptr /\ tx[t].todo # {} /\ tx[t].version \in Nat
  BY TaskTyped DEF WriteBack, At, TaskState
<1>2. e \in Ptr
  BY <1>1, FirstLast
<1>3. Deref(e).words \in [Addr -> Nat \cup {NULL}]
  BY <1>2, DerefTyped DEF Entry
<1>4. UNCHANGED <<prog_thread, entry, clocks, validator>>
  BY DEF WriteBack
<1>5. memory' \in [Addr -> Nat]
  <2> HIDE DEF e
  <2>1. memory' = [a \in Addr |-> IF Deref(e).words[a] # NULL THEN Deref(e).words[a] ELSE memory[a]]
    BY DEF WriteBack, e
  <2>2. QED BY <1>3, <2>1 DEF TypeOK
<1>6. read_lock' \in [Stripe -> Nat] /\ write_lock' \in [Stripe -> Ptr \cup {NULL}]
  BY <1>1 DEF WriteBack, TypeOK
<1>7. tx' \in [Task -> TaskState] /\ \A u \in Task : Working(u)'
  <2>1. Become(t, r)
    BY DEF WriteBack
  <2>2. rest \in SUBSET Ptr
    BY <1>1
  <2> HIDE DEF rest
  <2>3. r \in TaskState
    BY <1>1, <2>2, Zenon DEF TaskState
  <2>4. r.pc = "write_back" /\ r.serial = tx[t].serial
    BY <1>1 DEF TaskState
  <2> HIDE DEF r
  <2>5. WorkingAs(t, r)
    BY <1>1, <2>4 DEF WorkingAs, Working, Accessing
  <2>6. QED BY <2>1, <2>3, <2>5, BecomeTyped
<1>8. QED BY <1>4, <1>5, <1>6, <1>7 DEF TypeOK, clocks

LEMMA WrittenBackTyped == ASSUME TypeOK, NEW t \in Task, WrittenBack(t) PROVE TypeOK'
<1> DEFINE q == [PT(t) EXCEPT !.last_completed_writer = tx[t].serial]
           r == [tx[t] EXCEPT !.pc = "commit_done", !.version = 0]
<1>1. tx[t] \in TaskState /\ Working(t) /\ tx[t].serial \in Nat /\ PT(t) \in ThreadState /\ 0 \in Nat
  BY TaskTyped DEF TaskState
<1>2. UpdatePT(t, q) /\ Become(t, r) /\ UNCHANGED <<entry, locks, memory, clocks, validator>>
  BY DEF WrittenBack
<1>3. q \in ThreadState
  BY <1>1, Zenon DEF ThreadState
<1>4. "commit_done" \in PC /\ "commit_done" \notin Accessing \cup {"run"}
  BY DEF PC, Accessing
<1>5. r \in TaskState
  BY <1>1, <1>4, Zenon DEF TaskState
<1>6. r.pc = "commit_done" /\ r.serial = tx[t].serial
  BY <1>1 DEF TaskState
<1> HIDE DEF q, r
<1>7. WorkingAs(t, r)
  BY <1>1, <1>4, <1>6 DEF WorkingAs, Working, Accessing
<1>8. tx' \in [Task -> TaskState] /\ \A u \in Task : Working(u)'
  BY <1>2, <1>5, <1>7, BecomeTyped
<1>9. prog_thread' \in [Thread -> ThreadState]
  BY <1>2, <1>3, UpdateTyped
<1>10. QED BY <1>2, <1>8, <1>9 DEF TypeOK, locks, clocks

LEMMA CommitDoneTyped == ASSUME TypeOK, NEW t \in Task, CommitDone(t) PROVE TypeOK'
<1> DEFINE r == [PT(t) EXCEPT !.greedy = FALSE, !.greedy_ts = MINIMUM_TS,
                    !.locations_accessed = 0, !.progress = 0,
                    !.last_completed_task = tx[t].serial]
<1>1. PT(t) \in ThreadState /\ tx[t].serial \in Nat /\ 0 \in Nat /\ MINIMUM_TS \in Nat /\ FALSE \in BOOLEAN
  BY TaskTyped DEF TaskState, MINIMUM_TS
<1>2. r \in ThreadState
  BY <1>1, Zenon DEF ThreadState
<1>3. "committed" \in PC \ (Accessing \cup {"run"})
  BY DEF PC, Accessing
<1>4. UpdatePT(t, r) /\ Goto(t, "committed") /\ UNCHANGED <<entry, locks, memory, clocks, validator>>
  BY DEF CommitDone
<1> HIDE DEF r
<1>5. QED BY <1>2, <1>3, <1>4, GotoUpdateTyped

LEMMA TxCommittedTyped == ASSUME TypeOK, NEW t \in Task, TxCommitted(t) PROVE TypeOK'
<1> DEFINE c == Cleared(tx[t])
           s == c.serial + SpecDepth
           log == IF tx[t].read_only THEN c.write_log ELSE 0
           r == [c EXCEPT !.serial = s, !.write_log = log]
<1>1. tx[t] \in TaskState /\ Working(t) /\ t[2] \in Nat
  BY TaskTyped
<1>2. c \in TaskState /\ c.pc = "start" /\ c.serial = tx[t].serial
  BY <1>1, ClearedTyped
<1>3. Become(t, r) /\ UNCHANGED <<prog_thread, entry, locks, memory, clocks, validator>>
  BY DEF TxCommitted
<1> HIDE DEF c
<1>4. s \in Nat /\ log \in 0 .. LogSize
  BY <1>2, Constants DEF TaskState
<1>5. s >= SpecDepth + t[2]
  <2>1. tx[t].serial \in Nat /\ tx[t].serial >= SpecDepth + t[2]
    BY <1>1 DEF Working, TaskState
  <2>2. QED BY <1>1, <1>2, <2>1, Constants
<1> HIDE DEF s, log
<1>6. r \in TaskState
  BY <1>2, <1>4, Zenon DEF TaskState
<1>7. r.pc = "start" /\ r.serial = s
  BY <1>2 DEF TaskState
<1> HIDE DEF r
<1>8. WorkingAs(t, r)
  BY <1>5, <1>7 DEF WorkingAs, Accessing
<1>9. QED BY <1>3, <1>6, <1>8, OneTaskTyped

----------------------------------------------------------------------------
(***************************************************************************)
(* Rollback and abort.                                                     *)
(***************************************************************************)

\* The locks a rollback restores are pointers.
LEMMA RestoredTyped ==
  ASSUME TypeOK, NEW S \in SUBSET Ptr, S # {}
  PROVE  /\ Deref(FirstOf(S)).old_entry \in Ptr \cup {NULL}
         /\ Deref(LastOf(S)).old_entry \in Ptr \cup {NULL}
  BY FirstLast, DerefTyped

LEMMA TxRestartTyped == ASSUME TypeOK, NEW t \in Task, TxRestart(t) PROVE TypeOK'
<1> DEFINE c == Cleared(tx[t])
           r == [c EXCEPT !.write_log = 0]
<1>1. tx[t] \in TaskState /\ Working(t)
  BY TaskTyped
<1>2. c \in TaskState /\ c.pc = "start" /\ c.serial = tx[t].serial /\ 0 \in 0 .. LogSize
  BY <1>1, ClearedTyped, Constants
<1>3. Become(t, r) /\ UNCHANGED <<prog_thread, entry, read_lock, memory, clocks, validator>>
  BY DEF TxRestart
<1>4. write_lock' \in [Stripe -> Ptr \cup {NULL}]
  <2>1. ASSUME NEW s \in Stripe, On(s, LiveEntries(t)) # {}
        PROVE  Deref(LastOf(On(s, LiveEntries(t)))).old_entry \in Ptr \cup {NULL}
    <3>1. On(s, LiveEntries(t)) \in SUBSET Ptr
      BY LiveTyped DEF On
    <3>2. QED BY <2>1, <3>1, RestoredTyped
  <2>2. QED BY <2>1 DEF TxRestart, TypeOK
<1> HIDE DEF c
<1>5. r \in TaskState
  BY <1>2, Zenon DEF TaskState
<1>6. r.pc = "start" /\ r.serial = tx[t].serial
  BY <1>2 DEF TaskState
<1> HIDE DEF r
<1>7. WorkingAs(t, r)
  BY <1>1, <1>6 DEF WorkingAs, Working, Accessing
<1>8. tx' \in [Task -> TaskState] /\ \A u \in Task : Working(u)'
  BY <1>3, <1>5, <1>7, BecomeTyped
<1>9. QED BY <1>3, <1>4, <1>8 DEF TypeOK, clocks

LEMMA RollbackTurnTyped == ASSUME TypeOK, NEW t \in Task, RollbackTurn(t) PROVE TypeOK'
<1> DEFINE r == [tx[t] EXCEPT !.pc = "rollback", !.from = 0]
<1>1. tx[t] \in TaskState /\ Working(t)
  BY TaskTyped
<1>2. "rollback" \in PC /\ "rollback" \notin Accessing \cup {"run"} /\ 0 \in 0 .. CommitTask
  BY Constants DEF PC, Accessing
<1>3. r \in TaskState
  BY <1>1, <1>2, Zenon DEF TaskState
<1>4. r.pc = "rollback" /\ r.serial = tx[t].serial
  BY <1>1 DEF TaskState
<1>5. Become(t, r) /\ UNCHANGED <<prog_thread, entry, locks, memory, clocks, validator>>
  BY DEF RollbackTurn
<1> HIDE DEF r
<1>6. WorkingAs(t, r)
  BY <1>1, <1>2, <1>4 DEF WorkingAs, Working, Accessing
<1>7. QED BY <1>3, <1>5, <1>6, OneTaskTyped

LEMMA RollbackTransactionTyped ==
  ASSUME TypeOK, NEW t \in Task, RollbackTransaction(t) PROVE TypeOK'
<1> DEFINE p == t[1]
           undone == {<<p, k>> : k \in tx[t].from .. CommitTask}
           Under(s) == On(s, UNION {LiveEntries(u) : u \in undone})
           before == start_serial(t) + tx[t].from - 1
           q == [PT(t) EXCEPT !.last_completed_writer = before, !.progress = 0,
                          !.last_completed_task = before]
           mine == [tx[t] EXCEPT !.write_log = 0, !.aborting_transaction = FALSE,
                              !.i = tx[t].from, !.pc = "rollback_clear"]
<1>1. /\ tx[t] \in TaskState /\ Working(t) /\ PT(t) \in ThreadState /\ p \in Thread
      /\ t[2] \in Nat /\ tx[t].serial \in Nat /\ tx[t].from \in 0 .. CommitTask
  BY TaskTyped DEF TaskState
<1>2. UNCHANGED <<entry, read_lock, memory, clocks, validator>>
  BY DEF RollbackTransaction
<1>3. undone \subseteq Task
  BY <1>1 DEF Task, CommitTask
<1>4. write_lock' \in [Stripe -> Ptr \cup {NULL}]
  <2> HIDE DEF undone
  <2>1. \A s \in Stripe : Under(s) \in SUBSET Ptr
    BY <1>3, LiveTyped DEF On
  <2>2. write_lock' = [s \in Stripe |-> IF Under(s) = {} THEN write_lock[s]
                                        ELSE Deref(FirstOf(Under(s))).old_entry]
    BY DEF RollbackTransaction, undone
  <2> HIDE DEF Under
  <2>3. \A s \in Stripe : Under(s) # {} => Deref(FirstOf(Under(s))).old_entry \in Ptr \cup {NULL}
    BY <2>1, RestoredTyped
  <2>4. QED BY <2>2, <2>3 DEF TypeOK
<1>5. prog_thread' \in [Thread -> ThreadState]
  <2>1. before \in Nat
    <3>1. tx[t].serial >= SpecDepth + t[2]
      BY <1>1 DEF Working
    <3>2. QED BY <1>1, <3>1, Constants DEF start_serial
  <2>2. UpdatePT(t, q)
    BY DEF RollbackTransaction
  <2>3. 0 \in Nat
    OBVIOUS
  <2> HIDE DEF before
  <2>4. q \in ThreadState
    BY <1>1, <2>1, <2>3, Zenon DEF ThreadState
  <2> HIDE DEF q
  <2>5. QED BY <2>2, <2>4, UpdateTyped
<1>6. TasksOK(tx')
  <2>1. "rollback_clear" \in PC /\ "rollback_clear" \notin Accessing \cup {"run"}
        /\ 0 \in 0 .. LogSize /\ FALSE \in BOOLEAN
    BY Constants DEF PC, Accessing
  <2>2. mine \in TaskState
    BY <1>1, <2>1, Zenon DEF TaskState
  <2>3. mine.pc = "rollback_clear" /\ mine.serial = tx[t].serial
    BY <1>1 DEF TaskState
  <2>4. tx' = [u \in Task |-> IF u = t THEN mine
                              ELSE IF u \in undone THEN [tx[u] EXCEPT !.write_log = 0] ELSE tx[u]]
    BY DEF RollbackTransaction
  <2> HIDE DEF mine, undone
  <2>5. WorkingAs(t, mine)
    BY <1>1, <2>1, <2>3 DEF WorkingAs, Working, Accessing
  <2>6. ASSUME NEW u \in Task
        PROVE  /\ tx[u] \in TaskState /\ WorkingAs(u, tx[u])
               /\ [tx[u] EXCEPT !.write_log = 0] \in TaskState
               /\ WorkingAs(u, [tx[u] EXCEPT !.write_log = 0])
    <3> DEFINE z == [tx[u] EXCEPT !.write_log = 0]
    <3>1. tx[u] \in TaskState /\ WorkingAs(u, tx[u])
      BY TypedTasks DEF TasksOK
    <3>2. z \in TaskState
      BY <2>1, <3>1, Zenon DEF TaskState
    <3>3. z.pc = tx[u].pc /\ z.serial = tx[u].serial /\ z.ip = tx[u].ip /\ z.ptr = tx[u].ptr
      BY <3>1 DEF TaskState
    <3> HIDE DEF z
    <3>4. WorkingAs(u, z)
      BY <3>1, <3>3 DEF WorkingAs
    <3>5. QED BY <3>1, <3>2, <3>4 DEF z
  <2>7. ASSUME NEW u \in Task PROVE tx'[u] \in TaskState /\ WorkingAs(u, tx'[u])
    <3>1. CASE u = t
      BY <2>2, <2>4, <2>5, <3>1
    <3>2. CASE u # t
      BY <2>4, <2>6, <3>2
    <3>3. QED BY <3>1, <3>2
  <2>8. tx' = [u \in Task |-> tx'[u]]
    BY <2>4
  <2>9. QED BY <2>7, <2>8 DEF TasksOK
<1>7. QED BY <1>2, <1>4, <1>5, <1>6, TasksTyped DEF TypeOK, clocks

LEMMA RollbackClearTyped == ASSUME TypeOK, NEW t \in Task, RollbackClear(t) PROVE TypeOK'
<1> DEFINE f == [tx EXCEPT ![<<t[1], tx[t].i>>].abort_transaction = FALSE]
           i2 == IF f[t].i = CommitTask THEN tx[t].from ELSE f[t].i + 1
           pc2 == IF tx[t].i = CommitTask THEN "rollback_valid" ELSE f[t].pc
           r == [f[t] EXCEPT !.i = i2, !.pc = pc2]
<1>1. TasksOK(f)
  BY TypedTasks, FlagOK
<1>2. tx[t] \in TaskState /\ tx[t].pc = "rollback_clear" /\ tx[t].from \in 0 .. CommitTask
  BY TaskTyped DEF RollbackClear, At, TaskState
<1>3. f[t].pc = "rollback_clear" /\ f[t].i = tx[t].i
  BY <1>2 DEF TypeOK, TaskState
<1>4. f[t] \in TaskState /\ WorkingAs(t, f[t])
  BY <1>1 DEF TasksOK
<1>5. tx' = [f EXCEPT ![t] = r]
  BY DEF RollbackClear
<1> HIDE DEF f
<1>6. i2 \in 0 .. CommitTask
  BY <1>2, <1>4, Constants DEF TaskState
<1>7. pc2 \in PC /\ pc2 \notin Accessing \cup {"run"}
  BY <1>3 DEF PC, Accessing
<1> HIDE DEF i2, pc2
<1>8. r \in TaskState
  BY <1>4, <1>6, <1>7, Zenon DEF TaskState
<1>9. r.pc = pc2 /\ r.serial = f[t].serial
  BY <1>4 DEF TaskState
<1> HIDE DEF r
<1>10. WorkingAs(t, r)
  BY <1>4, <1>7, <1>9 DEF WorkingAs, Accessing
<1>11. TasksOK(tx')
  BY <1>1, <1>5, <1>8, <1>10, SetTaskOK
<1>12. QED BY <1>11, TasksTyped DEF RollbackClear, TypeOK, locks, clocks

LEMMA RollbackValidTyped == ASSUME TypeOK, NEW t \in Task, RollbackValid(t) PROVE TypeOK'
<1> DEFINE r == [PT(t) EXCEPT !.requires_validation = FALSE, !.validated = TRUE,
                    !.valid_ts = commit_ts]
<1>1. PT(t) \in ThreadState /\ commit_ts \in Nat /\ FALSE \in BOOLEAN /\ TRUE \in BOOLEAN
  BY TaskTyped DEF TypeOK
<1>2. r \in ThreadState
  BY <1>1, Zenon DEF ThreadState
<1>3. "rollback_signal" \in PC \ (Accessing \cup {"run"})
  BY DEF PC, Accessing
<1>4. UpdatePT(t, r) /\ Goto(t, "rollback_signal") /\ UNCHANGED <<entry, locks, memory, clocks, validator>>
  BY DEF RollbackValid
<1> HIDE DEF r
<1>5. QED BY <1>2, <1>3, <1>4, GotoUpdateTyped

LEMMA RollbackSignalTyped == ASSUME TypeOK, NEW t \in Task, RollbackSignal(t) PROVE TypeOK'
<1>1. tx[t] \in TaskState /\ Working(t) /\ tx[t].pc = "rollback_signal" /\ tx[t].i \in 0 .. CommitTask
  BY TaskTyped DEF RollbackSignal, At, TaskState
<1>2. UNCHANGED <<prog_thread, entry, locks, memory, clocks, validator>>
  BY DEF RollbackSignal
<1>3. CASE tx[t].i = CommitTask
  <2> DEFINE r == [tx[t] EXCEPT !.pc = "restart", !.i = 0, !.from = 0]
  <2>1. "restart" \in PC /\ "restart" \notin Accessing \cup {"run"} /\ 0 \in 0 .. CommitTask
    BY Constants DEF PC, Accessing
  <2>2. r \in TaskState
    BY <1>1, <2>1, Zenon DEF TaskState
  <2>3. r.pc = "restart" /\ r.serial = tx[t].serial
    BY <1>1 DEF TaskState
  <2>4. Become(t, r)
    BY <1>3 DEF RollbackSignal
  <2> HIDE DEF r
  <2>5. WorkingAs(t, r)
    BY <1>1, <2>1, <2>3 DEF WorkingAs, Working, Accessing
  <2>6. QED BY <1>2, <2>2, <2>4, <2>5, OneTaskTyped
<1>4. CASE tx[t].i # CommitTask
  <2> DEFINE f == [tx EXCEPT ![<<t[1], tx[t].i>>].aborting_transaction = TRUE]
             i2 == f[t].i + 1
             r == [f[t] EXCEPT !.i = i2]
  <2>1. TasksOK(f)
    BY TypedTasks, FlagOK
  <2>2. f[t].pc = "rollback_signal" /\ f[t].i = tx[t].i
    BY <1>1 DEF TypeOK, TaskState
  <2>3. f[t] \in TaskState /\ WorkingAs(t, f[t])
    BY <2>1 DEF TasksOK
  <2>4. tx' = [f EXCEPT ![t] = r]
    <3>1. tx' = [tx EXCEPT ![<<t[1], tx[t].i>>].aborting_transaction = TRUE, ![t].i = @ + 1]
      BY <1>4 DEF RollbackSignal
    <3>2. QED BY <3>1, Zenon
  <2> HIDE DEF f
  <2>5. i2 \in 0 .. CommitTask
    BY <1>1, <1>4, <2>2, Constants
  <2> HIDE DEF i2
  <2>6. r \in TaskState
    BY <2>3, <2>5, Zenon DEF TaskState
  <2>7. r.pc = "rollback_signal" /\ r.serial = f[t].serial
    BY <2>2, <2>3 DEF TaskState
  <2> HIDE DEF r
  <2>8. WorkingAs(t, r)
    BY <2>3, <2>7 DEF WorkingAs, Accessing
  <2>9. TasksOK(tx')
    BY <2>1, <2>4, <2>6, <2>8, SetTaskOK
  <2>10. QED BY <1>2, <2>9, TasksTyped DEF TypeOK, locks, clocks
<1>5. QED BY <1>3, <1>4

LEMMA ReadyTyped == ASSUME TypeOK, NEW t \in Task, Ready(t) PROVE TypeOK'
<1> DEFINE f == [tx EXCEPT ![<<t[1], CommitTask>>].aborting_transaction = TRUE]
           r == [f[t] EXCEPT !.pc = "ready_turn"]
<1>1. TasksOK(f)
  BY TypedTasks, FlagOK
<1>2. f[t] \in TaskState /\ WorkingAs(t, f[t])
  BY <1>1 DEF TasksOK
<1>3. tx' = [f EXCEPT ![t] = r]
  BY DEF Ready
<1> HIDE DEF f
<1>4. "ready_turn" \in PC /\ "ready_turn" \notin Accessing \cup {"run"}
  BY DEF PC, Accessing
<1>5. r \in TaskState
  BY <1>2, <1>4, Zenon DEF TaskState
<1>6. r.pc = "ready_turn" /\ r.serial = f[t].serial
  BY <1>2 DEF TaskState
<1> HIDE DEF r
<1>7. WorkingAs(t, r)
  BY <1>2, <1>4, <1>6 DEF WorkingAs, Accessing
<1>8. TasksOK(tx')
  BY <1>1, <1>3, <1>5, <1>7, SetTaskOK
<1>9. QED BY <1>8, TasksTyped DEF Ready, TypeOK, locks, clocks

LEMMA ReadyTurnTyped == ASSUME TypeOK, NEW t \in Task, ReadyTurn(t) PROVE TypeOK'
<1> DEFINE r == [PT(t) EXCEPT !.last_completed_task = tx[t].serial]
<1>1. PT(t) \in ThreadState /\ tx[t].serial \in Nat
  BY TaskTyped DEF TaskState
<1>2. r \in ThreadState
  BY <1>1, Zenon DEF ThreadState
<1>3. "ready_wait" \in PC \ (Accessing \cup {"run"})
  BY DEF PC, Accessing
<1>4. UpdatePT(t, r) /\ Goto(t, "ready_wait") /\ UNCHANGED <<entry, locks, memory, clocks, validator>>
  BY DEF ReadyTurn
<1> HIDE DEF r
<1>5. QED BY <1>2, <1>3, <1>4, GotoUpdateTyped

LEMMA ReadyWaitTyped == ASSUME TypeOK, NEW t \in Task, ReadyWait(t) PROVE TypeOK'
  BY RestartsTyped DEF ReadyWait

----------------------------------------------------------------------------
(***************************************************************************)
(* The validator.                                                          *)
(***************************************************************************)

LEMMA ValidatorTyped == ASSUME TypeOK, NEW p \in Thread, ValidatorStep(p) PROVE TypeOK'
<1> DEFINE V == [pc : ValidatorPC, ts : Nat, i : 0 .. CommitTask]
<1>1. /\ validator[p] \in V /\ prog_thread[p] \in ThreadState /\ commit_ts \in Nat
      /\ validator \in [Thread -> V] /\ prog_thread \in [Thread -> ThreadState]
  BY DEF TypeOK
<1>2. FALSE \in BOOLEAN /\ TRUE \in BOOLEAN /\ 0 \in Nat
  OBVIOUS
<1>3. ASSUME NEW from, NEW to \in ValidatorPC, Validator(p, from, to)
      PROVE  validator' \in [Thread -> V]
  BY <1>1, <1>3 DEF Validator
<1>4. ASSUME NEW r \in ThreadState, SetPT(p, r) PROVE prog_thread' \in [Thread -> ThreadState]
  BY <1>1, <1>4 DEF SetPT
<1>5. ASSUME validator' \in [Thread -> V], prog_thread' \in [Thread -> ThreadState],
             TasksOK(tx'), UNCHANGED <<entry, locks, memory, clocks>>
      PROVE  TypeOK'
  <2> HIDE DEF V
  <2>1. QED BY <1>5, TasksTyped DEF TypeOK, locks, clocks, V
<1>6. UNCHANGED tx => TasksOK(tx')
  BY TypedTasks
<1>7. CASE ValidatorWakes(p)
  <2>1. "begin" \in ValidatorPC
    BY DEF ValidatorPC
  <2>2. QED BY <1>1, <1>3, <1>5, <1>6, <1>7, <2>1 DEF ValidatorWakes
<1>8. CASE ValidatorBegins(p)
  <2>1. "clear" \in ValidatorPC
    BY DEF ValidatorPC
  <2>2. [prog_thread[p] EXCEPT !.validated = FALSE] \in ThreadState
    BY <1>1, <1>2, Zenon DEF ThreadState
  <2>3. QED BY <1>3, <1>4, <1>5, <1>6, <1>8, <2>1, <2>2 DEF ValidatorBegins
<1>9. CASE ValidatorClears(p)
  <2>1. "stamp" \in ValidatorPC
    BY DEF ValidatorPC
  <2>2. [prog_thread[p] EXCEPT !.requires_validation = FALSE] \in ThreadState
    BY <1>1, <1>2, Zenon DEF ThreadState
  <2>3. QED BY <1>3, <1>4, <1>5, <1>6, <1>9, <2>1, <2>2 DEF ValidatorClears
<1>10. CASE ValidatorReadsTs(p)
  <2>1. "check" \in ValidatorPC
    BY DEF ValidatorPC
  <2>2. [validator[p] EXCEPT !.pc = "check", !.ts = commit_ts] \in V
    BY <1>1, <2>1
  <2>3. validator' = [validator EXCEPT ![p] = [validator[p] EXCEPT !.pc = "check", !.ts = commit_ts]]
    BY <1>10 DEF ValidatorReadsTs
  <2>4. validator' \in [Thread -> V]
    BY <1>1, <2>2, <2>3
  <2>5. QED BY <1>1, <1>5, <1>6, <1>10, <2>4 DEF ValidatorReadsTs
<1>11. CASE ExtendTx(p)
  <2> DEFINE pc == IF ValidateTx(p) THEN "done" ELSE "abort"
             v == [validator[p] EXCEPT !.pc = pc, !.ts = 0]
             r == [prog_thread[p] EXCEPT !.valid_ts = validator[p].ts]
  <2>1. pc \in ValidatorPC
    BY DEF ValidatorPC
  <2>2. validator' = [validator EXCEPT ![p] = v]
    BY <1>11 DEF ExtendTx
  <2> HIDE DEF pc
  <2>3. v \in V
    BY <1>1, <2>1
  <2>4. validator' \in [Thread -> V]
    BY <1>1, <2>2, <2>3
  <2>5. validator[p].ts \in Nat
    BY <1>1
  <2>6. r \in ThreadState
    BY <1>1, <2>5, Zenon DEF ThreadState
  <2>7. SetPT(p, r) \/ UNCHANGED prog_thread
    BY <1>11 DEF ExtendTx
  <2>8. prog_thread' \in [Thread -> ThreadState]
    BY <1>1, <1>4, <2>6, <2>7
  <2>9. QED BY <1>5, <1>6, <1>11, <2>4, <2>8 DEF ExtendTx
<1>12. CASE ValidatorAborts(p)
  <2> DEFINE pc == IF validator[p].i = CommitTask THEN "done" ELSE validator[p].pc
             i2 == IF validator[p].i = CommitTask THEN 0 ELSE validator[p].i + 1
             v == [validator[p] EXCEPT !.pc = pc, !.i = i2]
  <2>1. pc \in ValidatorPC /\ i2 \in 0 .. CommitTask
    BY <1>1, Constants DEF ValidatorPC
  <2>2. validator' = [validator EXCEPT ![p] = v]
    BY <1>12 DEF ValidatorAborts
  <2> HIDE DEF pc, i2
  <2>3. v \in V
    BY <1>1, <2>1
  <2>4. validator' \in [Thread -> V]
    BY <1>1, <2>2, <2>3
  <2>5. tx' = [tx EXCEPT ![<<p, validator[p].i>>].abort_transaction = TRUE]
    BY <1>12 DEF ValidatorAborts
  <2>6. TasksOK(tx')
    BY <2>5, TypedTasks, FlagOK
  <2>7. QED BY <1>1, <1>5, <1>12, <2>4, <2>6 DEF ValidatorAborts
<1>13. CASE ValidatorDone(p)
  <2>1. "idle" \in ValidatorPC
    BY DEF ValidatorPC
  <2>2. [prog_thread[p] EXCEPT !.validated = TRUE] \in ThreadState
    BY <1>1, <1>2, Zenon DEF ThreadState
  <2>3. QED BY <1>3, <1>4, <1>5, <1>6, <1>13, <2>1, <2>2 DEF ValidatorDone
<1>14. QED
  BY <1>7, <1>8, <1>9, <1>10, <1>11, <1>12, <1>13 DEF ValidatorStep

----------------------------------------------------------------------------
(***************************************************************************)
(* The theorem.                                                            *)
(***************************************************************************)

LEMMA InitTyped == Init => TypeOK
<1> SUFFICES ASSUME Init PROVE TypeOK
  OBVIOUS
<1>1. prog_thread \in [Thread -> ThreadState]
  BY Constants DEF Init, ThreadState, MINIMUM_TS
<1>2. TasksOK(tx)
  <2>1. ASSUME NEW t \in Task
        PROVE  tx[t] \in TaskState /\ tx[t].pc = "start" /\ tx[t].serial = SpecDepth + t[2]
    <3>1. t[2] \in 0 .. CommitTask /\ SpecDepth + t[2] \in Nat
      BY Constants DEF Task, CommitTask
    <3>2. "start" \in PC /\ 0 \in Nat /\ 0 \in 0 .. CommitTask /\ 0 \in 0 .. LogSize
          /\ 1 \in Nat \ {0} /\ FALSE \in BOOLEAN /\ TRUE \in BOOLEAN
      BY Constants DEF PC
    <3> DEFINE r == [pc |-> "start", serial |-> SpecDepth + t[2], last_writer |-> 0,
          abort_task |-> FALSE, abort_transaction |-> FALSE, aborting_transaction |-> FALSE,
          read_log |-> {}, task_read_log |-> {}, write_log |-> 0, read_only |-> TRUE,
          ip |-> 1, acc |-> 0,
          ptr |-> NULL, version |-> 0, value |-> 0, i |-> 0, from |-> 0, todo |-> {}]
    <3>3. tx[t] = r
      BY DEF Init
    <3>4. r \in TaskState
      BY <3>1, <3>2, Zenon DEF TaskState
    <3>5. QED BY <3>3, <3>4
  <2>2. tx = [t \in Task |-> tx[t]]
    BY DEF Init
  <2>3. \A t \in Task : WorkingAs(t, tx[t])
    <3>1. \A t \in Task : SpecDepth + t[2] \in Nat
      BY Constants DEF Task, CommitTask
    <3>2. QED BY <2>1, <3>1 DEF WorkingAs, Accessing
  <2>4. QED BY <2>1, <2>2, <2>3 DEF TasksOK
<1>3. \A t \in Task : Working(t)
  BY <1>2 DEF TasksOK, Working, WorkingAs, HasTx, Ops
<1>4. entry \in [Task -> [1 .. LogSize -> Entry]]
  <2>1. NoEntry \in Entry
    BY DEF NoEntry, Entry, READ_LOCK_SET
  <2>2. QED BY <2>1 DEF Init
<1>5. validator \in [Thread -> [pc : ValidatorPC, ts : Nat, i : 0 .. CommitTask]]
  BY Constants DEF Init, ValidatorPC
<1>6. QED BY <1>1, <1>2, <1>3, <1>4, <1>5 DEF Init, TypeOK, TasksOK

LEMMA TaskStepTyped == ASSUME TypeOK, NEW t \in Task, TaskStep(t) PROVE TypeOK'
<1>1. CASE TxStart(t) \/ Skip(t) \/ Reads(t)
  BY <1>1, TxStartTyped, SkipTyped, ReadWordTyped, LooksTyped, ReadTaskTyped, ReadVersionTyped,
     ReadValueTyped, ReadLogTyped, ReadExtendTyped DEF Reads, Looks
<1>2. CASE Writes(t)
  BY <1>2, WriteWordTyped, WriteLoadTyped, WriteConflictTyped, SignalAbortTyped, LooksTyped,
     WriteAfterTaskTyped, WriteBeforeTaskTyped, WriteCasTyped, WriteExtendTyped
     DEF Writes, Looks
<1>3. CASE Commits(t)
  BY <1>3, TxCommitTyped, LooksTyped, CompleteTyped, ProgressTyped, AwaitCommitTyped,
     LockReadsTyped, IncrementCommitTsTyped, ValidateCommitTyped, WriteBackTyped,
     WrittenBackTyped, CommitDoneTyped, TxCommittedTyped DEF Commits, Looks
<1>4. CASE Aborts(t)
  BY <1>4, RollbackTurnTyped, RollbackTransactionTyped, RollbackClearTyped, RollbackValidTyped,
     RollbackSignalTyped, ReadyTyped, ReadyTurnTyped, ReadyWaitTyped, TxRestartTyped DEF Aborts
<1>5. QED BY <1>1, <1>2, <1>3, <1>4 DEF TaskStep

LEMMA StepTyped == TypeOK /\ [Next]_vars => TypeOK'
<1> SUFFICES ASSUME TypeOK, [Next]_vars PROVE TypeOK'
  OBVIOUS
<1>1. CASE UNCHANGED vars
  BY <1>1 DEF vars, TypeOK, Working, HasTx, Ops
<1>2. CASE Next
  BY <1>2, TaskStepTyped, ValidatorTyped DEF Next
<1>3. QED BY <1>1, <1>2

\* In every state the program can reach, every pointer, index and lock the
\* tasks hold is one that exists, and a task in an access has the operation it
\* accesses memory for.
THEOREM Typed == Spec => []TypeOK
  BY InitTyped, StepTyped, PTL DEF Spec

----------------------------------------------------------------------------
(* The order of the tasks *)

(***************************************************************************)
(* What the steps change of the state InOrder speaks of.                   *)
(***************************************************************************)

SameTask(u) == /\ tx'[u].pc = tx[u].pc /\ tx'[u].serial = tx[u].serial
               /\ tx'[u].aborting_transaction = tx[u].aborting_transaction
               /\ tx'[u].from = tx[u].from /\ tx'[u].i = tx[u].i
SameOthers(t) == \A u \in Task : u # t => SameTask(u)
SameTurn == \A p \in Thread :
              prog_thread'[p].last_completed_task = prog_thread[p].last_completed_task

\* The pcs InOrder treats in a way of their own.
Special == Parked \cup RollingBack \cup {"ready_turn"}

\* A step of t that changes nothing of it but a pc that is not special.
QuietStep(t) ==
  /\ tx[t].pc \notin Special /\ tx'[t].pc \notin Special
  /\ tx'[t].serial = tx[t].serial
  /\ tx'[t].aborting_transaction = tx[t].aborting_transaction
  /\ SameOthers(t) /\ SameTurn
  /\ tx'[t].pc \in CommitPcs => try_commit(t)
  /\ tx'[t].pc \in EarlierPcs => ~ try_commit(t)
  /\ tx'[t].pc \in Turn => MyTurn(t)

\* The numbers InOrder is about are numbers.
LEMMA Numbers ==
  ASSUME TypeOK, NEW t \in Task
  PROVE  /\ t[1] \in Thread /\ t[2] \in Nat /\ t[2] <= CommitTask
         /\ tx[t].serial \in Nat /\ PT(t).last_completed_task \in Nat
         /\ tx[t].from \in 0 .. CommitTask /\ tx[t].i \in 0 .. CommitTask
         /\ tx[t].aborting_transaction \in BOOLEAN
         /\ Committer(t) \in Task /\ Committer(t)[1] = t[1] /\ Committer(t)[2] = CommitTask
         /\ Committer(Committer(t)) = Committer(t) /\ try_commit(Committer(t))
         /\ tx[Committer(t)].serial \in Nat /\ PT(Committer(t)) = PT(t)
         /\ (try_commit(t) <=> t = Committer(t))
<1>1. t[1] \in Thread /\ t[2] \in 0 .. CommitTask /\ t = <<t[1], t[2]>>
  BY DEF Task, CommitTask
<1>2. <<t[1], CommitTask>> \in Task
  BY <1>1, Constants DEF Task, CommitTask
<1>3. tx[t] \in TaskState /\ tx[Committer(t)] \in TaskState /\ PT(t) \in ThreadState
  BY <1>2, TaskTyped DEF Committer
<1>4. QED BY <1>1, <1>2, <1>3, Constants DEF Committer, try_commit, TaskState, ThreadState, PT

\* Two tasks of a thread do not have the same serial.
LEMMA Distinct ==
  ASSUME TypeOK, InOrder, NEW t \in Task, NEW u \in Task, t[1] = u[1],
         tx[t].serial = tx[u].serial
  PROVE  t = u
<1> DEFINE first == start_serial(Committer(t))
<1>1. Committer(u) = Committer(t)
  BY DEF Committer
<1>2. /\ start_serial(t) \in {first - SpecDepth, first, first + SpecDepth}
      /\ start_serial(u) \in {first - SpecDepth, first, first + SpecDepth}
  BY <1>1 DEF InOrder, Window
<1>3. first \in Int /\ start_serial(t) = tx[t].serial - t[2] /\ start_serial(u) = tx[u].serial - u[2]
  BY Numbers DEF start_serial
<1>4. t[2] \in Nat /\ u[2] \in Nat /\ t[2] < SpecDepth /\ u[2] < SpecDepth
      /\ tx[t].serial \in Nat /\ tx[u].serial \in Nat
  BY Numbers, Constants
<1> HIDE DEF first
<1>5. t[2] = u[2]
  BY <1>2, <1>3, <1>4, Constants
<1>6. QED BY <1>5 DEF Task

\* Nothing InOrder speaks of changes.
LEMMA NothingNew ==
  ASSUME TypeOK, InOrder, \A u \in Task : SameTask(u), SameTurn
  PROVE  InOrder'
<1>1. ASSUME NEW u \in Task
      PROVE /\ SameTask(u) /\ SameTask(Committer(u)) /\ Committer(u) \in Task
            /\ PT(u)'.last_completed_task = PT(u).last_completed_task
  BY Numbers DEF SameTurn, PT
<1>2. \A u \in Task : /\ (Held(u)' <=> Held(u)) /\ (AwaitsAbort(u)' <=> AwaitsAbort(u))
                      /\ start_serial(u)' = start_serial(u) /\ commit_serial(u)' = commit_serial(u)
                      /\ start_serial(Committer(u))' = start_serial(Committer(u))
  BY <1>1 DEF Held, AwaitsAbort, start_serial, commit_serial, SameTask, Committer, try_commit
<1>3. ASSUME NEW u \in Task PROVE Roles(u)' /\ Window(u)' /\ HeldWaits(u)'
  <2>1. Roles(u) /\ Window(u) /\ HeldWaits(u)
    BY DEF InOrder
  <2>2. Roles(u)'
    BY <1>1, <2>1 DEF Roles, SameTask, try_commit
  <2>3. Window(u)'
    BY <1>1, <1>2, <2>1 DEF Window, SameTask
  <2>4. HeldWaits(u)'
    BY <1>1, <1>2, <2>1 DEF HeldWaits, SameTask
  <2>5. QED BY <2>2, <2>3, <2>4
<1>4. ASSUME NEW u \in Task PROVE Signalled(u)'
  <2>1. Signalled(u)
    BY DEF InOrder
  <2>2. QED BY <1>1, <1>2, <2>1 DEF Signalled, SameTask, try_commit
<1>5. QED BY <1>3, <1>4 DEF InOrder

LEMMA QuietKeeps ==
  ASSUME TypeOK, InOrder, NEW t \in Task, QuietStep(t)
  PROVE  InOrder'
<1>1. tx[t].pc \notin Waiting /\ tx[t].pc # "committed" /\ tx[t].pc # "ready_turn"
      /\ tx[t].pc \notin RollingBack /\ tx[t].pc \notin Parked
  BY DEF QuietStep, Special, Parked, Waiting
<1>2. tx'[t].pc \notin Waiting /\ tx'[t].pc # "committed" /\ tx'[t].pc # "ready_turn"
      /\ tx'[t].pc \notin RollingBack /\ tx'[t].pc \notin Parked
  BY DEF QuietStep, Special, Parked, Waiting
<1>3. \A u \in Task : u # t => SameTask(u)
  BY DEF QuietStep, SameOthers
<1>4. tx'[t].serial = tx[t].serial /\ tx'[t].aborting_transaction = tx[t].aborting_transaction
  BY DEF QuietStep
<1>5. \A u \in Task : /\ tx'[u].serial = tx[u].serial
                      /\ tx'[u].aborting_transaction = tx[u].aborting_transaction
                      /\ PT(u)'.last_completed_task = PT(u).last_completed_task
  BY <1>3, <1>4, Numbers DEF QuietStep, SameTask, SameTurn, PT
<1>6. \A u \in Task : /\ start_serial(u)' = start_serial(u) /\ commit_serial(u)' = commit_serial(u)
                      /\ Committer(u) \in Task
                      /\ start_serial(Committer(u))' = start_serial(Committer(u))
  BY <1>5, Numbers DEF start_serial, commit_serial, Committer
<1>7. ASSUME NEW u \in Task PROVE Held(u)' <=> Held(u)
  <2>1. CASE Committer(u) = t
    BY <1>1, <1>2, <2>1 DEF Held, Committer
  <2>2. CASE Committer(u) # t
    BY <1>3, <1>6, <2>2 DEF Held, SameTask, Committer, try_commit
  <2>3. QED BY <2>1, <2>2
<1>8. ~ Held(t) /\ (~ try_commit(t) => ~ tx[t].aborting_transaction)
  BY <1>1 DEF InOrder, HeldWaits, Signalled
<1>9. ASSUME NEW u \in Task, AwaitsAbort(u) PROVE AwaitsAbort(u)'
  <2>1. u # t
    BY <1>1, <1>9 DEF AwaitsAbort, Waiting
  <2>2. QED BY <1>3, <1>7, <1>9, <2>1 DEF AwaitsAbort, SameTask, try_commit
<1>10. ASSUME NEW u \in Task PROVE Roles(u)' /\ Window(u)' /\ HeldWaits(u)' /\ Signalled(u)'
  <2>1. Roles(u) /\ Window(u) /\ HeldWaits(u) /\ Signalled(u)
    BY DEF InOrder
  <2>2. Roles(u)'
    <3>1. CASE u = t
      BY <1>2, <3>1 DEF Roles, QuietStep, RollingBack, try_commit
    <3>2. CASE u # t
      BY <1>3, <2>1, <3>2 DEF Roles, SameTask, try_commit
    <3>3. QED BY <3>1, <3>2
  <2>3. Window(u)'
    <3>1. CASE u = t
      <4>1. tx'[t].pc \in Turn => PT(t).last_completed_task = tx[t].serial - 1
        BY DEF QuietStep, MyTurn
      <4>2. PT(t).last_completed_task < tx[t].serial
        BY <1>1, <2>1, <3>1 DEF Window
      <4>3. QED BY <1>2, <1>5, <1>6, <2>1, <3>1, <4>1, <4>2 DEF Window
    <3>2. CASE u # t
      BY <1>3, <1>5, <1>6, <2>1, <3>2 DEF Window, SameTask
    <3>3. QED BY <3>1, <3>2
  <2>4. HeldWaits(u)'
    <3>1. CASE u = t
      BY <1>7, <1>8, <3>1 DEF HeldWaits
    <3>2. CASE u # t
      BY <1>3, <1>5, <1>6, <1>7, <2>1, <3>2 DEF HeldWaits, SameTask
    <3>3. QED BY <3>1, <3>2
  <2>5. Signalled(u)'
    <3>1. CASE try_commit(u)
      BY <1>5, <1>9, <2>1, <3>1 DEF Signalled, try_commit
    <3>2. CASE ~ try_commit(u) /\ u = t
      BY <1>5, <1>8, <3>2 DEF Signalled, try_commit
    <3>3. CASE ~ try_commit(u) /\ u # t
      BY <1>3, <1>5, <2>1, <3>3 DEF Signalled, SameTask, try_commit
    <3>4. QED BY <3>1, <3>2, <3>3
  <2>6. QED BY <2>2, <2>3, <2>4, <2>5
<1>11. QED BY <1>10 DEF InOrder

----------------------------------------------------------------------------
(***************************************************************************)
(* The quiet steps.                                                        *)
(***************************************************************************)

\* The pcs a quiet step may reach in any task, and those of the turn.
Plain == PC \ (Special \cup CommitPcs \cup EarlierPcs \cup Turn)

LEMMA BecomeQuiet ==
  ASSUME TypeOK, NEW t \in Task, NEW r, Become(t, r), SameTurn,
         r.serial = tx[t].serial, r.aborting_transaction = tx[t].aborting_transaction,
         tx[t].pc \notin Special, r.pc \notin Special,
         r.pc \in CommitPcs => try_commit(t), r.pc \in EarlierPcs => ~ try_commit(t),
         r.pc \in Turn => MyTurn(t)
  PROVE  QuietStep(t)
<1>1. tx'[t] = r /\ \A u \in Task : u # t => tx'[u] = tx[u]
  BY DEF Become, TypeOK
<1>2. QED BY <1>1 DEF QuietStep, SameOthers, SameTask

LEMMA GotoQuiet ==
  ASSUME TypeOK, NEW t \in Task, NEW pc, Goto(t, pc), SameTurn,
         tx[t].pc \notin Special, pc \notin Special,
         pc \in CommitPcs => try_commit(t), pc \in EarlierPcs => ~ try_commit(t),
         pc \in Turn => MyTurn(t)
  PROVE  QuietStep(t)
<1> DEFINE r == [tx[t] EXCEPT !.pc = pc]
<1>1. Become(t, r)
  BY DEF Goto
<1>2. r.serial = tx[t].serial /\ r.aborting_transaction = tx[t].aborting_transaction /\ r.pc = pc
  BY TaskTyped DEF TaskState
<1> HIDE DEF r
<1>3. QED BY <1>1, <1>2, BecomeQuiet

LEMMA AbortPcQuiet ==
  ASSUME NEW t
  PROVE  /\ AbortPc(t) \notin Special /\ AbortPc(t) \notin Turn
         /\ AbortPc(t) \in CommitPcs => try_commit(t)
         /\ AbortPc(t) \in EarlierPcs => ~ try_commit(t)
  BY DEF AbortPc, Special, Parked, RollingBack, Turn, CommitPcs, EarlierPcs, Waiting

LEMMA NextOpFields ==
  ASSUME NEW r \in TaskState, NEW v
  PROVE  /\ NextOp(r).pc = "run" /\ NextOp(r).serial = r.serial
         /\ NextOp(r).aborting_transaction = r.aborting_transaction
         /\ Returned(r, v).pc = "run" /\ Returned(r, v).serial = r.serial
         /\ Returned(r, v).aborting_transaction = r.aborting_transaction
  BY DEF NextOp, Returned, TaskState

LEMMA PlainPcs ==
  /\ {"start", "run", "restart", "turn", "turn_writer", "abort_self", "abort_decided"}
       \cup Accessing \subseteq Plain
  /\ \A pc \in Plain : /\ pc \notin Special /\ pc \notin CommitPcs /\ pc \notin EarlierPcs
                       /\ pc \notin Turn
  BY DEF Plain, PC, Accessing, Special, Parked, RollingBack, Turn, CommitPcs, EarlierPcs, Waiting

\* A step of t that replaces its record with one at a plain pc.
LEMMA PlainQuiet ==
  ASSUME TypeOK, NEW t \in Task, NEW r, Become(t, r), SameTurn,
         r.serial = tx[t].serial, r.aborting_transaction = tx[t].aborting_transaction,
         tx[t].pc \in Plain, r.pc \in Plain
  PROVE  QuietStep(t)
  BY PlainPcs, BecomeQuiet

LEMMA NoTurnTaken == UNCHANGED prog_thread => SameTurn
  BY DEF SameTurn

LEMMA UpdateTurn ==
  ASSUME TypeOK, NEW t \in Task, NEW r, UpdatePT(t, r),
         r.last_completed_task = PT(t).last_completed_task
  PROVE  SameTurn
  BY DEF SameTurn, UpdatePT, PT, TypeOK

LEMMA StartQuiet == ASSUME TypeOK, NEW t \in Task, TxStart(t) \/ Skip(t) PROVE QuietStep(t)
<1>1. tx[t] \in TaskState /\ tx[t].pc \in Plain /\ "run" \in Plain
  BY TaskTyped, PlainPcs DEF TxStart, Skip, Doing, At
<1>2. SameTurn
  BY NoTurnTaken DEF TxStart, Skip
<1>3. CASE TxStart(t)
  <2> DEFINE r == [tx[t] EXCEPT !.pc = "run", !.abort_task = FALSE,
                                !.last_writer = PT(t).last_completed_writer]
  <2>1. Become(t, r)
    BY <1>3 DEF TxStart
  <2>2. /\ r.pc = "run" /\ r.serial = tx[t].serial
        /\ r.aborting_transaction = tx[t].aborting_transaction
    BY <1>1 DEF TaskState
  <2> HIDE DEF r
  <2>3. QED BY <1>1, <1>2, <2>1, <2>2, PlainQuiet
<1>4. CASE Skip(t)
  BY <1>1, <1>2, <1>4, NextOpFields, PlainQuiet DEF Skip
<1>5. QED BY <1>3, <1>4

LEMMA ReadsQuiet == ASSUME TypeOK, NEW t \in Task, Reads(t) PROVE QuietStep(t)
<1>1. tx[t] \in TaskState
  BY TaskTyped
<1>2. tx[t].pc \in Plain
  BY PlainPcs DEF Reads, ReadWord, Doing, ReadTaskAbort, ReadTask, ReadVersion, ReadValue,
                  ReadLog, ReadExtend, At, Accessing
<1>3. {"run", "restart"} \cup Accessing \subseteq Plain
  BY PlainPcs
<1>4. CASE ReadWord(t)
  <2> DEFINE a == Op(t).addr
             top == write_lock[StripeOf[a]]
             e == UpTo(top, tx[t].serial)
             r == [tx[t] EXCEPT !.pc = "read_task", !.ptr = e]
  <2>1. SameTurn
    BY <1>4, NoTurnTaken DEF ReadWord
  <2>2. Goto(t, "read_version") \/ Become(t, Returned(tx[t], ChainValue(e, a))) \/ Become(t, r)
    BY <1>4 DEF ReadWord
  <2> HIDE DEF e
  <2>3. CASE Goto(t, "read_version")
    <3>1. "read_version" \in Plain
      BY <1>3 DEF Accessing
    <3>2. QED BY <1>2, <2>1, <2>3, <3>1, PlainPcs, GotoQuiet
  <2>4. CASE Become(t, Returned(tx[t], ChainValue(e, a)))
    BY <1>1, <1>2, <1>3, <2>1, <2>4, NextOpFields, PlainQuiet
  <2>5. CASE Become(t, r)
    <3>1. /\ r.pc = "read_task" /\ r.serial = tx[t].serial
          /\ r.aborting_transaction = tx[t].aborting_transaction
      BY <1>1 DEF TaskState
    <3>2. "read_task" \in Plain
      BY <1>3 DEF Accessing
    <3> HIDE DEF r
    <3>3. QED BY <1>2, <2>1, <2>5, <3>1, <3>2, PlainQuiet
  <2>6. QED BY <2>2, <2>3, <2>4, <2>5
<1>5. CASE ReadTaskAbort(t)
  <2>1. SameTurn
    BY <1>5, NoTurnTaken DEF ReadTaskAbort
  <2>2. PICK pc \in {"restart", AbortPc(t)} : Goto(t, pc)
    BY <1>5 DEF ReadTaskAbort
  <2>3. /\ pc \notin Special /\ pc \notin Turn
        /\ pc \in CommitPcs => try_commit(t)
        /\ pc \in EarlierPcs => ~ try_commit(t)
    BY <1>3, AbortPcQuiet, PlainPcs
  <2>4. QED BY <1>2, <2>1, <2>2, <2>3, PlainPcs, GotoQuiet
<1>6. CASE ReadTask(t)
  <2> DEFINE a == Op(t).addr
             log == tx[t].task_read_log \cup
                      {[stripe |-> StripeOf[a], serial |-> Deref(tx[t].ptr).serial]}
             logged == [tx[t] EXCEPT !.task_read_log = log]
             lw == PT(t).last_completed_writer
             late == [logged EXCEPT !.pc = "restart"]
             lw2 == IF lw > logged.last_writer THEN lw ELSE logged.last_writer
             noted == [logged EXCEPT !.last_writer = lw2]
             back == Returned(noted, ChainValue(tx[t].ptr, a))
  <2>1. SameTurn
    BY <1>6, NoTurnTaken DEF ReadTask
  <2>2. Become(t, late) \/ Become(t, back)
    BY <1>6 DEF ReadTask
  <2> HIDE DEF log
  <2>3. late.pc = "restart" /\ late.serial = tx[t].serial
        /\ late.aborting_transaction = tx[t].aborting_transaction
    BY <1>1 DEF TaskState
  <2> HIDE DEF lw2
  <2>4. back.pc = "run" /\ back.serial = tx[t].serial
        /\ back.aborting_transaction = tx[t].aborting_transaction
    BY <1>1 DEF TaskState, Returned, NextOp
  <2> HIDE DEF late, back
  <2>5. QED BY <1>2, <1>3, <2>1, <2>2, <2>3, <2>4, PlainQuiet
<1>7. CASE ReadVersion(t)
  <2> DEFINE r == [tx[t] EXCEPT !.pc = "read_value", !.version = read_lock[StripeOf[Op(t).addr]]]
  <2>1. SameTurn /\ Become(t, r)
    BY <1>7, NoTurnTaken DEF ReadVersion
  <2>2. /\ r.pc = "read_value" /\ r.serial = tx[t].serial
        /\ r.aborting_transaction = tx[t].aborting_transaction
    BY <1>1 DEF TaskState
  <2>3. "read_value" \in Plain
    BY <1>3 DEF Accessing
  <2> HIDE DEF r
  <2>4. QED BY <1>2, <2>1, <2>2, <2>3, PlainQuiet
<1>8. CASE ReadValue(t)
  <2> DEFINE r == [tx[t] EXCEPT !.pc = "read_log", !.value = memory[Op(t).addr]]
  <2>1. SameTurn /\ (Become(t, r) \/ Goto(t, "read_version"))
    BY <1>8, NoTurnTaken DEF ReadValue
  <2>2. /\ r.pc = "read_log" /\ r.serial = tx[t].serial
        /\ r.aborting_transaction = tx[t].aborting_transaction
    BY <1>1 DEF TaskState
  <2>3. "read_log" \in Plain /\ "read_version" \in Plain
    BY <1>3 DEF Accessing
  <2> HIDE DEF r
  <2>4. QED BY <1>2, <2>1, <2>2, <2>3, PlainQuiet, PlainPcs, GotoQuiet
<1>9. CASE ReadLog(t)
  <2> DEFINE log == tx[t].read_log \cup {[stripe |-> StripeOf[Op(t).addr], version |-> tx[t].version]}
             r == [tx[t] EXCEPT !.pc = "read_extend", !.read_log = log]
  <2>1. SameTurn /\ Become(t, r)
    BY <1>9, NoTurnTaken DEF ReadLog
  <2> HIDE DEF log
  <2>2. /\ r.pc = "read_extend" /\ r.serial = tx[t].serial
        /\ r.aborting_transaction = tx[t].aborting_transaction
    BY <1>1 DEF TaskState
  <2>3. "read_extend" \in Plain
    BY <1>3 DEF Accessing
  <2> HIDE DEF r
  <2>4. QED BY <1>2, <2>1, <2>2, <2>3, PlainQuiet
<1>10. CASE ReadExtend(t)
  <2> DEFINE q == [PT(t) EXCEPT !.requires_validation = @ \/ ShouldExtend(t, tx[t].version)]
  <2>1. UpdatePT(t, q) /\ Become(t, Returned(tx[t], tx[t].value))
    BY <1>10 DEF ReadExtend
  <2>2. q.last_completed_task = PT(t).last_completed_task
    BY TaskTyped DEF ThreadState
  <2> HIDE DEF q
  <2>3. SameTurn
    BY <2>1, <2>2, UpdateTurn
  <2>4. QED BY <1>1, <1>2, <1>3, <2>1, <2>3, NextOpFields, PlainQuiet
<1>11. QED BY <1>4, <1>5, <1>6, <1>7, <1>8, <1>9, <1>10 DEF Reads

\* A flag that asks for an abort is not InOrder's concern.
LEMMA FlagSame ==
  ASSUME TypeOK, NEW v, NEW b \in BOOLEAN, NEW f,
         f \in {[tx EXCEPT ![v].abort_task = b], [tx EXCEPT ![v].abort_transaction = b]}
  PROVE  \A u \in Task : /\ f[u] \in TaskState /\ f[u].pc = tx[u].pc /\ f[u].serial = tx[u].serial
                         /\ f[u].aborting_transaction = tx[u].aborting_transaction
                         /\ f[u].from = tx[u].from /\ f[u].i = tx[u].i
<1>1. ASSUME NEW u \in Task
      PROVE /\ f[u] \in {tx[u], [tx[u] EXCEPT !.abort_task = b], [tx[u] EXCEPT !.abort_transaction = b]}
            /\ tx[u] \in TaskState
  BY TaskTyped DEF TypeOK
<1>2. QED BY <1>1 DEF TaskState

LEMMA SignalQuiet ==
  ASSUME TypeOK, NEW t \in Task, SignalAbort(t)
  PROVE  QuietStep(t)
<1> DEFINE p == Loser(t)
           next == IF At(t, "abort_self") THEN "abort_decided" ELSE "write_load"
           f == [tx EXCEPT ![<<p, tx[t].i>>].abort_transaction = TRUE]
           i2 == IF f[t].i = CommitTask THEN 0 ELSE f[t].i + 1
           pc2 == IF tx[t].i = CommitTask THEN next ELSE f[t].pc
           r == [f[t] EXCEPT !.i = i2, !.pc = pc2]
<1>1. SameTurn /\ tx[t].pc \in Plain /\ next \in Plain
  BY NoTurnTaken, PlainPcs DEF SignalAbort, Accessing
<1>8. tx' = [tx EXCEPT ![<<p, tx[t].i>>].abort_transaction = TRUE,
                       ![t].i = IF @ = CommitTask THEN 0 ELSE @ + 1,
                       ![t].pc = IF tx[t].i = CommitTask THEN next ELSE @]
  BY DEF SignalAbort
<1> HIDE DEF p, next
<1>2. \A u \in Task : /\ f[u] \in TaskState /\ f[u].pc = tx[u].pc /\ f[u].serial = tx[u].serial
                      /\ f[u].aborting_transaction = tx[u].aborting_transaction
                      /\ f[u].from = tx[u].from /\ f[u].i = tx[u].i
  <2> DEFINE v == <<p, tx[t].i>>
  <2>1. PICK b \in BOOLEAN : f = [tx EXCEPT ![v].abort_transaction = b]
    OBVIOUS
  <2> HIDE DEF f, v
  <2>2. f \in {[tx EXCEPT ![v].abort_task = b], [tx EXCEPT ![v].abort_transaction = b]}
    BY <2>1
  <2>3. QED BY <2>2, FlagSame
<1>3. tx' = [f EXCEPT ![t] = r] /\ f \in [Task -> TaskState]
  <2>1. DOMAIN f = Task /\ f = [u \in Task |-> f[u]]
    BY DEF TypeOK
  <2>2. tx' = [f EXCEPT ![t] = r]
    BY <1>8
  <2> HIDE DEF f
  <2>3. QED BY <1>2, <2>1, <2>2
<1>4. pc2 \in Plain
  BY <1>1, <1>2
<1> HIDE DEF f, i2, pc2
<1>5. r.pc = pc2 /\ r.serial = tx[t].serial /\ r.aborting_transaction = tx[t].aborting_transaction
  BY <1>2 DEF TaskState
<1>6. tx'[t] = r /\ \A u \in Task : u # t => tx'[u] = f[u]
  BY <1>3
<1> HIDE DEF r
<1>7. QED BY <1>1, <1>2, <1>4, <1>5, <1>6, PlainPcs DEF QuietStep, SameOthers, SameTask

LEMMA WriteBeforeTaskQuiet == ASSUME TypeOK, NEW t \in Task, WriteBeforeTask(t) PROVE QuietStep(t)
<1> DEFINE r == [tx[t] EXCEPT !.pc = "write_load"]
           v == Owner(t[1], Deref(tx[t].ptr).serial)
           f == [tx EXCEPT ![t] = r]
<1>1. SameTurn /\ tx[t].pc \in Plain /\ "write_load" \in Plain
  BY NoTurnTaken, PlainPcs DEF WriteBeforeTask, At, Accessing
<1>2. CASE Goto(t, AbortPc(t))
  BY <1>1, <1>2, AbortPcQuiet, PlainPcs, GotoQuiet
<1>3. CASE tx' = [tx EXCEPT ![t].pc = "write_load", ![v].abort_task = TRUE]
  <2>1. r \in TaskState /\ r.pc = "write_load" /\ r.serial = tx[t].serial
        /\ r.aborting_transaction = tx[t].aborting_transaction
    <3>1. "write_load" \in PC
      BY DEF PC
    <3>2. QED BY <3>1, TaskTyped DEF TaskState
  <2>2. tx' = [f EXCEPT ![v].abort_task = TRUE]
    BY <1>3
  <2>3. f \in [Task -> TaskState] /\ f[t] = r /\ \A u \in Task : u # t => f[u] = tx[u]
    BY <2>1 DEF TypeOK
  <2> HIDE DEF f, r, v
  <2>4. \A u \in Task : tx'[u] \in {f[u], [f[u] EXCEPT !.abort_task = TRUE]}
    BY <2>2, <2>3
  <2>5. \A u \in Task : /\ tx'[u].pc = f[u].pc /\ tx'[u].serial = f[u].serial
                        /\ tx'[u].aborting_transaction = f[u].aborting_transaction
                        /\ tx'[u].from = f[u].from /\ tx'[u].i = f[u].i
    BY <2>3, <2>4 DEF TaskState
  <2>6. QED BY <1>1, <2>1, <2>3, <2>5, PlainPcs DEF QuietStep, SameOthers, SameTask
<1>4. QED BY <1>2, <1>3 DEF WriteBeforeTask

LEMMA WriteLoadQuiet == ASSUME TypeOK, NEW t \in Task, WriteLoad(t) PROVE QuietStep(t)
<1> DEFINE top == write_lock[StripeOf[Op(t).addr]]
           pc == IF top = NULL THEN "write_cas" ELSE "write_locked"
           r == [tx[t] EXCEPT !.ptr = top, !.pc = pc]
<1>1. tx[t] \in TaskState /\ tx[t].pc \in Plain /\ {"run", "write_cas", "write_locked"} \subseteq Plain
  BY TaskTyped, PlainPcs DEF WriteLoad, At, Accessing
<1>2. SameTurn /\ (Become(t, NextOp(tx[t])) \/ Become(t, r))
  BY NoTurnTaken DEF WriteLoad
<1>3. CASE Become(t, NextOp(tx[t]))
  BY <1>1, <1>2, <1>3, NextOpFields, PlainQuiet
<1>4. CASE Become(t, r)
  <2>1. pc \in Plain
    BY <1>1
  <2> HIDE DEF pc, top
  <2>2. r.pc = pc /\ r.serial = tx[t].serial /\ r.aborting_transaction = tx[t].aborting_transaction
    BY <1>1 DEF TaskState
  <2> HIDE DEF r
  <2>3. QED BY <1>1, <1>2, <1>4, <2>1, <2>2, PlainQuiet
<1>5. QED BY <1>2, <1>3, <1>4

LEMMA WriteConflictQuiet == ASSUME TypeOK, NEW t \in Task, WriteConflict(t) PROVE QuietStep(t)
<1> DEFINE e == write_lock[StripeOf[Op(t).addr]]
           p == t[1]
           q == PtidOf(e)
           mine == prog_thread[p].progress
           theirs == prog_thread[q].progress
           pc == IF theirs < mine \/ (theirs = mine /\ CMStrongerThan(p, q))
                 THEN "abort_other" ELSE "abort_self"
           r == [tx[t] EXCEPT !.ptr = e, !.i = 0, !.pc = pc]
<1>1. /\ tx[t] \in TaskState /\ tx[t].pc \in Plain
      /\ {"write_load", "abort_other", "abort_self"} \subseteq Plain
  BY TaskTyped, PlainPcs DEF WriteConflict, At, Accessing
<1>2. SameTurn /\ (Goto(t, AbortPc(t)) \/ Goto(t, "write_load") \/ Become(t, r))
  BY NoTurnTaken DEF WriteConflict
<1>3. CASE Goto(t, AbortPc(t))
  BY <1>1, <1>2, <1>3, AbortPcQuiet, PlainPcs, GotoQuiet
<1>4. CASE Goto(t, "write_load")
  BY <1>1, <1>2, <1>4, PlainPcs, GotoQuiet
<1>5. CASE Become(t, r)
  <2>1. pc \in Plain
    BY <1>1
  <2> HIDE DEF pc, e
  <2>2. r.pc = pc /\ r.serial = tx[t].serial /\ r.aborting_transaction = tx[t].aborting_transaction
    BY <1>1 DEF TaskState
  <2> HIDE DEF r
  <2>3. QED BY <1>1, <1>2, <1>5, <2>1, <2>2, PlainQuiet
<1>6. QED BY <1>2, <1>3, <1>4, <1>5

LEMMA WriteCasQuiet == ASSUME TypeOK, NEW t \in Task, WriteCas(t) PROVE QuietStep(t)
<1> DEFINE n == tx[t].write_log + 1
           won == write_lock[StripeOf[Op(t).addr]] = tx[t].ptr
           log == IF won THEN n ELSE tx[t].write_log
           pc == IF won THEN "write_extend" ELSE "write_load"
           r == [tx[t] EXCEPT !.write_log = log, !.ptr = NULL, !.pc = pc]
<1>1. /\ tx[t] \in TaskState /\ tx[t].pc \in Plain /\ {"write_extend", "write_load"} \subseteq Plain
  BY TaskTyped, PlainPcs DEF WriteCas, At, Accessing
<1>2. SameTurn /\ Become(t, r)
  BY NoTurnTaken DEF WriteCas
<1>3. pc \in Plain
  BY <1>1
<1> HIDE DEF pc, log
<1>4. r.pc = pc /\ r.serial = tx[t].serial /\ r.aborting_transaction = tx[t].aborting_transaction
  BY <1>1 DEF TaskState
<1> HIDE DEF r
<1>5. QED BY <1>1, <1>2, <1>3, <1>4, PlainQuiet

LEMMA WriteExtendQuiet == ASSUME TypeOK, NEW t \in Task, WriteExtend(t) PROVE QuietStep(t)
<1> DEFINE ext == ShouldExtend(t, read_lock[StripeOf[Op(t).addr]])
           pt == [PT(t) EXCEPT !.requires_validation = @ \/ ext]
           done == CmOnAccess(t, pt)
           lw == PT(t).last_completed_writer
           lw2 == IF lw > tx[t].last_writer THEN lw ELSE tx[t].last_writer
           noted == [tx[t] EXCEPT !.last_writer = lw2]
<1>1. /\ tx[t] \in TaskState /\ tx[t].pc \in Plain /\ {"run", "restart"} \subseteq Plain
  BY TaskTyped, PlainPcs DEF WriteExtend, At, Accessing
<1>2. \/ UpdatePT(t, pt) /\ Goto(t, "restart")
      \/ UpdatePT(t, done) /\ Become(t, NextOp(noted))
  BY DEF WriteExtend
<1> HIDE DEF ext, lw2
<1>3. pt \in ThreadState /\ pt.last_completed_task = PT(t).last_completed_task
  <2>1. PT(t) \in ThreadState
    BY TaskTyped
  <2>2. ext \in BOOLEAN
    BY DEF ext, ShouldExtend
  <2>3. (PT(t).requires_validation \/ ext) \in BOOLEAN
    OBVIOUS
  <2>4. QED BY <2>1, <2>2, <2>3 DEF ThreadState
<1> HIDE DEF pt
<1>4. done.last_completed_task = PT(t).last_completed_task
  BY <1>3 DEF CmOnAccess, ThreadState
<1>5. /\ NextOp(noted).pc = "run" /\ NextOp(noted).serial = tx[t].serial
      /\ NextOp(noted).aborting_transaction = tx[t].aborting_transaction
  BY <1>1 DEF NextOp, TaskState
<1> HIDE DEF done, noted
<1>6. SameTurn
  BY <1>2, <1>3, <1>4, UpdateTurn
<1>7. QED BY <1>1, <1>2, <1>5, <1>6, PlainPcs, PlainQuiet, GotoQuiet

LEMMA WritesQuiet == ASSUME TypeOK, NEW t \in Task, Writes(t) PROVE QuietStep(t)
<1>1. {"write_load", "restart", "abort_other", "abort_self", "abort_decided", "run",
       "write_cas", "write_locked"} \subseteq Plain
  BY PlainPcs DEF Accessing
<1>2. CASE WriteWord(t)
  <2>1. SameTurn /\ tx[t].pc \in Plain
    BY <1>1, <1>2, NoTurnTaken DEF WriteWord, Doing, At
  <2>2. Goto(t, "restart") \/ Goto(t, AbortPc(t)) \/ Goto(t, "write_load")
    BY <1>2 DEF WriteWord
  <2>3. QED BY <1>1, <2>1, <2>2, AbortPcQuiet, PlainPcs, GotoQuiet
<1>3. CASE SignalAbort(t)
  BY <1>3, SignalQuiet
<1>5. CASE AbortDecided(t)
  <2>1. SameTurn /\ tx[t].pc \in Plain
    BY <1>1, <1>5, NoTurnTaken DEF AbortDecided, At
  <2>2. Goto(t, AbortPc(t)) \/ Goto(t, "restart")
    BY <1>5 DEF AbortDecided
  <2>3. QED BY <1>1, <2>1, <2>2, AbortPcQuiet, PlainPcs, GotoQuiet
<1>6. CASE WriteAfterTask(t)
  <2>1. SameTurn /\ tx[t].pc \in Plain
    BY <1>1, <1>6, NoTurnTaken DEF WriteAfterTask, At
  <2>2. Goto(t, AbortPc(t)) \/ Goto(t, "restart") \/ Goto(t, "write_cas")
    BY <1>6 DEF WriteAfterTask
  <2>3. QED BY <1>1, <2>1, <2>2, AbortPcQuiet, PlainPcs, GotoQuiet
<1>7. QED BY <1>2, <1>3, <1>5, <1>6, WriteLoadQuiet, WriteConflictQuiet, WriteBeforeTaskQuiet,
             WriteCasQuiet, WriteExtendQuiet DEF Writes

\* A task whose turn it is has not lost it.
LEMMA TurnKept ==
  ASSUME TypeOK, InOrder, NEW t \in Task, tx[t].pc \in Turn
  PROVE  MyTurn(t) /\ tx[t].pc \notin Special
<1>1. MyTurn(t)
  BY DEF InOrder, Window, MyTurn
<1>2. QED BY <1>1 DEF Special, Parked, RollingBack, Turn

LEMMA LooksQuiet ==
  ASSUME TypeOK, InOrder, NEW t \in Task,
         \/ CommitTaskAborted(t) \/ CommitTurn(t) \/ AwaitAbort(t) \/ AwaitRequest(t)
         \/ AwaitValidated(t) \/ CheckAbort(t) \/ CheckTasks(t)
  PROVE  QuietStep(t)
<1> DEFINE fine(pc) == /\ pc \notin Special /\ (pc \in CommitPcs => try_commit(t))
                       /\ (pc \in EarlierPcs => ~ try_commit(t)) /\ (pc \in Turn => MyTurn(t))
<1>1. tx[t].pc \in CommitPcs => try_commit(t)
  BY DEF InOrder, Roles
<1>2. SameTurn /\ tx[t].pc \notin Special
  BY NoTurnTaken DEF CommitTaskAborted, CommitTurn, AwaitAbort, AwaitRequest, AwaitValidated,
     CheckAbort, CheckTasks, At, Special, Parked, RollingBack
<1>3. tx[t].pc \in Turn => MyTurn(t)
  BY TurnKept
<1>4. fine("restart") /\ fine("turn") /\ fine("turn_writer")
  BY DEF Special, Parked, RollingBack, CommitPcs, EarlierPcs, Turn, Waiting
<1>5. fine(AbortPc(t))
  BY AbortPcQuiet
<1>6. \E pc \in PC : Goto(t, pc) /\ fine(pc)
  <2>1. CASE CommitTaskAborted(t)
    BY <1>4, <2>1 DEF CommitTaskAborted, PC
  <2>2. CASE CommitTurn(t)
    <3>1. MyTurn(t) => fine(IF try_commit(t) THEN "await_abort" ELSE "check_abort")
      BY DEF Special, Parked, RollingBack, CommitPcs, EarlierPcs, Waiting
    <3>2. {"turn_writer", "await_abort", "check_abort"} \subseteq PC
      BY DEF PC
    <3> HIDE DEF fine
    <3>3. QED BY <1>4, <2>2, <3>1, <3>2 DEF CommitTurn
  <2>3. CASE AwaitAbort(t) \/ AwaitRequest(t) \/ AwaitValidated(t)
    <3>1. MyTurn(t) /\ try_commit(t)
      BY <1>1, <1>3, <2>3 DEF AwaitAbort, AwaitRequest, AwaitValidated, At, Turn, CommitPcs
    <3>2. \A pc \in {"rollback_turn", "await_request", "await_abort", "await_validated",
                     "check_abort"} : fine(pc) /\ pc \in PC
      BY <3>1 DEF Special, Parked, RollingBack, EarlierPcs, Waiting, PC
    <3> HIDE DEF fine
    <3>3. QED BY <2>3, <3>2 DEF AwaitAbort, AwaitRequest, AwaitValidated
  <2>4. CASE CheckAbort(t)
    <3>1. MyTurn(t)
      BY <1>3, <2>4 DEF CheckAbort, At, Turn
    <3>2. fine("check_tasks") /\ "check_tasks" \in PC /\ AbortPc(t) \in PC
      BY <3>1 DEF Special, Parked, RollingBack, EarlierPcs, CommitPcs, Waiting, PC, AbortPc
    <3> HIDE DEF fine
    <3>3. QED BY <1>5, <2>4, <3>2 DEF CheckAbort
  <2>5. CASE CheckTasks(t)
    <3>1. MyTurn(t)
      BY <1>3, <2>5 DEF CheckTasks, At, Turn
    <3>2. ~ try_commit(t) => fine("complete")
      BY <3>1 DEF Special, Parked, RollingBack, CommitPcs
    <3>3. try_commit(t) => fine("lock_reads") /\ fine("commit_done")
      BY <3>1 DEF Special, Parked, RollingBack, EarlierPcs, Waiting
    <3>4. {"restart", "complete", "lock_reads", "commit_done"} \subseteq PC
      BY DEF PC
    <3> HIDE DEF fine
    <3>5. QED BY <1>4, <2>5, <3>2, <3>3, <3>4 DEF CheckTasks
  <2>6. QED BY <2>1, <2>2, <2>3, <2>4, <2>5
<1>7. PICK pc \in PC : Goto(t, pc) /\ fine(pc)
  BY <1>6
<1>8. QED BY <1>2, <1>7, GotoQuiet

LEMMA TxCommitQuiet == ASSUME TypeOK, NEW t \in Task, TxCommit(t) PROVE QuietStep(t)
<1> DEFINE ro == tx[t].write_log = 0
           pc == IF ro THEN "turn" ELSE "turn_writer"
           r == [tx[t] EXCEPT !.read_only = ro, !.pc = pc]
<1>1. tx[t] \in TaskState /\ tx[t].pc \in Plain /\ {"turn", "turn_writer"} \subseteq Plain
  BY TaskTyped, PlainPcs DEF TxCommit, At
<1>2. SameTurn /\ Become(t, r)
  BY NoTurnTaken DEF TxCommit
<1>3. pc \in Plain
  BY <1>1
<1> HIDE DEF pc, ro
<1>4. r.pc = pc /\ r.serial = tx[t].serial /\ r.aborting_transaction = tx[t].aborting_transaction
  BY <1>1 DEF TaskState
<1> HIDE DEF r
<1>5. QED BY <1>1, <1>2, <1>3, <1>4, PlainQuiet

LEMMA TxRestartQuiet == ASSUME TypeOK, NEW t \in Task, TxRestart(t) PROVE QuietStep(t)
<1> DEFINE r == [Cleared(tx[t]) EXCEPT !.write_log = 0]
<1>1. tx[t] \in TaskState /\ tx[t].pc \in Plain /\ "start" \in Plain
  BY TaskTyped, PlainPcs DEF TxRestart, At
<1>2. SameTurn /\ Become(t, r)
  BY NoTurnTaken DEF TxRestart
<1>3. r.pc = "start" /\ r.serial = tx[t].serial
      /\ r.aborting_transaction = tx[t].aborting_transaction
  BY <1>1 DEF Cleared, TaskState
<1> HIDE DEF r
<1>4. QED BY <1>1, <1>2, <1>3, PlainQuiet

\* A step of the commit task in its turn.
LEMMA CommitterQuiet ==
  ASSUME TypeOK, InOrder, NEW t \in Task, NEW r, Become(t, r), SameTurn,
         r.serial = tx[t].serial, r.aborting_transaction = tx[t].aborting_transaction,
         MyTurn(t), try_commit(t), tx[t].pc \notin Special,
         r.pc \in {"increment_ts", "validate_commit", "write_back", "rollback", "commit_done"}
  PROVE  QuietStep(t)
<1>1. r.pc \notin Special /\ r.pc \notin EarlierPcs
  BY DEF Special, Parked, RollingBack, EarlierPcs, Waiting
<1>2. QED BY <1>1, BecomeQuiet

LEMMA CommittingQuiet ==
  ASSUME TypeOK, InOrder, NEW t \in Task,
         \/ LockReads(t) \/ IncrementCommitTs(t) \/ ValidateCommit(t) \/ WriteBack(t)
         \/ WrittenBack(t) \/ RollbackTurn(t)
  PROVE  QuietStep(t)
<1>1. tx[t] \in TaskState
  BY TaskTyped
<1>2. tx[t].pc \in CommitPcs /\ tx[t].pc \notin Special
  BY DEF LockReads, IncrementCommitTs, ValidateCommit, WriteBack, WrittenBack, RollbackTurn, At,
         CommitPcs, Special, Parked, RollingBack
<1>3. try_commit(t)
  BY <1>2 DEF InOrder, Roles
<1>4. MyTurn(t)
  BY TurnKept DEF LockReads, IncrementCommitTs, ValidateCommit, WriteBack, WrittenBack,
                  RollbackTurn, At, Turn
<1>5. CASE LockReads(t)
  <2> DEFINE r == [tx[t] EXCEPT !.pc = "increment_ts"]
  <2>1. SameTurn /\ Become(t, r)
    BY <1>5, NoTurnTaken DEF LockReads, Goto
  <2>2. r.pc = "increment_ts" /\ r.serial = tx[t].serial
        /\ r.aborting_transaction = tx[t].aborting_transaction
    BY <1>1 DEF TaskState
  <2> HIDE DEF r
  <2>3. QED BY <1>2, <1>3, <1>4, <2>1, <2>2, CommitterQuiet
<1>6. CASE IncrementCommitTs(t)
  <2> DEFINE ts == commit_ts + 1
             r == [tx[t] EXCEPT !.version = ts, !.pc = "validate_commit"]
  <2>1. SameTurn /\ Become(t, r)
    BY <1>6, NoTurnTaken DEF IncrementCommitTs
  <2> HIDE DEF ts
  <2>2. r.pc = "validate_commit" /\ r.serial = tx[t].serial
        /\ r.aborting_transaction = tx[t].aborting_transaction
    BY <1>1 DEF TaskState
  <2> HIDE DEF r
  <2>3. QED BY <1>2, <1>3, <1>4, <2>1, <2>2, CommitterQuiet
<1>7. CASE ValidateCommit(t)
  <2> DEFINE entries == TxEntries(t[1])
             bad == InvalidTasks(t[1])
             least == CHOOSE k \in bad : \A j \in bad : k <= j
             r1 == [tx[t] EXCEPT !.pc = "write_back", !.todo = entries]
             r2 == [tx[t] EXCEPT !.pc = "rollback", !.version = 0, !.from = least]
  <2>1. SameTurn /\ (Become(t, r1) \/ Become(t, r2))
    BY <1>7, NoTurnTaken DEF ValidateCommit
  <2> HIDE DEF entries, least
  <2>2. /\ r1.pc = "write_back" /\ r1.serial = tx[t].serial
        /\ r1.aborting_transaction = tx[t].aborting_transaction
        /\ r2.pc = "rollback" /\ r2.serial = tx[t].serial
        /\ r2.aborting_transaction = tx[t].aborting_transaction
    BY <1>1 DEF TaskState
  <2> HIDE DEF r1, r2
  <2>3. QED BY <1>2, <1>3, <1>4, <2>1, <2>2, CommitterQuiet
<1>8. CASE WriteBack(t)
  <2> DEFINE e == FirstOf(tx[t].todo)
             r == [tx[t] EXCEPT !.todo = @ \ {e}]
  <2>1. SameTurn /\ Become(t, r)
    BY <1>8, NoTurnTaken DEF WriteBack
  <2> HIDE DEF e
  <2>2. r.pc = "write_back" /\ r.serial = tx[t].serial
        /\ r.aborting_transaction = tx[t].aborting_transaction
    BY <1>1, <1>8 DEF TaskState, WriteBack, At
  <2> HIDE DEF r
  <2>3. QED BY <1>2, <1>3, <1>4, <2>1, <2>2, CommitterQuiet
<1>9. CASE WrittenBack(t)
  <2> DEFINE q == [PT(t) EXCEPT !.last_completed_writer = tx[t].serial]
             r == [tx[t] EXCEPT !.pc = "commit_done", !.version = 0]
  <2>1. UpdatePT(t, q) /\ Become(t, r)
    BY <1>9 DEF WrittenBack
  <2>2. q.last_completed_task = PT(t).last_completed_task
    BY TaskTyped DEF ThreadState
  <2>3. r.pc = "commit_done" /\ r.serial = tx[t].serial
        /\ r.aborting_transaction = tx[t].aborting_transaction
    BY <1>1 DEF TaskState
  <2> HIDE DEF q, r
  <2>4. SameTurn
    BY <2>1, <2>2, UpdateTurn
  <2>5. QED BY <1>2, <1>3, <1>4, <2>1, <2>3, <2>4, CommitterQuiet
<1>10. CASE RollbackTurn(t)
  <2> DEFINE r == [tx[t] EXCEPT !.pc = "rollback", !.from = 0]
  <2>1. SameTurn /\ Become(t, r) /\ MyTurn(t)
    BY <1>10, NoTurnTaken DEF RollbackTurn
  <2>2. r.pc = "rollback" /\ r.serial = tx[t].serial
        /\ r.aborting_transaction = tx[t].aborting_transaction
    BY <1>1 DEF TaskState
  <2> HIDE DEF r
  <2>3. QED BY <1>2, <1>3, <2>1, <2>2, CommitterQuiet
<1>11. QED BY <1>5, <1>6, <1>7, <1>8, <1>9, <1>10

----------------------------------------------------------------------------
(***************************************************************************)
(* The steps that complete a task, wait, and go on.                        *)
(***************************************************************************)

\* The thread's last completed task becomes n.
TurnTo(t, n) ==
  \A p \in Thread : prog_thread'[p].last_completed_task =
                      IF p = t[1] THEN n ELSE prog_thread[p].last_completed_task

LEMMA UpdateTurnTo ==
  ASSUME TypeOK, NEW t \in Task, NEW r, UpdatePT(t, r)
  PROVE  TurnTo(t, r.last_completed_task)
  BY DEF TurnTo, UpdatePT, PT, TypeOK

\* Serials of different tasks of a thread do not differ by the depth either.
LEMMA Apart ==
  ASSUME TypeOK, InOrder, NEW t \in Task, NEW u \in Task, t[1] = u[1], t # u
  PROVE  tx[t].serial # tx[u].serial /\ tx[t].serial # tx[u].serial + SpecDepth
<1> DEFINE first == start_serial(Committer(t))
<1>1. Committer(u) = Committer(t)
  BY DEF Committer
<1>2. /\ start_serial(t) \in {first - SpecDepth, first, first + SpecDepth}
      /\ start_serial(u) \in {first - SpecDepth, first, first + SpecDepth}
  BY <1>1 DEF InOrder, Window
<1>3. first \in Int /\ start_serial(t) = tx[t].serial - t[2] /\ start_serial(u) = tx[u].serial - u[2]
  BY Numbers DEF start_serial
<1>4. t[2] \in Nat /\ u[2] \in Nat /\ t[2] < SpecDepth /\ u[2] < SpecDepth
      /\ tx[t].serial \in Nat /\ tx[u].serial \in Nat
  BY Numbers, Constants
<1>5. t[2] # u[2]
  BY DEF Task
<1> HIDE DEF first
<1>6. QED BY <1>2, <1>3, <1>4, <1>5, Constants

\* A task that does not commit takes its turn: it completes, or is counted as
\* completed so that the commit task has its turn to roll back.
LEMMA TurnTaken ==
  ASSUME TypeOK, InOrder, NEW t \in Task, ~ try_commit(t), MyTurn(t),
         <<tx[t].pc, tx'[t].pc>> \in {<<"complete", "progress">>, <<"ready_turn", "ready_wait">>},
         tx'[t].serial = tx[t].serial,
         tx'[t].aborting_transaction = tx[t].aborting_transaction,
         SameOthers(t), TurnTo(t, tx[t].serial)
  PROVE  InOrder'
<1>1. /\ tx[t].pc \notin Waiting /\ tx[t].pc \in EarlierPcs /\ tx'[t].pc \in Parked
      /\ tx'[t].pc \in Waiting /\ tx'[t].pc \notin CommitPcs /\ tx'[t].pc \notin Turn
      /\ tx'[t].pc # "committed" /\ tx'[t].pc \notin RollingBack
  BY DEF Waiting, EarlierPcs, Parked, Turn, CommitPcs, RollingBack
<1>2. ~ Held(t) /\ ~ tx[t].aborting_transaction
  BY <1>1 DEF InOrder, HeldWaits, Signalled
<1>3. \A u \in Task : u # t => SameTask(u)
  BY DEF SameOthers
<1>4. \A u \in Task : /\ tx'[u].serial = tx[u].serial
                      /\ tx'[u].aborting_transaction = tx[u].aborting_transaction
  BY <1>3 DEF SameTask
<1>5. \A u \in Task : /\ start_serial(u)' = start_serial(u) /\ commit_serial(u)' = commit_serial(u)
                      /\ Committer(u) \in Task /\ Committer(u) # t /\ SameTask(Committer(u))
                      /\ start_serial(Committer(u))' = start_serial(Committer(u))
  BY <1>3, <1>4, Numbers DEF start_serial, commit_serial, Committer
<1>6. \A u \in Task : Held(u)' <=> Held(u)
  BY <1>5 DEF Held, SameTask, Committer, try_commit
<1>7. \A u \in Task : AwaitsAbort(u) => AwaitsAbort(u)'
  BY <1>2, <1>3, <1>6, <1>1 DEF AwaitsAbort, SameTask, try_commit
<1>8. PT(t).last_completed_task = tx[t].serial - 1
  BY DEF MyTurn
<1>9. ASSUME NEW u \in Task PROVE Roles(u)' /\ Window(u)' /\ HeldWaits(u)' /\ Signalled(u)'
  <2> DEFINE last == PT(u).last_completed_task
             last2 == PT(u)'.last_completed_task
  <2>1. Roles(u) /\ Window(u) /\ HeldWaits(u) /\ Signalled(u)
    BY DEF InOrder
  <2>2. \/ u[1] # t[1] /\ last2 = last
        \/ u[1] = t[1] /\ last = tx[t].serial - 1 /\ last2 = last + 1
    BY <1>8, Numbers DEF TurnTo, PT
  <2>3. last \in Nat /\ last2 \in Nat /\ tx[u].serial \in Nat /\ tx[t].serial \in Nat
    BY <2>2, Numbers
  <2>4. last < tx[u].serial /\ u # t => last2 < tx[u].serial
    BY <2>2, <2>3, Apart
  <2>5. Roles(u)'
    BY <1>1, <1>3, <2>1 DEF Roles, SameTask, RollingBack, try_commit, EarlierPcs
  <2>6. Window(u)'
    <3>1. start_serial(u)' - 1 <= last2
      BY <1>5, <2>1, <2>2, <2>3, Numbers DEF Window, start_serial
    <3>2. last2 < tx'[u].serial + SpecDepth
      <4>1. last < tx[u].serial + SpecDepth
        BY <2>1 DEF Window
      <4>2. CASE u = t
        BY <1>4, <2>2, <2>3, <4>2, Constants
      <4>3. CASE u # t
        BY <1>4, <2>2, <2>3, <4>1, <4>3, Apart, Constants
      <4>4. QED BY <4>2, <4>3
    <3>3. start_serial(u)' \in {start_serial(Committer(u))' - SpecDepth,
            start_serial(Committer(u))', start_serial(Committer(u))' + SpecDepth}
      BY <1>5, <2>1 DEF Window
    <3>4. tx'[u].pc \notin Parked => last2 < tx'[u].serial
      <4>1. tx'[u].pc \notin Parked => u # t /\ tx[u].pc \notin Parked
        BY <1>1, <1>3 DEF SameTask
      <4>2. QED BY <1>4, <2>1, <2>4, <4>1 DEF Window
    <3>5. tx'[u].pc = "committed" => commit_serial(u)' <= last2
      <4>1. tx'[u].pc = "committed" => u # t /\ tx[u].pc = "committed"
        BY <1>1, <1>3 DEF SameTask
      <4>2. commit_serial(u) \in Int
        BY Numbers, Constants DEF commit_serial, start_serial
      <4>3. QED BY <1>5, <2>1, <2>2, <2>3, <4>1, <4>2 DEF Window
    <3>6. tx'[u].pc \in Turn => last2 = tx'[u].serial - 1
      <4>1. tx'[u].pc \in Turn => u # t /\ tx[u].pc \in Turn
        BY <1>1, <1>3 DEF SameTask
      <4>2. tx[u].pc \in Turn => last = tx[u].serial - 1
        BY <2>1 DEF Window
      <4>3. QED BY <1>4, <2>2, <2>3, <4>1, <4>2, Apart
    <3>7. QED BY <3>1, <3>2, <3>3, <3>4, <3>5, <3>6 DEF Window
  <2>7. HeldWaits(u)'
    <3>1. Held(u)' => /\ u # t /\ tx[u].pc \in Waiting /\ ~ tx[u].aborting_transaction
                      /\ start_serial(u) = start_serial(Committer(u)) /\ last < tx[u].serial
      BY <1>2, <1>6, <2>1 DEF HeldWaits
    <3>2. QED BY <1>3, <1>4, <1>5, <2>4, <3>1 DEF HeldWaits, SameTask
  <2>8. Signalled(u)'
    <3>1. CASE try_commit(u)
      BY <1>4, <1>7, <2>1, <3>1 DEF Signalled, try_commit
    <3>2. CASE ~ try_commit(u)
      <4>1. tx'[u].aborting_transaction => u # t /\ tx[u].pc \in Waiting /\ last < tx[u].serial
        BY <1>2, <1>4, <2>1, <3>2 DEF Signalled
      <4>2. QED BY <1>3, <1>4, <2>4, <3>2, <4>1 DEF Signalled, SameTask, try_commit
    <3>3. QED BY <3>1, <3>2
  <2>9. QED BY <2>5, <2>6, <2>7, <2>8
<1>10. QED BY <1>9 DEF InOrder

LEMMA TurnsTaken ==
  ASSUME TypeOK, InOrder, NEW t \in Task, Complete(t) \/ ReadyTurn(t) PROVE InOrder'
<1> DEFINE lw == IF tx[t].read_only THEN PT(t).last_completed_writer ELSE tx[t].serial
           done == [PT(t) EXCEPT !.last_completed_task = tx[t].serial, !.last_completed_writer = lw]
           counted == [PT(t) EXCEPT !.last_completed_task = tx[t].serial]
           next == IF tx[t].pc = "complete" THEN "progress" ELSE "ready_wait"
           r == [tx[t] EXCEPT !.pc = next]
<1>1. (UpdatePT(t, done) \/ UpdatePT(t, counted)) /\ Become(t, r) /\ tx[t].pc \in {"complete", "ready_turn"}
  BY DEF Complete, ReadyTurn, At, Goto
<1>2. done.last_completed_task = tx[t].serial /\ counted.last_completed_task = tx[t].serial
  BY TaskTyped DEF ThreadState
<1> HIDE DEF done, counted
<1>3. TurnTo(t, tx[t].serial)
  BY <1>1, <1>2, UpdateTurnTo
<1>4. r.pc = next /\ r.serial = tx[t].serial /\ r.aborting_transaction = tx[t].aborting_transaction
  BY TaskTyped DEF TaskState
<1> HIDE DEF r
<1>5. tx'[t] = r /\ SameOthers(t)
  BY <1>1 DEF Become, TypeOK, SameOthers, SameTask
<1>6. MyTurn(t)
  BY TurnKept DEF Complete, ReadyTurn, At, Turn
<1>7. ~ try_commit(t)
  BY <1>1 DEF InOrder, Roles, EarlierPcs
<1>8. <<tx[t].pc, tx'[t].pc>> \in {<<"complete", "progress">>, <<"ready_turn", "ready_wait">>}
  BY <1>1, <1>4, <1>5
<1>9. QED BY <1>3, <1>4, <1>5, <1>6, <1>7, <1>8, TurnTaken

\* A waiting task goes on waiting, finds its transaction committed, or was told
\* to restart.
LEMMA WaitEnds ==
  ASSUME TypeOK, InOrder, NEW t \in Task, tx[t].pc \in Waiting, ~ AwaitsAbort(t),
         SameOthers(t), SameTurn, tx'[t].serial = tx[t].serial,
         \/ /\ tx'[t].pc = "await_commit"
            /\ tx'[t].aborting_transaction = tx[t].aborting_transaction
         \/ /\ tx'[t].pc = "committed" /\ PT(t).last_completed_task >= commit_serial(t)
            /\ tx'[t].aborting_transaction = tx[t].aborting_transaction
         \/ /\ tx'[t].pc = "restart" /\ tx[t].aborting_transaction
            /\ ~ tx'[t].aborting_transaction
  PROVE  InOrder'
<1>1. ~ try_commit(t)
  BY DEF InOrder, Roles, EarlierPcs
<1>2. \A u \in Task : u # t => SameTask(u)
  BY DEF SameOthers
<1>3. \A u \in Task : tx'[u].serial = tx[u].serial
  BY <1>2 DEF SameTask
<1>4. \A u \in Task : /\ start_serial(u)' = start_serial(u) /\ commit_serial(u)' = commit_serial(u)
                      /\ Committer(u) \in Task /\ Committer(u) # t /\ SameTask(Committer(u))
                      /\ start_serial(Committer(u))' = start_serial(Committer(u))
                      /\ PT(u)'.last_completed_task = PT(u).last_completed_task
  BY <1>1, <1>2, <1>3, Numbers DEF start_serial, commit_serial, Committer, SameTurn, PT
<1>5. \A u \in Task : Held(u)' <=> Held(u)
  BY <1>4 DEF Held, SameTask, Committer, try_commit
<1>6. \A u \in Task : AwaitsAbort(u) => AwaitsAbort(u)'
  BY <1>2, <1>5 DEF AwaitsAbort, SameTask, try_commit
<1>7. /\ Roles(t)' /\ Window(t)' /\ HeldWaits(t)' /\ Signalled(t)'
  <2> DEFINE last == PT(t).last_completed_task
  <2>1. Roles(t) /\ Window(t) /\ HeldWaits(t) /\ Signalled(t)
    BY DEF InOrder
  <2>2. tx'[t].pc \in {"await_commit", "committed", "restart"}
    OBVIOUS
  <2>3. Roles(t)'
    BY <1>1, <2>2 DEF Roles, try_commit, CommitPcs, RollingBack, EarlierPcs, Waiting
  <2>4. last \in Nat /\ tx[t].serial \in Nat /\ commit_serial(t) \in Int /\ tx[t].serial <= commit_serial(t)
    BY Numbers, Constants DEF commit_serial, start_serial
  <2>5. /\ tx'[t].pc = "committed" => last >= commit_serial(t)
        /\ tx[t].aborting_transaction => last < tx[t].serial
    BY <1>1, <2>1 DEF Signalled
  <2>6. Window(t)'
    <3>1. tx'[t].pc \notin Parked => last < tx[t].serial
      BY <2>2, <2>5 DEF Parked
    <3>2. tx'[t].pc \notin Turn
      BY <2>2 DEF Turn
    <3>3. QED BY <1>3, <1>4, <2>1, <2>4, <2>5, <3>1, <3>2 DEF Window
  <2>7. HeldWaits(t)'
    <3>1. Held(t) => tx'[t].pc = "await_commit" /\ ~ tx'[t].aborting_transaction
      BY <2>1, <2>4, <2>5 DEF HeldWaits
    <3>2. QED BY <1>3, <1>4, <1>5, <2>1, <3>1 DEF HeldWaits, Waiting
  <2>8. Signalled(t)'
    <3>1. ASSUME tx'[t].aborting_transaction
          PROVE tx'[t].pc = "await_commit" /\ last < tx[t].serial
      <4>1. tx'[t].pc \in {"await_commit", "committed"}
            /\ tx'[t].aborting_transaction = tx[t].aborting_transaction
        BY <3>1
      <4>2. last < tx[t].serial
        BY <2>5, <3>1, <4>1
      <4>3. QED BY <2>4, <2>5, <4>1, <4>2
    <3>2. QED BY <1>1, <1>3, <1>4, <3>1 DEF Signalled, Waiting, try_commit
  <2>9. QED BY <2>3, <2>6, <2>7, <2>8
<1>8. ASSUME NEW u \in Task, u # t PROVE Roles(u)' /\ Window(u)' /\ HeldWaits(u)' /\ Signalled(u)'
  <2>1. Roles(u) /\ Window(u) /\ HeldWaits(u) /\ Signalled(u) /\ SameTask(u)
    BY <1>2, <1>8 DEF InOrder
  <2>2. Roles(u)'
    BY <2>1 DEF Roles, SameTask, try_commit
  <2>3. Window(u)'
    BY <1>4, <2>1 DEF Window, SameTask
  <2>4. HeldWaits(u)'
    BY <1>4, <1>5, <2>1 DEF HeldWaits, SameTask
  <2>5. Signalled(u)'
    BY <1>4, <1>6, <2>1 DEF Signalled, SameTask, try_commit
  <2>6. QED BY <2>2, <2>3, <2>4, <2>5
<1>9. QED BY <1>7, <1>8 DEF InOrder

LEMMA WaitsEnd ==
  ASSUME TypeOK, InOrder, NEW t \in Task, Progress(t) \/ AwaitCommit(t) \/ ReadyWait(t)
  PROVE  InOrder'
<1>1. tx[t] \in TaskState /\ PT(t) \in ThreadState
  BY TaskTyped
<1>2. tx[t].pc \in Waiting
  BY DEF Progress, AwaitCommit, ReadyWait, At, Waiting
<1>3. CASE Progress(t)
  <2> DEFINE n == PT(t).progress + 1
             q == [PT(t) EXCEPT !.progress = n]
             r == [tx[t] EXCEPT !.pc = "await_commit"]
  <2>1. UpdatePT(t, q) /\ Become(t, r) /\ tx[t].pc = "progress"
    BY <1>3 DEF Progress, At, Goto
  <2> HIDE DEF n
  <2>2. q.last_completed_task = PT(t).last_completed_task
    BY <1>1 DEF ThreadState
  <2>3. /\ r.pc = "await_commit" /\ r.serial = tx[t].serial
        /\ r.aborting_transaction = tx[t].aborting_transaction
    BY <1>1 DEF TaskState
  <2> HIDE DEF q, r
  <2>4. SameTurn
    BY <2>1, <2>2, UpdateTurn
  <2>5. tx'[t] = r /\ SameOthers(t)
    BY <2>1 DEF Become, TypeOK, SameOthers, SameTask
  <2>6. ~ AwaitsAbort(t)
    BY <2>1 DEF AwaitsAbort
  <2>7. QED BY <1>2, <2>3, <2>4, <2>5, <2>6, WaitEnds
<1>4. CASE AwaitCommit(t) \/ ReadyWait(t)
  <2> DEFINE r1 == [tx[t] EXCEPT !.pc = "committed"]
             r2 == [tx[t] EXCEPT !.pc = "restart", !.aborting_transaction = FALSE]
  <2>1. SameTurn
    BY <1>4, NoTurnTaken DEF AwaitCommit, ReadyWait
  <2>2. \/ Become(t, r1) /\ PT(t).last_completed_task >= commit_serial(t) /\ tx[t].pc = "await_commit"
        \/ Become(t, r2) /\ tx[t].aborting_transaction
    BY <1>4 DEF AwaitCommit, ReadyWait, At, Goto
  <2>3. ~ AwaitsAbort(t)
    BY <1>4 DEF AwaitsAbort, AwaitCommit, ReadyWait, At
  <2>4. /\ r1.pc = "committed" /\ r1.serial = tx[t].serial
        /\ r1.aborting_transaction = tx[t].aborting_transaction
        /\ r2.pc = "restart" /\ r2.serial = tx[t].serial /\ ~ r2.aborting_transaction
    BY <1>1 DEF TaskState
  <2> HIDE DEF r1, r2
  <2>5. (tx'[t] = r1 \/ tx'[t] = r2) /\ SameOthers(t)
    BY <2>2 DEF Become, TypeOK, SameOthers, SameTask
  <2>6. CASE Become(t, r1) /\ PT(t).last_completed_task >= commit_serial(t)
    <3>1. tx'[t] = r1
      BY <2>6 DEF Become, TypeOK
    <3>2. QED BY <1>2, <2>1, <2>3, <2>4, <2>5, <2>6, <3>1, WaitEnds
  <2>7. CASE Become(t, r2) /\ tx[t].aborting_transaction
    <3>1. tx'[t] = r2
      BY <2>7 DEF Become, TypeOK
    <3>2. QED BY <1>2, <2>1, <2>3, <2>4, <2>5, <2>7, <3>1, WaitEnds
  <2>8. QED BY <2>2, <2>6, <2>7
<1>5. QED BY <1>3, <1>4

----------------------------------------------------------------------------
(***************************************************************************)
(* The commit task.                                                        *)
(***************************************************************************)

\* When the commit task has its turn, every other task of the thread is in the
\* same transaction and waits.
LEMMA CommitTurnAlone ==
  ASSUME TypeOK, InOrder, NEW t \in Task, try_commit(t), tx[t].pc \in Turn,
         NEW u \in Task, u[1] = t[1], u # t
  PROVE  /\ start_serial(u) = start_serial(t) /\ tx[u].pc \in Waiting
         /\ ~ tx[u].aborting_transaction
<1> DEFINE last == PT(t).last_completed_task
<1>1. Committer(u) = t /\ Committer(t) = t /\ PT(u) = PT(t) /\ ~ try_commit(u)
  BY Numbers DEF Committer, PT, Task, try_commit
<1>2. Window(t) /\ Window(u) /\ Signalled(u)
  BY DEF InOrder
<1>3. /\ t[2] = SpecDepth - 1 /\ u[2] \in Nat /\ u[2] < SpecDepth - 1
      /\ tx[t].serial \in Nat /\ tx[u].serial \in Nat /\ last \in Nat
      /\ start_serial(t) = tx[t].serial - t[2] /\ start_serial(u) = tx[u].serial - u[2]
  BY <1>1, Numbers, Constants DEF try_commit, start_serial
<1>4. last = tx[t].serial - 1
  BY <1>2 DEF Window
<1>5. /\ start_serial(u) - 1 <= last /\ last < tx[u].serial + SpecDepth
      /\ start_serial(u) \in {start_serial(t) - SpecDepth, start_serial(t), start_serial(t) + SpecDepth}
  BY <1>1, <1>2 DEF Window
<1>6. start_serial(u) = start_serial(t)
  BY <1>3, <1>4, <1>5, Constants
<1>7. tx[u].serial <= last /\ commit_serial(u) > last
  BY <1>3, <1>4, <1>6, Constants DEF commit_serial
<1>8. tx[u].pc \in Parked /\ tx[u].pc # "committed"
  <2>1. tx[u].pc \notin Parked => last < tx[u].serial
    BY <1>1, <1>2 DEF Window
  <2>2. tx[u].pc = "committed" => commit_serial(u) <= last
    BY <1>1, <1>2 DEF Window
  <2>3. commit_serial(u) \in Int
    BY <1>3, Constants DEF commit_serial
  <2>4. QED BY <1>3, <1>7, <2>1, <2>2, <2>3
<1>9. ~ tx[u].aborting_transaction
  BY <1>1, <1>2, <1>3, <1>7 DEF Signalled
<1>10. QED BY <1>6, <1>8, <1>9 DEF Parked, Waiting

\* Tasks of other threads keep their part of InOrder.
LEMMA OtherThreads ==
  ASSUME TypeOK, InOrder, NEW t \in Task, NEW u \in Task, u[1] # t[1],
         \A v \in Task : v[1] # t[1] => SameTask(v),
         PT(u)'.last_completed_task = PT(u).last_completed_task
  PROVE  Roles(u)' /\ Window(u)' /\ HeldWaits(u)' /\ Signalled(u)'
<1>1. Committer(u) \in Task /\ Committer(u)[1] = u[1]
  BY Numbers
<1>2. \A v \in Task : v[1] = u[1] => Committer(v) = Committer(u)
  BY DEF Committer
<1>3. SameTask(u) /\ SameTask(Committer(u)) /\ \A v \in Task : v[1] = u[1] => SameTask(v)
  BY <1>1
<1>4. \A v \in Task : v[1] = u[1] => (AwaitsAbort(v) <=> AwaitsAbort(v)') /\ (Held(v) <=> Held(v)')
  BY <1>2, <1>3 DEF AwaitsAbort, Held, SameTask, try_commit, Committer
<1>5. Roles(u) /\ Window(u) /\ HeldWaits(u) /\ Signalled(u)
  BY DEF InOrder
<1>6. /\ start_serial(u)' = start_serial(u) /\ commit_serial(u)' = commit_serial(u)
      /\ start_serial(Committer(u))' = start_serial(Committer(u))
  BY <1>3 DEF start_serial, commit_serial, SameTask, Committer
<1>7. Roles(u)'
  BY <1>3, <1>5 DEF Roles, SameTask, try_commit
<1>8. Window(u)'
  BY <1>3, <1>5, <1>6 DEF Window, SameTask
<1>9. HeldWaits(u)'
  BY <1>3, <1>4, <1>5, <1>6 DEF HeldWaits, SameTask
<1>10. Signalled(u)'
  BY <1>3, <1>4, <1>5 DEF Signalled, SameTask, try_commit
<1>11. QED BY <1>7, <1>8, <1>9, <1>10

LEMMA CommitDoneOrder == ASSUME TypeOK, InOrder, NEW t \in Task, CommitDone(t) PROVE InOrder'
<1> DEFINE q == [PT(t) EXCEPT !.greedy = FALSE, !.greedy_ts = MINIMUM_TS,
                   !.locations_accessed = 0, !.progress = 0, !.last_completed_task = tx[t].serial]
           r == [tx[t] EXCEPT !.pc = "committed"]
           last == PT(t).last_completed_task
<1>1. UpdatePT(t, q) /\ Become(t, r) /\ tx[t].pc = "commit_done"
  BY DEF CommitDone, At, Goto
<1>2. q.last_completed_task = tx[t].serial
  BY TaskTyped DEF ThreadState
<1>3. r.pc = "committed" /\ r.serial = tx[t].serial /\ r.aborting_transaction = tx[t].aborting_transaction
  BY TaskTyped DEF TaskState
<1> HIDE DEF q, r
<1>4. TurnTo(t, tx[t].serial)
  BY <1>1, <1>2, UpdateTurnTo
<1>5. tx'[t] = r /\ \A u \in Task : u # t => SameTask(u)
  BY <1>1 DEF Become, TypeOK, SameTask
<1>6. try_commit(t) /\ tx[t].pc \in Turn /\ last = tx[t].serial - 1
  <2>1. tx[t].pc \in Turn /\ tx[t].pc \in CommitPcs
    BY <1>1 DEF Turn, CommitPcs
  <2>2. QED BY <2>1 DEF InOrder, Roles, Window
<1>7. \A u \in Task : /\ tx'[u].serial = tx[u].serial
                      /\ tx'[u].aborting_transaction = tx[u].aborting_transaction
                      /\ PT(u)'.last_completed_task = IF u[1] = t[1] THEN tx[t].serial
                                                      ELSE PT(u).last_completed_task
  BY <1>3, <1>4, <1>5, Numbers DEF SameTask, TurnTo, PT
<1>8. ASSUME NEW u \in Task, u[1] = t[1]
      PROVE Roles(u)' /\ Window(u)' /\ HeldWaits(u)' /\ Signalled(u)'
  <2>1. Committer(u) = t /\ Committer(t) = t
    BY <1>6, <1>8, Numbers DEF Committer, try_commit
  <2>2. Roles(u) /\ Window(u)
    BY DEF InOrder
  <2>3. u # t => /\ start_serial(u) = start_serial(t) /\ tx[u].pc \in Waiting
                 /\ ~ tx[u].aborting_transaction /\ tx'[u].pc = tx[u].pc
    BY <1>5, <1>6, <1>8, CommitTurnAlone DEF SameTask
  <2>4. tx'[t].pc = "committed"
    BY <1>3, <1>5
  <2>5. ~ Held(u)'
    BY <2>1, <2>4 DEF Held, RollingBack, Committer
  <2>6. tx'[u].pc \in Parked /\ tx'[u].pc \notin Turn /\ (u # t => tx'[u].pc # "committed")
    BY <2>3, <2>4 DEF Parked, Turn, Waiting
  <2>7. Roles(u)'
    BY <1>6, <2>2, <2>3, <2>4 DEF Roles, CommitPcs, EarlierPcs, RollingBack, Waiting, try_commit
  <2>8. Window(u)'
    <3>1. /\ start_serial(u)' = start_serial(u) /\ start_serial(t)' = start_serial(t)
          /\ start_serial(Committer(u))' = start_serial(t) /\ start_serial(u) = start_serial(t)
      BY <1>7, <2>1, <2>3 DEF start_serial, Committer
    <3>2. /\ tx[u].serial \in Nat /\ tx[t].serial \in Nat /\ u[2] \in Nat /\ u[2] <= CommitTask
          /\ start_serial(u) = tx[u].serial - u[2] /\ start_serial(t) = tx[t].serial - CommitTask
      BY <1>6, Numbers DEF start_serial, try_commit
    <3>3. PT(u)'.last_completed_task = tx[t].serial
      BY <1>7, <1>8
    <3>4. /\ start_serial(u) - 1 <= tx[t].serial /\ tx[t].serial < tx[u].serial + SpecDepth
          /\ start_serial(u) + CommitTask = tx[t].serial /\ start_serial(u) \in Int
      <4>1. tx[u].serial - u[2] = tx[t].serial - CommitTask
        BY <3>1, <3>2
      <4>2. QED BY <3>2, <4>1, Constants
    <3>5. commit_serial(u)' = tx[t].serial /\ start_serial(Committer(u))' = start_serial(u)'
      BY <3>1, <3>4 DEF commit_serial
    <3>6. QED BY <1>7, <2>6, <3>1, <3>2, <3>3, <3>4, <3>5 DEF Window
  <2>9. HeldWaits(u)'
    BY <2>5 DEF HeldWaits
  <2>10. Signalled(u)'
    <3>1. CASE u # t
      BY <1>7, <2>3, <3>1 DEF Signalled
    <3>2. CASE u = t
      <4>1. ASSUME NEW v \in Task, v[1] = t[1], AwaitsAbort(v) PROVE AwaitsAbort(v)'
        <5>1. v # t /\ SameTask(v) /\ Committer(v) = t
          BY <1>5, <1>6, <4>1 DEF AwaitsAbort, Committer, try_commit, Task
        <5>2. ~ Held(v)'
          BY <5>1, <2>4 DEF Held, RollingBack, Committer
        <5>3. QED BY <4>1, <5>1, <5>2 DEF AwaitsAbort, SameTask, try_commit
      <4>2. Signalled(t)
        BY DEF InOrder
      <4>3. QED BY <1>6, <1>7, <3>2, <4>1, <4>2 DEF Signalled, try_commit
    <3>3. QED BY <3>1, <3>2
  <2>11. QED BY <2>7, <2>8, <2>9, <2>10
<1>9. ASSUME NEW u \in Task, u[1] # t[1]
      PROVE Roles(u)' /\ Window(u)' /\ HeldWaits(u)' /\ Signalled(u)'
  BY <1>5, <1>7, <1>9, OtherThreads
<1>10. QED BY <1>8, <1>9 DEF InOrder

\* How far a task that has committed, and the others of its thread, can be.
LEMMA CommittedWindow ==
  ASSUME TypeOK, InOrder, NEW t \in Task, tx[t].pc = "committed", NEW u \in Task, u[1] = t[1]
  PROVE  LET first == start_serial(Committer(t))
         IN /\ ~ try_commit(t) => start_serial(t) \in {first - SpecDepth, first}
            /\ try_commit(t) => start_serial(u) \in {first, first + SpecDepth}
            /\ PT(t).last_completed_task < tx[t].serial + SpecDepth
            /\ start_serial(t) + SpecDepth - 1 <= PT(t).last_completed_task
<1> DEFINE c == Committer(t)
           first == start_serial(c)
           last == PT(t).last_completed_task
<1>1. c \in Task /\ Committer(u) = c /\ Committer(c) = c /\ PT(u) = PT(t) /\ PT(c) = PT(t)
  BY Numbers DEF Committer, PT
<1>2. Window(t) /\ Window(u) /\ Window(c)
  BY <1>1 DEF InOrder
<1>3. /\ tx[t].serial \in Nat /\ tx[u].serial \in Nat /\ tx[c].serial \in Nat /\ last \in Nat
      /\ t[2] \in Nat /\ u[2] \in Nat /\ t[2] < SpecDepth /\ u[2] < SpecDepth
      /\ start_serial(t) = tx[t].serial - t[2] /\ start_serial(u) = tx[u].serial - u[2]
      /\ first = tx[c].serial - CommitTask
      /\ (try_commit(t) => t = c)
  BY <1>1, Numbers, Constants DEF start_serial
<1>4. /\ start_serial(t) \in {first - SpecDepth, first, first + SpecDepth}
      /\ start_serial(u) \in {first - SpecDepth, first, first + SpecDepth}
  BY <1>1, <1>2 DEF Window
<1>5. last < tx[t].serial + SpecDepth /\ last < tx[u].serial + SpecDepth
      /\ last < tx[c].serial + SpecDepth
  BY <1>1, <1>2 DEF Window
<1>6. start_serial(t) + CommitTask <= last
  BY <1>2 DEF Window, commit_serial
<1> HIDE DEF c, first, last
<1>7. start_serial(t) + SpecDepth - 1 <= last
  BY <1>3, <1>6, Constants
<1>8. start_serial(t) # first + SpecDepth
  BY <1>3, <1>5, <1>7, Constants
<1>9. try_commit(t) => start_serial(u) # first - SpecDepth
  BY <1>3, <1>5, <1>7, Constants DEF first, c
<1>10. QED BY <1>4, <1>5, <1>7, <1>8, <1>9 DEF first, c, last

LEMMA TxCommittedOrder == ASSUME TypeOK, InOrder, NEW t \in Task, TxCommitted(t) PROVE InOrder'
<1> DEFINE n == tx[t].serial + SpecDepth
           log == IF tx[t].read_only THEN tx[t].write_log ELSE 0
           r == [Cleared(tx[t]) EXCEPT !.serial = n, !.write_log = log]
           last == PT(t).last_completed_task
           first == start_serial(Committer(t))
<1>1. SameTurn /\ Become(t, r) /\ tx[t].pc = "committed"
  <2>1. Cleared(tx[t]).serial = tx[t].serial /\ Cleared(tx[t]).write_log = tx[t].write_log
    BY TaskTyped DEF Cleared, TaskState
  <2>2. Become(t, [Cleared(tx[t]) EXCEPT !.serial = Cleared(tx[t]).serial + SpecDepth,
                     !.write_log = IF tx[t].read_only THEN Cleared(tx[t]).write_log ELSE 0])
    BY DEF TxCommitted
  <2>3. QED BY <2>1, <2>2, NoTurnTaken DEF TxCommitted, At
<1>2. /\ r.pc = "start" /\ r.serial = n /\ r.aborting_transaction = tx[t].aborting_transaction
  <2> HIDE DEF n, log
  <2>1. QED BY TaskTyped DEF Cleared, TaskState
<1> HIDE DEF r
<1>3. tx'[t] = r /\ \A u \in Task : u # t => SameTask(u)
  BY <1>1 DEF Become, TypeOK, SameTask
<1>4. \A u \in Task : tx'[u].aborting_transaction = tx[u].aborting_transaction
                      /\ PT(u)'.last_completed_task = PT(u).last_completed_task
  BY <1>1, <1>2, <1>3, Numbers DEF SameTask, SameTurn, PT
<1>5. /\ ~ Held(t) /\ (~ try_commit(t) => ~ tx[t].aborting_transaction)
      /\ ~ AwaitsAbort(t)
  BY <1>1 DEF InOrder, HeldWaits, Signalled, Waiting, AwaitsAbort
<1>6. tx'[t].pc = "start" /\ tx'[t].pc \notin Parked /\ tx'[t].pc \notin Turn
      /\ tx'[t].pc \notin CommitPcs /\ tx'[t].pc \notin EarlierPcs /\ tx'[t].pc \notin RollingBack
  BY <1>2, <1>3 DEF Parked, Turn, CommitPcs, EarlierPcs, RollingBack, Waiting
<1>7. ASSUME NEW u \in Task PROVE Held(u)' <=> Held(u)
  <2>1. CASE Committer(u) = t
    BY <1>1, <1>6, <2>1 DEF Held, Committer, RollingBack
  <2>2. CASE Committer(u) # t
    BY <1>3, <2>2, Numbers DEF Held, SameTask, Committer, try_commit
  <2>3. QED BY <2>1, <2>2
<1>8. \A u \in Task : AwaitsAbort(u) => AwaitsAbort(u)'
  BY <1>3, <1>5, <1>7 DEF AwaitsAbort, SameTask, try_commit
<1>9. /\ tx[t].serial \in Nat /\ last \in Nat /\ t[2] \in Nat /\ t[2] <= CommitTask
      /\ start_serial(t) = tx[t].serial - t[2] /\ first \in Int
      /\ (try_commit(t) <=> t = Committer(t))
  BY Numbers DEF start_serial, Committer
<1>10. start_serial(t)' = start_serial(t) + SpecDepth
  BY <1>2, <1>3, <1>9, Constants DEF start_serial
<1>11. ASSUME NEW u \in Task, u[1] = t[1]
       PROVE Roles(u)' /\ Window(u)' /\ HeldWaits(u)' /\ Signalled(u)'
  <2>1. Roles(u) /\ Window(u) /\ HeldWaits(u) /\ Signalled(u)
    BY DEF InOrder
  <2>2. Committer(u) = Committer(t) /\ Committer(u) \in Task /\ PT(u) = PT(t)
    BY <1>11, Numbers DEF Committer, PT
  <2>3. u # t => SameTask(u) /\ start_serial(u)' = start_serial(u) /\ commit_serial(u)' = commit_serial(u)
    BY <1>3 DEF SameTask, start_serial, commit_serial
  <2>4. Roles(u)'
    <3>1. CASE u = t
      BY <1>6, <3>1 DEF Roles, RollingBack
    <3>2. CASE u # t
      BY <2>1, <2>3, <3>2 DEF Roles, SameTask, try_commit
    <3>3. QED BY <3>1, <3>2
  <2>5. start_serial(u)' \in {start_serial(Committer(u))' - SpecDepth,
          start_serial(Committer(u))', start_serial(Committer(u))' + SpecDepth}
    <3>1. CASE try_commit(t)
      <4>1. start_serial(Committer(u))' = first + SpecDepth
        BY <1>9, <1>10, <2>2, <3>1 DEF Committer
      <4>2. start_serial(u) \in {first, first + SpecDepth}
        BY <1>1, <1>11, <3>1, CommittedWindow
      <4>3. u = t => start_serial(u)' = first + SpecDepth
        BY <1>9, <1>10, <3>1
      <4>4. start_serial(u)' \in {first, first + SpecDepth}
        BY <2>3, <4>2, <4>3
      <4>5. QED BY <1>9, <4>1, <4>4, Constants
    <3>2. CASE ~ try_commit(t)
      <4>1. start_serial(Committer(u))' = first
        BY <1>3, <1>9, <2>2, <3>2 DEF start_serial, SameTask, Committer
      <4>2. CASE u # t
        BY <2>1, <2>2, <2>3, <4>1, <4>2 DEF Window
      <4>3. CASE u = t
        <5>1. start_serial(t) \in {first - SpecDepth, first}
          BY <1>1, <3>2, CommittedWindow
        <5>2. start_serial(t) + SpecDepth \in {first, first + SpecDepth}
          BY <1>9, <5>1, Constants
        <5>3. QED BY <1>10, <4>1, <4>3, <5>2
      <4>4. QED BY <4>2, <4>3
    <3>3. QED BY <3>1, <3>2
  <2>6. Window(u)'
    <3>1. CASE u = t
      <4>1. last < tx[t].serial + SpecDepth /\ start_serial(t) + SpecDepth - 1 <= last
        BY <1>1, <1>11, CommittedWindow
      <4>2. /\ start_serial(t)' - 1 <= last /\ last < n /\ last < n + SpecDepth
        BY <1>9, <1>10, <4>1, Constants
      <4>3. tx'[t].serial = n
        BY <1>2, <1>3
      <4> HIDE DEF n
      <4>4. QED BY <1>4, <1>6, <2>5, <3>1, <4>2, <4>3 DEF Window, Parked
    <3>2. CASE u # t
      BY <1>4, <2>1, <2>3, <2>5, <3>2 DEF Window, SameTask
    <3>3. QED BY <3>1, <3>2
  <2>7. HeldWaits(u)'
    <3>1. CASE u = t
      BY <1>5, <1>7, <3>1 DEF HeldWaits
    <3>2. CASE u # t
      <4>1. CASE Held(u)
        <5>1. Committer(u) # t
          BY <1>1, <4>1 DEF Held, Committer, RollingBack
        <5>2. start_serial(Committer(u))' = start_serial(Committer(u))
          BY <1>3, <2>2, <5>1 DEF start_serial, SameTask, Committer
        <5>3. QED BY <1>4, <2>1, <2>3, <3>2, <4>1, <5>2 DEF HeldWaits, SameTask
      <4>2. CASE ~ Held(u)
        BY <1>7, <4>2 DEF HeldWaits
      <4>3. QED BY <4>1, <4>2
    <3>3. QED BY <3>1, <3>2
  <2>8. Signalled(u)'
    <3>1. CASE try_commit(u)
      BY <1>4, <1>8, <2>1, <3>1 DEF Signalled, try_commit
    <3>2. CASE ~ try_commit(u) /\ u = t
      BY <1>4, <1>5, <3>2 DEF Signalled, try_commit
    <3>3. CASE ~ try_commit(u) /\ u # t
      BY <1>4, <2>1, <2>3, <3>3 DEF Signalled, SameTask, try_commit
    <3>4. QED BY <3>1, <3>2, <3>3
  <2>9. QED BY <2>4, <2>6, <2>7, <2>8
<1>12. ASSUME NEW u \in Task, u[1] # t[1]
       PROVE Roles(u)' /\ Window(u)' /\ HeldWaits(u)' /\ Signalled(u)'
  BY <1>3, <1>4, <1>12, OtherThreads
<1>13. QED BY <1>11, <1>12 DEF InOrder

----------------------------------------------------------------------------
(***************************************************************************)
(* Rollback of a transaction, and a task that asks for it.                 *)
(***************************************************************************)

LEMMA RollbackOrder == ASSUME TypeOK, InOrder, NEW t \in Task, RollbackTransaction(t) PROVE InOrder'
<1> DEFINE undone == {<<t[1], k>> : k \in tx[t].from .. CommitTask}
           before == start_serial(t) + tx[t].from - 1
           q == [PT(t) EXCEPT !.last_completed_writer = before, !.progress = 0,
                   !.last_completed_task = before]
           from == tx[t].from
           r == [tx[t] EXCEPT !.write_log = 0, !.aborting_transaction = FALSE,
                   !.i = from, !.pc = "rollback_clear"]
           first == start_serial(t)
<1>1. /\ tx[t].pc = "rollback" /\ UpdatePT(t, q)
      /\ tx' = [u \in Task |-> IF u = t THEN r
                               ELSE IF u \in undone THEN [tx[u] EXCEPT !.write_log = 0] ELSE tx[u]]
  BY DEF RollbackTransaction, At
<1>2. tx[t].pc \in Turn /\ tx[t].pc \in CommitPcs
  BY <1>1 DEF Turn, CommitPcs
<1>3. try_commit(t)
  BY <1>2 DEF InOrder, Roles
<1>4. q.last_completed_task = before
  <2> HIDE DEF before
  <2>1. QED BY TaskTyped DEF ThreadState
<1> HIDE DEF q
<1>5. TurnTo(t, before)
  BY <1>1, <1>4, UpdateTurnTo
<1>6. /\ r.pc = "rollback_clear" /\ r.serial = tx[t].serial /\ ~ r.aborting_transaction
      /\ r.from = from /\ r.i = from
  <2>1. tx[t] \in TaskState
    BY TaskTyped
  <2> DEFINE k == from
  <2>2. tx[t].from = k
    OBVIOUS
  <2>3. QED BY <2>1, <2>2 DEF TaskState
<1> HIDE DEF r, undone
<1>7. tx'[t] = r
  BY <1>1
<1>8. \A u \in Task : u # t => SameTask(u)
  <2>1. ASSUME NEW u \in Task, u # t PROVE SameTask(u)
    <3>1. tx'[u] \in {tx[u], [tx[u] EXCEPT !.write_log = 0]} /\ tx[u] \in TaskState
      BY <1>1, <2>1, TaskTyped
    <3>2. QED BY <3>1 DEF SameTask, TaskState
  <2>2. QED BY <2>1
<1>9. /\ from \in 0 .. CommitTask /\ first \in Int /\ first = tx[t].serial - CommitTask
      /\ tx[t].serial \in Nat
  BY <1>3, Numbers DEF start_serial, try_commit
<1>10. \A u \in Task : /\ tx'[u].serial = tx[u].serial
                       /\ start_serial(u)' = start_serial(u)
                       /\ PT(u)'.last_completed_task = IF u[1] = t[1] THEN before
                                                       ELSE PT(u).last_completed_task
  BY <1>5, <1>6, <1>7, <1>8, Numbers DEF SameTask, TurnTo, PT, start_serial
<1>11. ASSUME NEW u \in Task, u[1] = t[1]
       PROVE Roles(u)' /\ Window(u)' /\ HeldWaits(u)' /\ Signalled(u)'
  <2>1. Committer(u) = t
    BY <1>3, <1>11, Numbers DEF Committer, try_commit
  <2>2. u # t => /\ start_serial(u) = first /\ tx[u].pc \in Waiting
                 /\ ~ tx[u].aborting_transaction /\ tx'[u].pc = tx[u].pc
                 /\ ~ tx'[u].aborting_transaction
    BY <1>2, <1>3, <1>8, <1>11, CommitTurnAlone DEF SameTask
  <2>3. /\ tx[u].serial \in Nat /\ u[2] \in Nat /\ u[2] <= CommitTask
        /\ start_serial(u) = tx[u].serial - u[2]
    BY Numbers DEF start_serial
  <2>4. start_serial(u) = first
    BY <2>2
  <2>5. tx'[u].pc \in Waiting \cup {"rollback_clear"} /\ ~ tx'[u].aborting_transaction
    BY <1>6, <1>7, <2>2
  <2>6. Roles(u)'
    <3>1. CASE u = t
      BY <1>3, <1>6, <1>7, <3>1 DEF Roles, CommitPcs, EarlierPcs, Waiting, RollingBack
    <3>2. CASE u # t
      <4>1. Roles(u)
        BY DEF InOrder
      <4>2. QED BY <2>2, <3>2, <4>1 DEF Roles, CommitPcs, EarlierPcs, Waiting, RollingBack, try_commit
    <3>3. QED BY <3>1, <3>2
  <2>7. Window(u)'
    <3>1. /\ first - 1 <= before /\ before < tx[u].serial + SpecDepth
          /\ before < tx[t].serial
      BY <1>9, <2>3, <2>4, Constants
    <3>2. tx'[u].pc \notin Parked => u = t
      BY <2>2 DEF Parked, Waiting
    <3>3. tx'[u].pc # "committed" /\ tx'[u].pc \notin Turn
      BY <2>5 DEF Waiting, Turn
    <3>4. start_serial(Committer(u))' = first /\ start_serial(u)' = first
      BY <1>10, <2>1, <2>4 DEF Committer
    <3> HIDE DEF before, first
    <3>5. QED BY <1>10, <1>11, <3>1, <3>2, <3>3, <3>4 DEF Window
  <2>8. HeldWaits(u)'
    <3>1. Held(u)' => u # t /\ from <= u[2]
      <4>1. Held(u)' => ~ try_commit(u) /\ tx'[t].from <= u[2]
        BY <2>1 DEF Held, Committer, try_commit
      <4>2. QED BY <1>3, <1>6, <1>7, <4>1
    <3>2. from <= u[2] => before < tx[u].serial
      BY <1>9, <2>3, <2>4
    <3>3. start_serial(Committer(u))' = first /\ start_serial(u)' = first
      BY <1>10, <2>1, <2>4 DEF Committer
    <3> HIDE DEF before, first
    <3>4. QED BY <1>10, <1>11, <2>2, <3>1, <3>2, <3>3 DEF HeldWaits
  <2>9. Signalled(u)'
    BY <2>5 DEF Signalled
  <2>10. QED BY <2>6, <2>7, <2>8, <2>9
<1>12. ASSUME NEW u \in Task, u[1] # t[1]
       PROVE Roles(u)' /\ Window(u)' /\ HeldWaits(u)' /\ Signalled(u)'
  BY <1>8, <1>10, <1>12, OtherThreads
<1>13. QED BY <1>11, <1>12 DEF InOrder

\* The steps after it: the tasks it has undone are released one by one.
LEMMA RollbackOnward ==
  ASSUME TypeOK, InOrder, NEW t \in Task, tx[t].pc \in RollingBack,
         tx'[t].pc \in RollingBack \cup {"restart"}, SameTurn,
         \A u \in Task : /\ tx'[u].serial = tx[u].serial /\ (Held(u)' => Held(u))
                         /\ u # t => tx'[u].pc = tx[u].pc
                         /\ u[1] # t[1] => SameTask(u)
                         /\ \/ tx'[u].aborting_transaction = tx[u].aborting_transaction
                            \/ tx'[u].aborting_transaction /\ Held(u) /\ ~ Held(u)',
         tx'[t].pc \in {"rollback_valid", "rollback_signal"} => tx'[t].from <= tx'[t].i
  PROVE  InOrder'
<1>1. try_commit(t) /\ tx[t].pc \notin Parked /\ tx[t].pc \notin Turn /\ tx[t].pc \notin Waiting
  BY DEF InOrder, Roles, CommitPcs, RollingBack, Parked, Turn, Waiting
<1>2. /\ tx'[t].pc \notin Parked /\ tx'[t].pc \notin Turn /\ tx'[t].pc # "committed"
      /\ tx'[t].pc \notin EarlierPcs
  BY DEF RollingBack, Parked, Turn, EarlierPcs, Waiting
<1>3. \A u \in Task : /\ PT(u)'.last_completed_task = PT(u).last_completed_task
                      /\ start_serial(u)' = start_serial(u) /\ commit_serial(u)' = commit_serial(u)
                      /\ start_serial(Committer(u))' = start_serial(Committer(u))
                      /\ Committer(u)' = Committer(u)
  BY Numbers DEF SameTurn, PT, start_serial, commit_serial, Committer
<1>4. ASSUME NEW u \in Task, AwaitsAbort(u) PROVE AwaitsAbort(u)'
  <2>1. u # t /\ tx'[u].pc = tx[u].pc /\ ~ Held(u)' /\ ~ Held(u)
    BY <1>1, <1>4 DEF AwaitsAbort, try_commit
  <2>2. tx'[u].aborting_transaction = tx[u].aborting_transaction
    BY <2>1
  <2>3. QED BY <1>4, <2>1, <2>2 DEF AwaitsAbort, try_commit
<1>5. ASSUME NEW u \in Task PROVE Roles(u)' /\ Window(u)' /\ HeldWaits(u)' /\ Signalled(u)'
  <2>1. Roles(u) /\ Window(u) /\ HeldWaits(u) /\ Signalled(u)
    BY DEF InOrder
  <2>2. Roles(u)'
    <3>1. CASE u = t
      BY <1>1, <1>2, <3>1 DEF Roles, try_commit
    <3>2. CASE u # t /\ u[1] = t[1]
      <4>1. ~ try_commit(u)
        BY <1>1, <3>2 DEF try_commit, Task
      <4>2. tx'[u].pc = tx[u].pc
        BY <3>2
      <4>3. QED BY <2>1, <4>1, <4>2 DEF Roles, try_commit, CommitPcs, RollingBack
    <3>3. CASE u[1] # t[1]
      BY <2>1, <3>3 DEF Roles, SameTask, try_commit
    <3>4. QED BY <3>1, <3>2, <3>3
  <2>3. Window(u)'
    <3>1. CASE u = t
      BY <1>1, <1>2, <1>3, <2>1, <3>1 DEF Window
    <3>2. CASE u # t
      BY <1>3, <2>1, <3>2 DEF Window
    <3>3. QED BY <3>1, <3>2
  <2>4. HeldWaits(u)'
    <3>1. ASSUME Held(u)' PROVE /\ u # t /\ Held(u)
                                /\ tx'[u].aborting_transaction = tx[u].aborting_transaction
      BY <1>1, <3>1 DEF Held, try_commit
    <3>2. QED BY <1>3, <2>1, <3>1 DEF HeldWaits
  <2>5. Signalled(u)'
    <3>1. CASE try_commit(u)
      <4>1. ~ Held(u)
        BY <3>1 DEF Held
      <4>2. tx'[u].aborting_transaction = tx[u].aborting_transaction
        BY <4>1
      <4>3. QED BY <1>4, <2>1, <3>1, <4>2 DEF Signalled, try_commit
    <3>2. CASE ~ try_commit(u)
      <4>1. u # t
        BY <1>1, <3>2
      <4>2. CASE Held(u)
        BY <1>3, <2>1, <3>2, <4>1, <4>2 DEF Signalled, HeldWaits, try_commit
      <4>3. CASE ~ Held(u)
        BY <1>3, <2>1, <3>2, <4>1, <4>3 DEF Signalled, try_commit
      <4>4. QED BY <4>2, <4>3
    <3>3. QED BY <3>1, <3>2
  <2>6. QED BY <2>2, <2>3, <2>4, <2>5
<1>6. QED BY <1>5 DEF InOrder

LEMMA RollbackClearOrder ==
  ASSUME TypeOK, InOrder, NEW t \in Task, RollbackClear(t) PROVE InOrder'
<1> DEFINE f == [tx EXCEPT ![<<t[1], tx[t].i>>].abort_transaction = FALSE]
           i2 == IF f[t].i = CommitTask THEN tx[t].from ELSE f[t].i + 1
           pc2 == IF tx[t].i = CommitTask THEN "rollback_valid" ELSE f[t].pc
           r == [f[t] EXCEPT !.i = i2, !.pc = pc2]
<1>1. SameTurn /\ tx[t].pc = "rollback_clear" /\ tx' = [f EXCEPT ![t] = r]
  BY NoTurnTaken DEF RollbackClear, At
<1>2. \A u \in Task : /\ f[u] \in TaskState /\ f[u].pc = tx[u].pc /\ f[u].serial = tx[u].serial
                      /\ f[u].aborting_transaction = tx[u].aborting_transaction
                      /\ f[u].from = tx[u].from /\ f[u].i = tx[u].i
  BY FlagSame
<1>3. DOMAIN f = Task
  BY DEF TypeOK
<1>4. /\ pc2 \in {"rollback_clear", "rollback_valid"}
      /\ pc2 = "rollback_valid" => i2 = tx[t].from
  BY <1>1, <1>2
<1> HIDE DEF f, i2, pc2
<1>5. /\ r.pc = pc2 /\ r.i = i2 /\ r.serial = tx[t].serial /\ r.from = tx[t].from
      /\ r.aborting_transaction = tx[t].aborting_transaction
  BY <1>2 DEF TaskState
<1> HIDE DEF r
<1>6. tx'[t] = r /\ \A u \in Task : u # t => SameTask(u)
  BY <1>1, <1>2, <1>3 DEF SameTask
<1>7. \A u \in Task : /\ tx'[u].serial = tx[u].serial
                      /\ tx'[u].aborting_transaction = tx[u].aborting_transaction
  BY <1>5, <1>6 DEF SameTask
<1>8. ASSUME NEW u \in Task, Held(u)' PROVE Held(u)
  <2>1. CASE Committer(u) = t
    BY <1>1, <1>5, <1>6, <1>8, <2>1 DEF Held, Committer, RollingBack, try_commit
  <2>2. CASE Committer(u) # t
    BY <1>6, <1>8, <2>2, Numbers DEF Held, SameTask, Committer, try_commit
  <2>3. QED BY <2>1, <2>2
<1>9. tx'[t].pc \in RollingBack /\ tx[t].pc \in RollingBack
  BY <1>1, <1>4, <1>5, <1>6 DEF RollingBack
<1>10. tx'[t].pc \in {"rollback_valid", "rollback_signal"} => tx'[t].from <= tx'[t].i
  BY <1>4, <1>5, <1>6, Numbers, Constants
<1>11. \A u \in Task : u # t => tx'[u].pc = tx[u].pc /\ SameTask(u)
  BY <1>6 DEF SameTask
<1>12. QED BY <1>1, <1>7, <1>8, <1>9, <1>10, <1>11, RollbackOnward

\* A step of the commit task only: to rollback_signal, or from there to restart.
LEMMA RollbackGoto ==
  ASSUME TypeOK, InOrder, NEW t \in Task, NEW r, Become(t, r), SameTurn,
         <<tx[t].pc, r.pc>> \in {<<"rollback_valid", "rollback_signal">>,
                                 <<"rollback_signal", "restart">>},
         r.serial = tx[t].serial, r.aborting_transaction = tx[t].aborting_transaction,
         r.pc = "rollback_signal" => r.from = tx[t].from /\ r.i = tx[t].i
  PROVE  InOrder'
<1>1. tx'[t] = r /\ \A u \in Task : u # t => SameTask(u)
  BY DEF Become, TypeOK, SameTask
<1>2. ASSUME NEW u \in Task, Held(u)' PROVE Held(u)
  <2>1. CASE Committer(u) = t
    BY <1>1, <1>2, <2>1 DEF Held, Committer, RollingBack, try_commit
  <2>2. CASE Committer(u) # t
    BY <1>1, <1>2, <2>2, Numbers DEF Held, SameTask, Committer, try_commit
  <2>3. QED BY <2>1, <2>2
<1>3. tx[t].pc \in RollingBack /\ tx'[t].pc \in RollingBack \cup {"restart"}
  BY <1>1 DEF RollingBack
<1>4. tx'[t].pc \in {"rollback_valid", "rollback_signal"} => tx'[t].from <= tx'[t].i
  BY <1>1 DEF InOrder, Roles
<1>5. \A u \in Task : /\ tx'[u].serial = tx[u].serial
                      /\ tx'[u].aborting_transaction = tx[u].aborting_transaction
                      /\ u # t => tx'[u].pc = tx[u].pc /\ SameTask(u)
  BY <1>1 DEF SameTask
<1>6. QED BY <1>2, <1>3, <1>4, <1>5, RollbackOnward

LEMMA RollbackValidOrder ==
  ASSUME TypeOK, InOrder, NEW t \in Task, RollbackValid(t) PROVE InOrder'
<1> DEFINE q == [PT(t) EXCEPT !.requires_validation = FALSE, !.validated = TRUE,
                   !.valid_ts = commit_ts]
           r == [tx[t] EXCEPT !.pc = "rollback_signal"]
<1>1. UpdatePT(t, q) /\ Become(t, r) /\ tx[t].pc = "rollback_valid"
  BY DEF RollbackValid, Goto, At
<1>2. q.last_completed_task = PT(t).last_completed_task
  BY TaskTyped DEF ThreadState
<1>3. /\ r.pc = "rollback_signal" /\ r.serial = tx[t].serial /\ r.from = tx[t].from /\ r.i = tx[t].i
      /\ r.aborting_transaction = tx[t].aborting_transaction
  BY TaskTyped DEF TaskState
<1> HIDE DEF q, r
<1>4. SameTurn
  BY <1>1, <1>2, UpdateTurn
<1>5. QED BY <1>1, <1>3, <1>4, RollbackGoto

LEMMA RollbackSignalOrder ==
  ASSUME TypeOK, InOrder, NEW t \in Task, RollbackSignal(t) PROVE InOrder'
<1> DEFINE i == tx[t].i
           done == [tx[t] EXCEPT !.pc = "restart", !.i = 0, !.from = 0]
           f == [tx EXCEPT ![<<t[1], i>>].aborting_transaction = TRUE]
           i2 == i + 1
           r == [tx[t] EXCEPT !.i = i2]
<1>1. SameTurn /\ tx[t].pc = "rollback_signal" /\ tx[t] \in TaskState
  BY NoTurnTaken, TaskTyped DEF RollbackSignal, At
<1>2. try_commit(t) /\ tx[t].from <= i
  BY <1>1 DEF InOrder, Roles, CommitPcs, RollingBack
<1>3. CASE i = CommitTask
  <2>1. Become(t, done)
    BY <1>3 DEF RollbackSignal
  <2>2. /\ done.pc = "restart" /\ done.serial = tx[t].serial
        /\ done.aborting_transaction = tx[t].aborting_transaction
    BY <1>1 DEF TaskState
  <2> HIDE DEF done
  <2>3. QED BY <1>1, <2>1, <2>2, RollbackGoto
<1>4. CASE i # CommitTask
  <2>1. PICK v \in Task : /\ v = <<t[1], i>> /\ v # t /\ v[1] = t[1] /\ v[2] = i
                           /\ ~ try_commit(v) /\ Committer(v) = t
    <3>1. t[1] \in Thread /\ i \in 0 .. SpecDepth - 1 /\ t = <<t[1], t[2]>> /\ t[2] = CommitTask
      BY <1>2, Numbers, Constants DEF Task, try_commit
    <3>2. <<t[1], i>> \in Task /\ <<t[1], i>> # t
      BY <1>4, <3>1 DEF Task
    <3>3. ~ try_commit(<<t[1], i>>) /\ Committer(<<t[1], i>>) = t
      BY <1>4, <3>1 DEF try_commit, Committer
    <3>4. QED BY <3>2, <3>3
  <2>2. tx' = [f EXCEPT ![t].i = i2]
    <3>1. f[t].i = i
      BY <2>1 DEF TypeOK
    <3>2. tx' = [tx EXCEPT ![<<t[1], i>>].aborting_transaction = TRUE, ![t].i = @ + 1]
      BY <1>4 DEF RollbackSignal
    <3>3. tx' = [f EXCEPT ![t].i = f[t].i + 1]
      BY <3>2, Zenon
    <3>4. QED BY <3>1, <3>3
  <2>3. \A u \in Task : tx'[u] = IF u = t THEN r
                                 ELSE IF u = v THEN [tx[u] EXCEPT !.aborting_transaction = TRUE]
                                 ELSE tx[u]
    BY <2>1, <2>2 DEF TypeOK
  <2> HIDE DEF f
  <2>4. /\ r.pc = "rollback_signal" /\ r.serial = tx[t].serial /\ r.from = tx[t].from /\ r.i = i2
        /\ r.aborting_transaction = tx[t].aborting_transaction
    <3> HIDE DEF i2
    <3>1. QED BY <1>1 DEF TaskState
  <2>5. tx'[t] = r
    BY <2>3
  <2> HIDE DEF r
  <2>6. \A u \in Task : u # t => /\ tx'[u].pc = tx[u].pc /\ tx'[u].serial = tx[u].serial
                                 /\ tx'[u].from = tx[u].from /\ tx'[u].i = tx[u].i
                                 /\ (u # v => SameTask(u))
    <3>1. \A u \in Task : u # t => tx'[u] \in {tx[u], [tx[u] EXCEPT !.aborting_transaction = TRUE]}
                                   /\ tx[u] \in TaskState /\ (u # v => tx'[u] = tx[u])
      BY <2>3, TaskTyped
    <3>2. QED BY <3>1 DEF TaskState, SameTask
  <2>7. tx'[v].aborting_transaction
    <3>1. tx'[v] = [tx[v] EXCEPT !.aborting_transaction = TRUE] /\ tx[v] \in TaskState
      BY <2>1, <2>3, TaskTyped
    <3>2. QED BY <3>1 DEF TaskState
  <2>8. ASSUME NEW u \in Task, Held(u)' PROVE Held(u)
    <3>1. CASE Committer(u) = t
      <4>1. ~ try_commit(u) /\ tx'[t].from <= u[2] /\ tx'[t].i <= u[2]
        BY <2>4, <2>5, <2>8, <3>1 DEF Held, Committer, try_commit
      <4>2. tx[t].from <= u[2] /\ i <= u[2]
        BY <2>4, <2>5, <4>1, Numbers
      <4>3. QED BY <1>1, <3>1, <4>1, <4>2 DEF Held, Committer, try_commit, RollingBack
    <3>2. CASE Committer(u) # t
      BY <2>6, <2>8, <3>2, Numbers DEF Held, Committer, try_commit
    <3>3. QED BY <3>1, <3>2
  <2>9. Held(v) /\ ~ Held(v)'
    <3>1. Held(v)
      <4>1. tx[t].from <= v[2] /\ tx[t].i <= v[2]
        BY <1>2, <2>1, Numbers
      <4>2. QED BY <1>1, <2>1, <4>1 DEF Held, Committer, try_commit, RollingBack
    <3>2. ~ (tx'[t].i <= v[2])
      BY <2>1, <2>4, <2>5, Numbers
    <3>3. ~ Held(v)'
      BY <2>1, <2>4, <2>5, <3>2 DEF Held, Committer
    <3>4. QED BY <3>1, <3>3
  <2>10. tx'[t].from <= tx'[t].i
    BY <1>2, <2>4, <2>5, Numbers
  <2>11. tx[t].pc \in RollingBack /\ tx'[t].pc \in RollingBack \cup {"restart"}
    BY <1>1, <2>4, <2>5 DEF RollingBack
  <2>12. \A u \in Task : /\ tx'[u].serial = tx[u].serial
                         /\ u # t => tx'[u].pc = tx[u].pc
                         /\ u[1] # t[1] => SameTask(u)
                         /\ \/ tx'[u].aborting_transaction = tx[u].aborting_transaction
                            \/ tx'[u].aborting_transaction /\ Held(u) /\ ~ Held(u)'
    BY <2>1, <2>4, <2>5, <2>6, <2>7, <2>9 DEF SameTask
  <2>13. QED BY <1>1, <2>8, <2>10, <2>11, <2>12, RollbackOnward
<1>5. QED BY <1>3, <1>4

LEMMA ReadyOrder == ASSUME TypeOK, InOrder, NEW t \in Task, Ready(t) PROVE InOrder'
<1> DEFINE c == Committer(t)
           f == [tx EXCEPT ![c].aborting_transaction = TRUE]
<1>1. SameTurn /\ tx[t].pc = "ready" /\ c \in Task
  BY NoTurnTaken, Numbers DEF Ready, At
<1>2. ~ try_commit(t) /\ c # t /\ c[1] = t[1]
  <2>1. ~ try_commit(t)
    BY <1>1 DEF InOrder, Roles, EarlierPcs
  <2>2. QED BY <2>1, Numbers
<1>3. \A u \in Task : tx'[u] = IF u = t THEN [tx[u] EXCEPT !.pc = "ready_turn"]
                               ELSE IF u = c THEN [tx[u] EXCEPT !.aborting_transaction = TRUE]
                               ELSE tx[u]
  <2>1. tx' = [tx EXCEPT ![c].aborting_transaction = TRUE, ![t].pc = "ready_turn"]
    BY DEF Ready, Committer
  <2>2. tx' = [f EXCEPT ![t].pc = "ready_turn"]
    BY <2>1, Zenon
  <2> HIDE DEF c
  <2>3. QED BY <1>1, <1>2, <2>2 DEF TypeOK
<1>4. \A u \in Task : /\ tx'[u].serial = tx[u].serial /\ tx'[u].from = tx[u].from /\ tx'[u].i = tx[u].i
                      /\ u # t => tx'[u].pc = tx[u].pc
                      /\ u # c => tx'[u].aborting_transaction = tx[u].aborting_transaction
  <2> HIDE DEF c
  <2>1. \A u \in Task : /\ tx[u] \in TaskState
                        /\ tx'[u] \in {tx[u], [tx[u] EXCEPT !.pc = "ready_turn"],
                                       [tx[u] EXCEPT !.aborting_transaction = TRUE]}
                        /\ u # t => tx'[u] \in {tx[u], [tx[u] EXCEPT !.aborting_transaction = TRUE]}
                        /\ u # c => tx'[u] \in {tx[u], [tx[u] EXCEPT !.pc = "ready_turn"]}
    BY <1>3, TaskTyped
  <2>2. QED BY <2>1 DEF TaskState
<1>5. tx'[t].pc = "ready_turn"
  BY <1>3, TaskTyped DEF TaskState
<1>6. \A u \in Task : /\ start_serial(u)' = start_serial(u) /\ commit_serial(u)' = commit_serial(u)
                      /\ Committer(u) \in Task /\ Committer(u) # t
                      /\ start_serial(Committer(u))' = start_serial(Committer(u))
                      /\ PT(u)'.last_completed_task = PT(u).last_completed_task
  BY <1>1, <1>2, <1>4, Numbers DEF start_serial, commit_serial, Committer, try_commit, SameTurn, PT
<1>7. \A u \in Task : Held(u)' <=> Held(u)
  BY <1>4, <1>6 DEF Held, Committer, try_commit
<1>8. ~ Held(t) /\ ~ tx[t].aborting_transaction /\ ~ AwaitsAbort(t)
  BY <1>1, <1>2 DEF InOrder, HeldWaits, Signalled, Waiting, AwaitsAbort
<1>9. AwaitsAbort(t)'
  BY <1>2, <1>5, <1>7, <1>8 DEF AwaitsAbort, try_commit
<1>10. ASSUME NEW u \in Task, AwaitsAbort(u) PROVE AwaitsAbort(u)'
  <2>1. u # t /\ u # c
    BY <1>8, <1>10, Numbers DEF AwaitsAbort
  <2>2. QED BY <1>4, <1>7, <1>10, <2>1 DEF AwaitsAbort, try_commit
<1>11. ASSUME NEW u \in Task PROVE Roles(u)' /\ Window(u)' /\ HeldWaits(u)' /\ Signalled(u)'
  <2>1. Roles(u) /\ Window(u) /\ HeldWaits(u) /\ Signalled(u)
    BY DEF InOrder
  <2>2. Roles(u)'
    <3>1. CASE u = t
      BY <1>2, <1>5, <3>1 DEF Roles, CommitPcs, RollingBack, try_commit
    <3>2. CASE u # t
      BY <1>4, <2>1, <3>2 DEF Roles, try_commit
    <3>3. QED BY <3>1, <3>2
  <2>3. Window(u)'
    <3>1. CASE u = t
      <4>1. PT(t).last_completed_task < tx[t].serial
        BY <1>1, <2>1, <3>1 DEF Window, Parked
      <4>2. tx'[t].pc \notin Turn /\ tx'[t].pc # "committed"
        BY <1>5 DEF Turn
      <4>3. QED BY <1>4, <1>6, <2>1, <3>1, <4>1, <4>2 DEF Window
    <3>2. CASE u # t
      BY <1>4, <1>6, <2>1, <3>2 DEF Window
    <3>3. QED BY <3>1, <3>2
  <2>4. HeldWaits(u)'
    <3>1. Held(u)' => Held(u) /\ u # t /\ u # c
      BY <1>2, <1>7, <1>8, Numbers DEF Held
    <3>2. QED BY <1>4, <1>6, <2>1, <3>1 DEF HeldWaits
  <2>5. Signalled(u)'
    <3>1. CASE u = c
      BY <1>2, <1>9, <3>1, Numbers DEF Signalled, try_commit
    <3>2. CASE u = t
      BY <1>2, <1>4, <1>8, <3>2 DEF Signalled
    <3>3. CASE u # t /\ u # c
      BY <1>4, <1>6, <1>10, <2>1, <3>3 DEF Signalled, try_commit
    <3>4. QED BY <3>1, <3>2, <3>3
  <2>6. QED BY <2>2, <2>3, <2>4, <2>5
<1>12. QED BY <1>11 DEF InOrder

----------------------------------------------------------------------------
(***************************************************************************)
(* Every step.                                                             *)
(***************************************************************************)

LEMMA ValidatorOrder ==
  ASSUME TypeOK, InOrder, NEW p \in Thread, ValidatorStep(p) PROVE InOrder'
<1>1. SameTurn
  <2>1. \A r : SetPT(p, r) /\ r.last_completed_task = prog_thread[p].last_completed_task => SameTurn
    BY DEF SetPT, SameTurn, TypeOK
  <2>2. prog_thread[p] \in ThreadState
    BY DEF TypeOK
  <2>3. CASE UNCHANGED prog_thread
    BY <2>3, NoTurnTaken
  <2>4. CASE SetPT(p, [prog_thread[p] EXCEPT !.validated = FALSE])
    BY <2>1, <2>2, <2>4 DEF ThreadState
  <2>5. CASE SetPT(p, [prog_thread[p] EXCEPT !.requires_validation = FALSE])
    BY <2>1, <2>2, <2>5 DEF ThreadState
  <2>6. CASE SetPT(p, [prog_thread[p] EXCEPT !.valid_ts = validator[p].ts])
    BY <2>1, <2>2, <2>6 DEF ThreadState
  <2>7. CASE SetPT(p, [prog_thread[p] EXCEPT !.validated = TRUE])
    BY <2>1, <2>2, <2>7 DEF ThreadState
  <2>8. QED BY <2>3, <2>4, <2>5, <2>6, <2>7 DEF ValidatorStep, ValidatorWakes, ValidatorBegins,
               ValidatorClears, ValidatorReadsTs, ExtendTx, ValidatorAborts, ValidatorDone
<1>2. \A u \in Task : SameTask(u)
  <2>1. CASE UNCHANGED tx
    BY <2>1 DEF SameTask
  <2>2. CASE tx' = [tx EXCEPT ![<<p, validator[p].i>>].abort_transaction = TRUE]
    BY <2>2, FlagSame DEF SameTask
  <2>3. QED BY <2>1, <2>2 DEF ValidatorStep, ValidatorWakes, ValidatorBegins, ValidatorClears,
               ValidatorReadsTs, ExtendTx, ValidatorAborts, ValidatorDone
<1>3. QED BY <1>1, <1>2, NothingNew

LEMMA TaskOrder == ASSUME TypeOK, InOrder, NEW t \in Task, TaskStep(t) PROVE InOrder'
<1>1. CASE TxStart(t) \/ Skip(t) \/ Reads(t) \/ Writes(t)
  BY <1>1, StartQuiet, ReadsQuiet, WritesQuiet, QuietKeeps
<1>2. CASE Commits(t)
  BY <1>2, TxCommitQuiet, LooksQuiet, CommittingQuiet, QuietKeeps, TurnsTaken, WaitsEnd,
     CommitDoneOrder, TxCommittedOrder DEF Commits
<1>3. CASE Aborts(t)
  BY <1>3, CommittingQuiet, TxRestartQuiet, QuietKeeps, TurnsTaken, WaitsEnd, RollbackOrder,
     RollbackClearOrder, RollbackValidOrder, RollbackSignalOrder, ReadyOrder DEF Aborts
<1>4. QED BY <1>1, <1>2, <1>3 DEF TaskStep

LEMMA StepOrder == TypeOK /\ InOrder /\ [Next]_vars => InOrder'
<1> SUFFICES ASSUME TypeOK, InOrder, [Next]_vars PROVE InOrder'
  OBVIOUS
<1>1. CASE UNCHANGED vars
  BY <1>1, NothingNew DEF vars, SameTask, SameTurn
<1>2. CASE Next
  BY <1>2, TaskOrder, ValidatorOrder DEF Next
<1>3. QED BY <1>1, <1>2

LEMMA InitOrder == Init => InOrder
<1> SUFFICES ASSUME Init, NEW t \in Task PROVE Roles(t) /\ Window(t) /\ HeldWaits(t) /\ Signalled(t)
  BY DEF InOrder
<1>1. t[1] \in Thread /\ t[2] \in Nat /\ t[2] <= CommitTask /\ Committer(t) \in Task
      /\ Committer(t)[2] = CommitTask
  BY InitTyped, Numbers
<1>2. \A u \in Task : tx[u].pc = "start" /\ tx[u].serial = SpecDepth + u[2]
                      /\ ~ tx[u].aborting_transaction
  BY DEF Init
<1>3. PT(t).last_completed_task = SpecDepth - 1
  BY <1>1 DEF Init, PT
<1>4. ~ Held(t)
  BY <1>1, <1>2 DEF Held, RollingBack
<1>5. start_serial(t) = SpecDepth /\ start_serial(Committer(t)) = SpecDepth
  BY <1>1, <1>2, Constants DEF start_serial
<1>6. Roles(t)
  BY <1>2 DEF Roles, CommitPcs, EarlierPcs, RollingBack, Waiting
<1>7. Window(t)
  <2>1. tx[t].pc \notin Turn /\ tx[t].pc # "committed"
    BY <1>2 DEF Turn
  <2>2. SpecDepth - 1 < tx[t].serial /\ SpecDepth - 1 < tx[t].serial + SpecDepth
    BY <1>1, <1>2, Constants
  <2>3. QED BY <1>3, <1>5, <2>1, <2>2, Constants DEF Window
<1>8. QED BY <1>2, <1>4, <1>6, <1>7 DEF HeldWaits, Signalled

\* The order in which tasks run is kept through every interleaving of tasks,
\* validators, commits, rollbacks and requests to abort.
THEOREM Ordered == Spec => []InOrder
<1>1. Init => TypeOK /\ InOrder
  BY InitTyped, InitOrder
<1>2. TypeOK /\ InOrder /\ [Next]_vars => TypeOK' /\ InOrder'
  BY StepTyped, StepOrder
<1>3. QED BY <1>1, <1>2, PTL DEF Spec

\* Tasks of a thread validate, complete, commit and roll back one at a time,
\* in program order.
THEOREM TakeTurns == Spec => []OneInTurn
<1>1. TypeOK /\ InOrder => OneInTurn
  <2> SUFFICES ASSUME TypeOK, InOrder, NEW t \in Task, tx[t].pc \in Turn
               PROVE /\ PT(t).last_completed_task = tx[t].serial - 1
                     /\ \A u \in Task : u[1] = t[1] /\ tx[u].pc \in Turn => u = t
    BY DEF OneInTurn
  <2>1. PT(t).last_completed_task = tx[t].serial - 1
    BY DEF InOrder, Window
  <2>2. ASSUME NEW u \in Task, u[1] = t[1], tx[u].pc \in Turn PROVE u = t
    <3>1. PT(t).last_completed_task = tx[u].serial - 1
      BY <2>2 DEF InOrder, Window, PT
    <3>2. tx[u].serial = tx[t].serial
      BY <2>1, <3>1, Numbers
    <3>3. QED BY <2>2, <3>2, Distinct
  <2>3. QED BY <2>1, <2>2
<1>2. QED BY <1>1, Typed, Ordered, PTL

\* A task that is still working has not been counted as completed, whatever
\* commits and rollbacks did to last_completed_task.
THEOREM WorkAhead == Spec => []WorkIsAhead
<1>1. InOrder => WorkIsAhead
  <2> SUFFICES ASSUME InOrder, NEW t \in Task, tx[t].pc \notin Parked
               PROVE tx[t].serial > PT(t).last_completed_task
    BY DEF WorkIsAhead
  <2>1. PT(t).last_completed_task < tx[t].serial
    BY DEF InOrder, Window
  <2>2. QED BY <2>1
<1>2. QED BY <1>1, Ordered, PTL

\* aborting_transaction is only ever set for a task that waits for it, or for a
\* commit task while an earlier task is waiting to abort.
THEOREM Awaited == Spec => []SignalsAreAwaited
<1>1. TypeOK /\ InOrder => SignalsAreAwaited
  <2> SUFFICES ASSUME TypeOK, InOrder, NEW t \in Task, tx[t].aborting_transaction
               PROVE IF try_commit(t)
                     THEN \E k \in 0 .. CommitTask - 1 :
                            tx[<<t[1], k>>].pc \in {"ready_turn", "ready_wait"}
                     ELSE /\ tx[t].pc \in {"progress", "await_commit", "ready_wait"}
                          /\ tx[t].serial > PT(t).last_completed_task
    BY DEF SignalsAreAwaited
  <2>1. Signalled(t)
    BY DEF InOrder
  <2>2. CASE try_commit(t)
    <3>1. PICK u \in Task : u[1] = t[1] /\ AwaitsAbort(u)
      BY <2>1, <2>2 DEF Signalled
    <3>2. u = <<t[1], u[2]>> /\ u[2] \in 0 .. CommitTask - 1
      BY <3>1, Numbers, Constants DEF AwaitsAbort, try_commit, Task
    <3>3. tx[u].pc \in {"ready_turn", "ready_wait"}
      BY <3>1 DEF AwaitsAbort
    <3>4. QED BY <2>2, <3>2, <3>3
  <2>3. CASE ~ try_commit(t)
    BY <2>1, <2>3 DEF Signalled, Waiting
  <2>4. QED BY <2>2, <2>3
<1>2. QED BY <1>1, Typed, Ordered, PTL

(***************************************************************************)
(* The inductive invariant.                                                *)
(***************************************************************************)

last(t) == PT(t).last_completed_task

\* The transaction of t has not committed, and its entries: those of its log.
Open(t) == last(t) < commit_serial(t)
Logged(t) == {e \in LiveEntries(t) : Open(t)}

\* The commit task has not released e's part in a lock.
Due(e) == LET c == tx[Committer(e[1])]
          IN c.pc # "commit_done" /\ (c.pc = "write_back" => e \in c.todo)

Under(e) == Deref(e).old_entry
SameStripe(e, f) == e[1][1] = f[1][1] /\ Deref(e).stripe = Deref(f).stripe

\* A task has one entry for a stripe, and that leads to the entry of the last
\* task before it that has one.
Chained(t) ==
  \A e \in Logged(t) :
    /\ Deref(e).serial = tx[t].serial /\ Deref(e).stripe \in Stripe
    /\ \A b \in Ptr : Under(e) = b => /\ b \in Logged(b[1]) /\ SameStripe(e, b)
                                      /\ b[1][2] < t[2]
    /\ \A u \in Task : \A f \in Logged(u) : SameStripe(e, f) =>
         /\ u = t => f = e
         /\ u[2] < t[2] => \E b \in Ptr : Under(e) = b /\ u[2] <= b[1][2]

\* A write lock is the entry of the last task of a transaction that has one for
\* this stripe, and what is under it belongs to tasks that have completed.
Topmost ==
  /\ \A s \in Stripe : \A e \in Ptr : write_lock[s] = e =>
       e \in Logged(e[1]) /\ Due(e) /\ Deref(e).stripe = s
  /\ \A t \in Task : \A e \in Logged(t) : Due(e) =>
       \E top \in Ptr : /\ write_lock[Deref(e).stripe] = top /\ top[1][1] = t[1]
                        /\ top # e => t[2] < top[1][2] /\ tx[t].serial <= last(t)

\* What a task knows of the entry it is about to stack one on.
Aimed(t) ==
  \A b \in Ptr : tx[t].ptr = b =>
    /\ tx[t].pc \in {"write_locked", "write_cas"} /\ b[1][1] = t[1] =>
         start_serial(b[1]) = start_serial(t) /\ Deref(b).serial = tx[b[1]].serial
    /\ tx[t].pc = "write_cas" => b[1][1] = t[1] /\ tx[b[1]].serial <= last(t)

\* The pcs after the look at the write log that TxCommit begins with.
Committing == {"turn", "turn_writer", "await_abort", "await_request", "await_validated",
               "check_abort", "check_tasks", "complete", "progress", "await_commit",
               "lock_reads", "increment_ts", "validate_commit", "write_back", "commit_done",
               "committed"}

\* A task that says it has nothing to write back has nothing; one that has makes
\* the commit task look.
Writers(t) ==
  /\ tx[t].pc \in Committing /\ tx[t].read_only => tx[t].write_log = 0
  /\ /\ tx[t].pc \in {"progress", "await_commit"} /\ Open(t)
     /\ tx[t].serial <= last(t) /\ tx[t].write_log # 0
     => PT(t).last_completed_writer >= start_serial(t)

\* A commit task that goes on has no task of its transaction that waits to abort.
Agreed == {"await_request", "await_validated", "check_abort", "check_tasks", "lock_reads",
           "increment_ts", "validate_commit"}
Settled(t) == /\ try_commit(t)
              /\ tx[t].pc \in Agreed \/ (tx[t].pc = "rollback" /\ tx[t].from # 0)
Backed(t) == /\ AwaitsAbort(t) => tx[Committer(t)].aborting_transaction
             /\ Settled(t) => ~ tx[t].aborting_transaction
             /\ tx[t].pc = "rollback_valid" => tx[t].i = tx[t].from

\* The versions a rollback or a commit puts into the read locks.
Versions(t) ==
  /\ \A e \in Logged(t) : Deref(e).old_version = READ_LOCK_SET =>
       e[2] = tx[t].write_log /\ tx[t].pc \in {"write_extend", "restart"}
  /\ tx[t].pc \in {"validate_commit", "write_back"} => tx[t].version # READ_LOCK_SET
  /\ tx[t].pc = "write_extend" =>
       tx[t].write_log # 0 /\ entry[t][tx[t].write_log].stripe = StripeOf[Op(t).addr]

\* What a commit task writes back is of its own transaction.
Writing(t) == tx[t].pc = "write_back" => \A e \in tx[t].todo : e[1][1] = t[1]

LocksInv ==
  /\ Topmost /\ ReadLocksHeld
  /\ \A t \in Task : /\ Chained(t) /\ Aimed(t) /\ Writers(t) /\ Backed(t) /\ Versions(t)
                     /\ Writing(t)

----------------------------------------------------------------------------
(***************************************************************************)
(* What the invariant says.                                                *)
(***************************************************************************)

LEMMA Entries ==
  ASSUME TypeOK, NEW t \in Task, NEW e
  PROVE  /\ e \in LiveEntries(t) =>
              /\ e \in Ptr /\ e[1] = t /\ e = <<t, e[2]>> /\ e[2] \in 1 .. LogSize
              /\ e[2] \in 1 .. tx[t].write_log /\ e # NULL
         /\ e \in Logged(t) <=> e \in LiveEntries(t) /\ Open(t)
         /\ \A i \in 1 .. tx[t].write_log : <<t, i>> \in LiveEntries(t)
<1>1. tx[t].write_log \in 0 .. LogSize /\ LogSize \in Nat
  BY TaskTyped, Constants DEF TaskState
<1>2. ASSUME e \in LiveEntries(t)
      PROVE  /\ e \in Ptr /\ e[1] = t /\ e = <<t, e[2]>> /\ e[2] \in 1 .. LogSize
             /\ e[2] \in 1 .. tx[t].write_log /\ e # NULL
  <2>1. PICK i \in 1 .. tx[t].write_log : e = <<t, i>>
    BY <1>2 DEF LiveEntries
  <2>2. i \in 1 .. LogSize
    BY <1>1
  <2>3. QED BY <2>1, <2>2, Constants DEF Ptr
<1>3. \A i \in 1 .. tx[t].write_log : <<t, i>> \in LiveEntries(t)
  BY DEF LiveEntries
<1>4. e \in Logged(t) <=> e \in LiveEntries(t) /\ Open(t)
  BY DEF Logged
<1>5. QED BY <1>2, <1>3, <1>4

\* The tasks of a thread whose transactions are open are of one transaction.
LEMMA OneTransaction ==
  ASSUME TypeOK, InOrder, NEW t \in Task, NEW u \in Task, t[1] = u[1], Open(t), Open(u)
  PROVE  /\ start_serial(t) = start_serial(u) /\ commit_serial(t) = commit_serial(u)
         /\ tx[t].serial - t[2] = tx[u].serial - u[2]
<1> DEFINE first == start_serial(Committer(t))
           l == last(t)
<1>1. Committer(u) = Committer(t) /\ last(u) = last(t)
  BY DEF Committer, last, PT
<1>2. /\ start_serial(t) \in {first - SpecDepth, first, first + SpecDepth}
      /\ start_serial(u) \in {first - SpecDepth, first, first + SpecDepth}
      /\ start_serial(t) - 1 <= l /\ start_serial(u) - 1 <= l
  BY <1>1 DEF InOrder, Window, last
<1>3. /\ first \in Int /\ start_serial(t) = tx[t].serial - t[2] /\ start_serial(u) = tx[u].serial - u[2]
      /\ start_serial(t) \in Int /\ start_serial(u) \in Int /\ l \in Int
  BY Numbers DEF start_serial, last
<1>4. l < start_serial(t) + CommitTask /\ l < start_serial(u) + CommitTask
  BY <1>1 DEF Open, commit_serial
<1> HIDE DEF first, l
<1>5. start_serial(t) = start_serial(u)
  BY <1>2, <1>3, <1>4, Constants
<1>6. QED BY <1>3, <1>5 DEF commit_serial

\* A task that works has a transaction that is open.
LEMMA WorksOpen ==
  ASSUME TypeOK, InOrder, NEW t \in Task
  PROVE  /\ tx[t].pc \notin Parked => Open(t) /\ last(t) < tx[t].serial
         /\ tx[t].pc = "committed" => ~ Open(t)
         /\ tx[t].serial <= commit_serial(t)
         /\ last(t) < tx[t].serial => Open(t)
<1>1. /\ tx[t].pc \notin Parked => last(t) < tx[t].serial
      /\ tx[t].pc = "committed" => commit_serial(t) <= last(t)
  BY DEF InOrder, Window, last
<1>2. /\ last(t) \in Nat /\ tx[t].serial \in Nat /\ t[2] \in Nat /\ t[2] <= CommitTask
      /\ commit_serial(t) = tx[t].serial - t[2] + CommitTask /\ CommitTask \in Nat
  BY Numbers, Constants DEF last, commit_serial, start_serial
<1>3. QED BY <1>1, <1>2 DEF Open

\* When the commit task has its turn, the others have completed and wait.
LEMMA CommitTurnOpen ==
  ASSUME TypeOK, InOrder, NEW t \in Task, try_commit(t), tx[t].pc \in Turn,
         NEW u \in Task, u[1] = t[1]
  PROVE  /\ Open(u) /\ start_serial(u) = start_serial(t) /\ Committer(u) = t
         /\ last(u) = tx[t].serial - 1 /\ commit_serial(u) = tx[t].serial
         /\ u # t => tx[u].pc \in Waiting /\ tx[u].serial <= last(u) /\ u[2] < CommitTask
         /\ tx[u].serial = start_serial(t) + u[2]
<1>1. last(u) = tx[t].serial - 1 /\ Committer(u) = t
  BY Numbers DEF InOrder, Window, last, PT, Committer
<1>2. start_serial(u) = start_serial(t) /\ (u # t => tx[u].pc \in Waiting)
  BY CommitTurnAlone
<1>3. /\ tx[u].serial \in Nat /\ tx[t].serial \in Nat /\ u[2] \in Nat /\ u[2] <= CommitTask
      /\ t[2] = CommitTask /\ CommitTask \in Nat
      /\ start_serial(u) = tx[u].serial - u[2] /\ start_serial(t) = tx[t].serial - t[2]
      /\ commit_serial(u) = start_serial(u) + CommitTask
  BY Numbers, Constants DEF start_serial, commit_serial, try_commit
<1>4. u # t => u[2] # CommitTask
  BY <1>1, Numbers DEF try_commit
<1>5. commit_serial(u) = tx[t].serial /\ tx[u].serial = start_serial(t) + u[2]
  <2>1. start_serial(t) = tx[t].serial - CommitTask
    BY <1>3
  <2>2. commit_serial(u) = tx[t].serial - CommitTask + CommitTask
    BY <1>2, <1>3, <2>1
  <2>3. tx[t].serial - CommitTask = tx[u].serial - u[2]
    BY <1>2, <1>3, <2>1
  <2>4. QED BY <1>3, <2>1, <2>2, <2>3
<1>6. u # t => u[2] < CommitTask /\ tx[u].serial <= last(u)
  BY <1>1, <1>3, <1>4, <1>5
<1>7. Open(u)
  BY <1>1, <1>3, <1>5 DEF Open
<1>8. QED BY <1>1, <1>2, <1>5, <1>6, <1>7

----------------------------------------------------------------------------
(***************************************************************************)
(* What a step leaves alone.                                               *)
(***************************************************************************)

SameLogs ==
  \A u \in Task :
    /\ tx'[u].write_log = tx[u].write_log /\ tx'[u].serial = tx[u].serial
    /\ Open(u)' <=> Open(u)
    /\ \A i \in 1 .. tx[u].write_log :
         /\ entry'[u][i].stripe = entry[u][i].stripe /\ entry'[u][i].serial = entry[u][i].serial
         /\ entry'[u][i].old_entry = entry[u][i].old_entry

LEMMA LogsKept ==
  ASSUME TypeOK, SameLogs
  PROVE  /\ \A u \in Task : Logged(u)' = Logged(u)
         /\ \A u \in Task : \A e \in Logged(u) :
              /\ Deref(e)'.stripe = Deref(e).stripe /\ Deref(e)'.serial = Deref(e).serial
              /\ Under(e)' = Under(e)
<1>1. ASSUME NEW u \in Task PROVE Logged(u)' = Logged(u)
  BY DEF SameLogs, Logged, LiveEntries
<1>2. ASSUME NEW u \in Task, NEW e \in Logged(u)
      PROVE  /\ Deref(e)'.stripe = Deref(e).stripe /\ Deref(e)'.serial = Deref(e).serial
             /\ Under(e)' = Under(e)
  <2>1. e[1] = u /\ e[2] \in 1 .. tx[u].write_log
    BY Entries
  <2>2. QED BY <2>1 DEF SameLogs, Deref, Under
<1>3. QED BY <1>1, <1>2

LEMMA ChainsKept ==
  ASSUME TypeOK, SameLogs, \A u \in Task : Chained(u)
  PROVE  \A u \in Task : Chained(u)'
<1> SUFFICES ASSUME NEW t \in Task, NEW e \in Logged(t)'
    PROVE /\ (Deref(e).serial = tx[t].serial /\ Deref(e).stripe \in Stripe)'
          /\ (\A b \in Ptr : Under(e) = b => /\ b \in Logged(b[1]) /\ SameStripe(e, b)
                                             /\ b[1][2] < t[2])'
          /\ (\A u \in Task : \A f \in Logged(u) : SameStripe(e, f) =>
                /\ u = t => f = e
                /\ u[2] < t[2] => \E b \in Ptr : Under(e) = b /\ u[2] <= b[1][2])'
  BY DEF Chained
<1>1. e \in Logged(t) /\ Chained(t)
  BY LogsKept
<1>2. (Deref(e).serial = tx[t].serial /\ Deref(e).stripe \in Stripe)'
  <2>1. Deref(e)'.stripe = Deref(e).stripe /\ Deref(e)'.serial = Deref(e).serial
    BY <1>1, LogsKept
  <2>2. QED BY <1>1, <2>1 DEF Chained, SameLogs
<1>3. ASSUME NEW b \in Ptr, Under(e)' = b
      PROVE  b \in Logged(b[1])' /\ SameStripe(e, b)' /\ b[1][2] < t[2]
  <2>1. Under(e) = b /\ b[1] \in Task
    BY <1>1, <1>3, LogsKept DEF Ptr
  <2>2. b \in Logged(b[1]) /\ SameStripe(e, b) /\ b[1][2] < t[2]
    BY <1>1, <2>1 DEF Chained
  <2>3. QED BY <1>1, <2>1, <2>2, LogsKept DEF SameStripe
<1>4. ASSUME NEW u \in Task, NEW f \in Logged(u)', SameStripe(e, f)'
      PROVE  /\ u = t => f = e
             /\ u[2] < t[2] => \E b \in Ptr : Under(e)' = b /\ u[2] <= b[1][2]
  <2>1. f \in Logged(u)
    BY LogsKept
  <2>2. SameStripe(e, f)
    BY <1>1, <1>4, <2>1, LogsKept DEF SameStripe
  <2>3. /\ u = t => f = e
        /\ u[2] < t[2] => \E b \in Ptr : Under(e) = b /\ u[2] <= b[1][2]
    BY <1>1, <2>1, <2>2 DEF Chained
  <2>4. QED BY <1>1, <2>3, LogsKept
<1>5. QED BY <1>2, <1>3, <1>4

LEMMA TopsKept ==
  ASSUME TypeOK, SameLogs, Topmost, UNCHANGED write_lock,
         \A e \in Ptr : e \in Logged(e[1]) => (Due(e)' <=> Due(e)),
         \A u \in Task : last(u)' \in Nat /\ last(u)' >= last(u)
  PROVE  Topmost'
<1>1. ASSUME NEW s \in Stripe, NEW e \in Ptr, write_lock'[s] = e
      PROVE  e \in Logged(e[1])' /\ Due(e)' /\ Deref(e)'.stripe = s
  <2>1. e \in Logged(e[1]) /\ Due(e) /\ Deref(e).stripe = s /\ e[1] \in Task
    BY <1>1 DEF Topmost, Ptr
  <2>2. QED BY <2>1, LogsKept
<1>2. ASSUME NEW t \in Task, NEW e \in Logged(t)', Due(e)'
      PROVE  \E top \in Ptr : /\ write_lock'[Deref(e)'.stripe] = top /\ top[1][1] = t[1]
                              /\ top # e => t[2] < top[1][2] /\ tx'[t].serial <= last(t)'
  <2>1. e \in Logged(t) /\ Deref(e)'.stripe = Deref(e).stripe
    BY LogsKept
  <2>2. Due(e)
    BY <1>2, <2>1, Entries
  <2>3. PICK top \in Ptr : /\ write_lock[Deref(e).stripe] = top /\ top[1][1] = t[1]
                           /\ top # e => t[2] < top[1][2] /\ tx[t].serial <= last(t)
    BY <2>1, <2>2 DEF Topmost
  <2>4. /\ tx'[t].serial = tx[t].serial /\ last(t)' >= last(t) /\ last(t) \in Nat
        /\ last(t)' \in Nat /\ tx[t].serial \in Nat
    BY Numbers DEF SameLogs, last
  <2>5. tx[t].serial <= last(t) => tx'[t].serial <= last(t)'
    BY <2>4
  <2>6. QED BY <2>1, <2>3, <2>5
<1>3. QED BY <1>1, <1>2 DEF Topmost

LEMMA ReadsKept ==
  ASSUME ReadLocksHeld, UNCHANGED locks,
         \A p \in Thread : tx[<<p, CommitTask>>].pc \in Deciding
                             => tx'[<<p, CommitTask>>].pc \in Deciding
  PROVE  ReadLocksHeld'
BY DEF ReadLocksHeld, locks, PtidOf

LEMMA AimKept ==
  ASSUME TypeOK, NEW u \in Task, Aimed(u),
         \/ tx'[u].pc \notin {"write_locked", "write_cas"}
         \/ tx'[u].pc = tx[u].pc /\ tx'[u].ptr = tx[u].ptr,
         \A v \in Task : tx'[v].serial = tx[v].serial,
         \A v \in Task : \A i \in 1 .. LogSize :
           entry'[v][i].serial \in {entry[v][i].serial, tx[v].serial},
         last(u) \in Nat, last(u)' \in Nat, last(u)' >= last(u)
  PROVE  Aimed(u)'
<1>1. ASSUME NEW b \in Ptr, tx'[u].ptr = b, tx'[u].pc \in {"write_locked", "write_cas"}, b[1][1] = u[1]
      PROVE  start_serial(b[1])' = start_serial(u)' /\ Deref(b)'.serial = tx'[b[1]].serial
  <2>1. b[1] \in Task /\ b[2] \in 1 .. LogSize
    BY DEF Ptr
  <2>2. start_serial(b[1]) = start_serial(u) /\ Deref(b).serial = tx[b[1]].serial
    BY <1>1 DEF Aimed
  <2>3. entry'[b[1]][b[2]].serial \in {entry[b[1]][b[2]].serial, tx[b[1]].serial}
    BY <2>1
  <2>4. tx'[b[1]].serial = tx[b[1]].serial /\ tx'[u].serial = tx[u].serial
    BY <2>1
  <2>5. QED BY <2>2, <2>3, <2>4 DEF Deref, start_serial
<1>2. ASSUME NEW b \in Ptr, tx'[u].ptr = b, tx'[u].pc = "write_cas"
      PROVE  b[1][1] = u[1] /\ tx'[b[1]].serial <= last(u)'
  <2>1. b[1] \in Task
    BY DEF Ptr
  <2>2. /\ tx[u].ptr = b /\ tx[u].pc = "write_cas" /\ tx'[b[1]].serial = tx[b[1]].serial
        /\ tx[b[1]].serial \in Nat
    BY <1>2, <2>1, Numbers
  <2>3. b[1][1] = u[1] /\ tx[b[1]].serial <= last(u)
    BY <2>2 DEF Aimed
  <2>4. QED BY <2>2, <2>3
<1>3. QED BY <1>1, <1>2 DEF Aimed

LEMMA WritersKept ==
  ASSUME TypeOK, NEW u \in Task, Writers(u), tx'[u].pc = tx[u].pc, tx'[u].serial = tx[u].serial,
         tx'[u].write_log = tx[u].write_log, tx'[u].read_only = tx[u].read_only,
         last(u)' = last(u),
         PT(u)'.last_completed_writer = PT(u).last_completed_writer
  PROVE  Writers(u)'
BY DEF Writers, Open, commit_serial, start_serial

LEMMA VersionsKept ==
  ASSUME TypeOK, NEW u \in Task, Versions(u), tx'[u].pc = tx[u].pc, tx'[u].serial = tx[u].serial,
         tx'[u].write_log = tx[u].write_log, tx'[u].ip = tx[u].ip, tx'[u].version = tx[u].version,
         Logged(u)' = Logged(u),
         \A i \in 1 .. tx[u].write_log : /\ entry'[u][i].stripe = entry[u][i].stripe
                                         /\ entry'[u][i].old_version = entry[u][i].old_version
  PROVE  Versions(u)'
<1>1. \A e \in Logged(u) : Deref(e)'.old_version = Deref(e).old_version
  BY Entries DEF Deref
<1>2. Op(u)' = Op(u)
  BY DEF Op, Ops
<1>3. tx[u].write_log # 0 => tx[u].write_log \in 1 .. tx[u].write_log
  BY TaskTyped DEF TaskState
<1>4. QED BY <1>1, <1>2, <1>3 DEF Versions

SameCounts == \A p \in Thread :
  /\ prog_thread'[p].last_completed_task = prog_thread[p].last_completed_task
  /\ prog_thread'[p].last_completed_writer = prog_thread[p].last_completed_writer

\* The record r follows tx[t], and owes nothing to the log it has.
Follows(t, r) ==
  /\ r.serial = tx[t].serial /\ r.write_log = tx[t].write_log /\ r.todo = tx[t].todo
  /\ {tx[t].pc, r.pc} \cap {"write_back", "commit_done"} = {}
  /\ tx[t].pc \in Deciding => r.pc \in Deciding
  /\ tx[t].pc \in {"write_extend", "restart"} => r.pc = "restart"
  /\ r.pc # "write_extend"
  /\ r.pc \in Committing /\ r.read_only => tx[t].write_log = 0
  /\ r.pc \in {"progress", "await_commit"} => tx[t].pc \in {"progress", "await_commit"}
  /\ r.pc = "validate_commit" => r.version # READ_LOCK_SET
  /\ r.pc \in Agreed \cup {"rollback"} => tx[t].pc \in Committing \cup {"rollback_turn"}

\* A step of t that leaves all locks and all logs as they are.
Move(t) ==
  /\ UNCHANGED locks /\ SameCounts
  /\ \A u \in Task : u # t =>
       /\ tx'[u].pc = tx[u].pc /\ tx'[u].ptr = tx[u].ptr /\ tx'[u].read_only = tx[u].read_only
       /\ tx'[u].ip = tx[u].ip /\ tx'[u].version = tx[u].version
       /\ tx'[u].serial = tx[u].serial /\ tx'[u].write_log = tx[u].write_log
       /\ tx'[u].todo = tx[u].todo
  /\ \A u \in Task : \A i \in 1 .. tx[u].write_log :
       /\ entry'[u][i].stripe = entry[u][i].stripe /\ entry'[u][i].serial = entry[u][i].serial
       /\ entry'[u][i].old_entry = entry[u][i].old_entry
       /\ entry'[u][i].old_version = entry[u][i].old_version
  /\ \A u \in Task : \A i \in 1 .. LogSize :
       entry'[u][i].serial \in {entry[u][i].serial, tx[u].serial}
  /\ Follows(t, tx'[t])
  /\ tx'[t].pc \notin {"write_locked", "write_cas"} \/ Aimed(t)'

\* The part of the invariant that is about locks and logs.
LogsInv == /\ Topmost /\ ReadLocksHeld
           /\ \A t \in Task : Chained(t) /\ Aimed(t) /\ Writers(t) /\ Versions(t) /\ Writing(t)

LEMMA MoveKeeps ==
  ASSUME TypeOK, LogsInv, NEW t \in Task, Move(t)
  PROVE  LogsInv'
<1>1. \A u \in Task : /\ last(u)' = last(u) /\ last(u) \in Nat
                      /\ PT(u)'.last_completed_writer = PT(u).last_completed_writer
  <2>1. ASSUME NEW u \in Task PROVE u[1] \in Thread /\ last(u) \in Nat
    BY Numbers DEF last
  <2>2. QED BY <2>1 DEF Move, SameCounts, last, PT
<1>2. \A u \in Task : /\ tx'[u].serial = tx[u].serial /\ tx'[u].write_log = tx[u].write_log
                      /\ tx'[u].todo = tx[u].todo
  BY DEF Move, Follows
<1>3. SameLogs
  <2>1. \A u \in Task : Open(u)' <=> Open(u)
    BY <1>1, <1>2 DEF Open, commit_serial, start_serial
  <2>2. QED BY <1>2, <2>1 DEF SameLogs, Move
<1>4. \A u \in Task : Chained(u)'
  BY <1>3, ChainsKept DEF LogsInv
<1>5. Topmost'
  <2>1. ASSUME NEW e \in Ptr PROVE Due(e)' <=> Due(e)
    <3>1. Committer(e[1]) \in Task
      BY Numbers DEF Ptr
    <3>2. CASE Committer(e[1]) = t
      BY <3>1, <3>2 DEF Due, Move, Follows, Committer
    <3>3. CASE Committer(e[1]) # t
      BY <1>2, <3>1, <3>3 DEF Due, Move, Committer
    <3>4. QED BY <3>2, <3>3
  <2>2. \A u \in Task : last(u)' \in Nat /\ last(u)' >= last(u)
    BY <1>1
  <2>3. UNCHANGED write_lock
    BY DEF Move, locks
  <2>4. QED BY <1>3, <2>1, <2>2, <2>3, TopsKept DEF LogsInv
<1>6. ReadLocksHeld'
  <2>1. ASSUME NEW p \in Thread, tx[<<p, CommitTask>>].pc \in Deciding
        PROVE  tx'[<<p, CommitTask>>].pc \in Deciding
    <3>1. <<p, CommitTask>> \in Task
      BY Constants DEF Task, CommitTask
    <3>2. QED BY <2>1, <3>1 DEF Move, Follows
  <2>2. QED BY <2>1, ReadsKept DEF LogsInv, Move
<1>7. ASSUME NEW u \in Task PROVE Aimed(u)'
  <2>1. CASE u = t /\ Aimed(t)'
    BY <2>1
  <2>2. CASE u # t \/ tx'[t].pc \notin {"write_locked", "write_cas"}
    <3>1. \/ tx'[u].pc \notin {"write_locked", "write_cas"}
          \/ tx'[u].pc = tx[u].pc /\ tx'[u].ptr = tx[u].ptr
      BY <2>2 DEF Move
    <3>2. \A v \in Task : \A i \in 1 .. LogSize :
            entry'[v][i].serial \in {entry[v][i].serial, tx[v].serial}
      BY DEF Move
    <3>3. Aimed(u) /\ last(u) \in Nat /\ last(u)' \in Nat /\ last(u)' >= last(u)
      BY <1>1 DEF LogsInv
    <3>4. QED BY <1>2, <3>1, <3>2, <3>3, AimKept
  <2>3. QED BY <2>1, <2>2 DEF Move
<1>8. ASSUME NEW u \in Task PROVE Writers(u)'
  <2>1. CASE u # t
    BY <1>1, <1>2, <2>1, WritersKept DEF LogsInv, Move
  <2>2. CASE u = t
    <3>1. tx'[t].pc \in Committing /\ tx'[t].read_only => tx'[t].write_log = 0
      BY DEF Move, Follows
    <3>2. tx'[t].pc \in {"progress", "await_commit"} => tx[t].pc \in {"progress", "await_commit"}
      BY DEF Move, Follows
    <3>3. Writers(t) /\ (Open(t)' <=> Open(t)) /\ start_serial(t)' = start_serial(t)
      BY <1>2, <1>3 DEF LogsInv, SameLogs, start_serial
    <3>4. QED BY <1>1, <1>2, <2>2, <3>1, <3>2, <3>3 DEF Writers
  <2>3. QED BY <2>1, <2>2
<1>9. ASSUME NEW u \in Task PROVE Versions(u)'
  <2>1. Logged(u)' = Logged(u) /\ Versions(u)
    BY <1>3, LogsKept DEF LogsInv
  <2>2. \A i \in 1 .. tx[u].write_log : /\ entry'[u][i].stripe = entry[u][i].stripe
                                        /\ entry'[u][i].old_version = entry[u][i].old_version
    BY DEF Move
  <2>3. CASE u # t
    BY <1>2, <2>1, <2>2, <2>3, VersionsKept DEF Move
  <2>4. CASE u = t
    <3>1. \A e \in Logged(u) : Deref(e)'.old_version = Deref(e).old_version
      BY <2>2, Entries DEF Deref
    <3>2. /\ tx[t].pc \in {"write_extend", "restart"} => tx'[t].pc = "restart"
          /\ tx'[t].pc # "write_extend" /\ tx'[t].pc # "write_back"
          /\ tx'[t].pc = "validate_commit" => tx'[t].version # READ_LOCK_SET
      BY DEF Move, Follows
    <3>3. QED BY <1>2, <2>1, <2>4, <3>1, <3>2 DEF Versions
  <2>5. QED BY <2>3, <2>4
<1>10. ASSUME NEW u \in Task PROVE Writing(u)'
  <2>1. u = t => tx'[u].pc # "write_back"
    BY DEF Move, Follows
  <2>2. u # t => tx'[u].pc = tx[u].pc /\ tx'[u].todo = tx[u].todo
    BY DEF Move
  <2>3. QED BY <2>1, <2>2 DEF LogsInv, Writing
<1>11. QED BY <1>4, <1>5, <1>6, <1>7, <1>8, <1>9, <1>10 DEF LogsInv

\* A step that replaces the record of t.
LEMMA BecomeMove ==
  ASSUME TypeOK, NEW t \in Task, NEW r, Become(t, r), UNCHANGED <<entry, locks>>, SameCounts,
         Follows(t, r), r.pc \notin {"write_locked", "write_cas"} \/ Aimed(t)'
  PROVE  Move(t)
<1>1. tx'[t] = r /\ \A u \in Task : u # t => tx'[u] = tx[u]
  BY DEF Become, TypeOK
<1>2. QED BY <1>1 DEF Move

\* The record r is tx[t] but for the pc, registers and what has been read.
Like(t, r) == /\ r.serial = tx[t].serial /\ r.write_log = tx[t].write_log
              /\ r.todo = tx[t].todo /\ r.read_only = tx[t].read_only

\* The pcs at which nothing is required of a task, and those that may be left for them.
Loose == PC \ (Committing \cup {"write_extend", "write_locked", "write_cas", "rollback"})
Bound == Deciding \cup {"write_extend", "restart", "commit_done"}

LEMMA LooseFollows ==
  ASSUME NEW t, NEW r, Like(t, r), r.pc \in Loose,
         tx[t].pc \notin Bound \/ (tx[t].pc \in {"write_extend", "restart"} /\ r.pc = "restart")
  PROVE  Follows(t, r) /\ r.pc \notin {"write_locked", "write_cas"}
BY DEF Follows, Like, Loose, Bound, Deciding, Committing, Agreed

LEMMA LooseMove ==
  ASSUME TypeOK, NEW t \in Task, NEW r, Become(t, r), UNCHANGED <<entry, locks>>, SameCounts,
         Like(t, r), r.pc \in Loose, tx[t].pc \notin Bound
  PROVE  Move(t)
BY LooseFollows, BecomeMove

LEMMA LoosePcs ==
  /\ {"start", "run", "read_task", "read_version", "read_value", "read_log", "read_extend",
      "write_load", "abort_other", "abort_self", "abort_decided", "restart", "rollback_turn",
      "rollback_clear", "rollback_valid", "rollback_signal", "ready", "ready_turn",
      "ready_wait"} \subseteq Loose
  /\ \A t : AbortPc(t) \in Loose
BY DEF Loose, PC, Committing, AbortPc

LEMMA GotoIs ==
  ASSUME TypeOK, NEW t \in Task, NEW pc, Goto(t, pc)
  PROVE  \E r : Become(t, r) /\ r.pc = pc /\ Like(t, r) /\ r.version = tx[t].version
                /\ r.ptr = tx[t].ptr /\ r.ip = tx[t].ip
<1> DEFINE r == [tx[t] EXCEPT !.pc = pc]
<1>1. Become(t, r)
  BY DEF Goto
<1>2. r.pc = pc /\ Like(t, r) /\ r.version = tx[t].version /\ r.ptr = tx[t].ptr /\ r.ip = tx[t].ip
  BY TaskTyped DEF TaskState, Like
<1> HIDE DEF r
<1>3. QED BY <1>1, <1>2

LEMMA GotoLoose ==
  ASSUME TypeOK, NEW t \in Task, NEW pc \in Loose, Goto(t, pc), UNCHANGED <<entry, locks>>,
         SameCounts, tx[t].pc \notin Bound
  PROVE  Move(t)
<1>1. PICK r : Become(t, r) /\ r.pc = pc /\ Like(t, r)
  BY GotoIs
<1>2. QED BY <1>1, LooseMove

LEMMA NextOpLike ==
  ASSUME NEW t \in Task, NEW r \in TaskState, Like(t, r), NEW v
  PROVE  /\ Like(t, NextOp(r)) /\ NextOp(r).pc = "run"
         /\ Like(t, Returned(r, v)) /\ Returned(r, v).pc = "run"
BY DEF NextOp, Returned, TaskState, Like

LEMMA NoCount == UNCHANGED prog_thread => SameCounts
BY DEF SameCounts

LEMMA UpdateCounts ==
  ASSUME TypeOK, NEW t \in Task, NEW r, UpdatePT(t, r),
         r.last_completed_task = PT(t).last_completed_task,
         r.last_completed_writer = PT(t).last_completed_writer
  PROVE  SameCounts
BY DEF SameCounts, UpdatePT, PT, TypeOK

----------------------------------------------------------------------------
(***************************************************************************)
(* The steps that are moves.                                               *)
(***************************************************************************)

Alike(r, s) == /\ r.pc = s.pc /\ r.ptr = s.ptr /\ r.read_only = s.read_only /\ r.ip = s.ip
               /\ r.version = s.version /\ r.serial = s.serial /\ r.write_log = s.write_log
               /\ r.todo = s.todo

LEMMA FlagAlike ==
  ASSUME NEW r \in TaskState, NEW b \in BOOLEAN, NEW i \in Nat
  PROVE  /\ Alike([r EXCEPT !.abort_task = b], r) /\ Alike([r EXCEPT !.abort_transaction = b], r)
         /\ Alike([r EXCEPT !.aborting_transaction = b], r) /\ Alike([r EXCEPT !.i = i], r)
BY DEF Alike, TaskState

\* A step of t that raises or clears flags of other tasks.
LEMMA FlagsMove ==
  ASSUME TypeOK, NEW t \in Task, UNCHANGED <<entry, locks>>, SameCounts,
         \A u \in Task : u # t => Alike(tx'[u], tx[u]),
         Follows(t, tx'[t]), tx'[t].pc \notin {"write_locked", "write_cas"}
  PROVE  Move(t)
BY DEF Move, Alike

LEMMA FlagThenPc ==
  ASSUME TypeOK, NEW t \in Task, NEW v, NEW b \in BOOLEAN, NEW i, NEW pc, NEW f,
         f = [tx EXCEPT ![v].abort_transaction = b],
         tx' = [f EXCEPT ![t] = [f[t] EXCEPT !.i = i, !.pc = pc]]
  PROVE  /\ tx'[t].pc = pc /\ Like(t, tx'[t])
         /\ \A u \in Task : u # t => Alike(tx'[u], tx[u])
<1> DEFINE r == [f[t] EXCEPT !.i = i, !.pc = pc]
<1>1. DOMAIN f = Task /\ \A u \in Task : /\ tx[u] \in TaskState
                                         /\ f[u] \in {tx[u], [tx[u] EXCEPT !.abort_transaction = b]}
  BY TaskTyped DEF TypeOK
<1>2. tx'[t] = r /\ \A u \in Task : u # t => tx'[u] = f[u]
  BY <1>1
<1>3. \A u \in Task : Alike(f[u], tx[u]) /\ f[u] \in TaskState
  <2>1. \A u \in Task : Alike(f[u], tx[u])
    BY <1>1, FlagAlike DEF Alike
  <2>2. \A u \in Task : f[u] \in TaskState
    BY FlagSame
  <2>3. QED BY <2>1, <2>2
<1>4. r.pc = pc /\ r.serial = f[t].serial /\ r.write_log = f[t].write_log
      /\ r.todo = f[t].todo /\ r.read_only = f[t].read_only
  BY <1>3 DEF TaskState
<1> HIDE DEF r
<1>5. tx'[t].pc = pc /\ Like(t, tx'[t])
  BY <1>2, <1>3, <1>4 DEF Like, Alike
<1>6. \A u \in Task : u # t => Alike(tx'[u], tx[u])
  BY <1>2, <1>3
<1>7. QED BY <1>5, <1>6

LEMMA StartMove ==
  ASSUME TypeOK, NEW t \in Task, TxStart(t) \/ Skip(t) PROVE Move(t)
<1>1. tx[t] \in TaskState /\ tx[t].pc \notin Bound /\ "run" \in Loose
  BY TaskTyped, LoosePcs DEF TxStart, Skip, At, Bound, Deciding
<1>2. SameCounts /\ UNCHANGED <<entry, locks>>
  BY NoCount DEF TxStart, Skip
<1>3. CASE TxStart(t)
  <2> DEFINE r == [tx[t] EXCEPT !.pc = "run", !.abort_task = FALSE,
                                !.last_writer = PT(t).last_completed_writer]
  <2>1. Become(t, r)
    BY <1>3 DEF TxStart
  <2>2. r.pc = "run" /\ Like(t, r)
    BY <1>1 DEF TaskState, Like
  <2> HIDE DEF r
  <2>3. QED BY <1>1, <1>2, <2>1, <2>2, LooseMove
<1>4. CASE Skip(t)
  <2>1. Like(t, tx[t])
    BY DEF Like
  <2>2. QED BY <1>1, <1>2, <1>4, <2>1, NextOpLike, LooseMove DEF Skip
<1>5. QED BY <1>3, <1>4

LEMMA ReadsMove == ASSUME TypeOK, NEW t \in Task, Reads(t) PROVE Move(t)
<1>1. tx[t] \in TaskState /\ Like(t, tx[t])
  BY TaskTyped DEF Like
<1>2. tx[t].pc \notin Bound
  BY DEF Reads, ReadWord, Doing, ReadTaskAbort, ReadTask, ReadVersion, ReadValue,
         ReadLog, ReadExtend, At, Bound, Deciding
<1>3. {"run", "restart", "read_version", "read_task", "read_value", "read_log", "read_extend"}
        \subseteq Loose /\ AbortPc(t) \in Loose
  BY LoosePcs
<1>4. CASE ReadWord(t)
  <2> DEFINE a == Op(t).addr
             top == write_lock[StripeOf[a]]
             e == UpTo(top, tx[t].serial)
             r == [tx[t] EXCEPT !.pc = "read_task", !.ptr = e]
  <2>1. SameCounts /\ UNCHANGED <<entry, locks>>
    BY <1>4, NoCount DEF ReadWord
  <2>2. Goto(t, "read_version") \/ Become(t, Returned(tx[t], ChainValue(e, a))) \/ Become(t, r)
    BY <1>4 DEF ReadWord
  <2> HIDE DEF e
  <2>3. CASE Goto(t, "read_version")
    BY <1>2, <1>3, <2>1, <2>3, GotoLoose
  <2>4. CASE Become(t, Returned(tx[t], ChainValue(e, a)))
    BY <1>1, <1>2, <1>3, <2>1, <2>4, NextOpLike, LooseMove
  <2>5. CASE Become(t, r)
    <3>1. r.pc = "read_task" /\ Like(t, r)
      BY <1>1 DEF TaskState, Like
    <3> HIDE DEF r
    <3>2. QED BY <1>2, <1>3, <2>1, <2>5, <3>1, LooseMove
  <2>6. QED BY <2>2, <2>3, <2>4, <2>5
<1>5. CASE ReadTaskAbort(t)
  <2>1. SameCounts /\ UNCHANGED <<entry, locks>>
    BY <1>5, NoCount DEF ReadTaskAbort
  <2>2. PICK pc \in {"restart", AbortPc(t)} : Goto(t, pc)
    BY <1>5 DEF ReadTaskAbort
  <2>3. pc \in Loose
    BY <1>3
  <2>4. QED BY <1>2, <2>1, <2>2, <2>3, GotoLoose
<1>6. CASE ReadTask(t)
  <2> DEFINE a == Op(t).addr
             log == tx[t].task_read_log \cup
                      {[stripe |-> StripeOf[a], serial |-> Deref(tx[t].ptr).serial]}
             logged == [tx[t] EXCEPT !.task_read_log = log]
             lw == PT(t).last_completed_writer
             late == [logged EXCEPT !.pc = "restart"]
             lw2 == IF lw > logged.last_writer THEN lw ELSE logged.last_writer
             noted == [logged EXCEPT !.last_writer = lw2]
             back == Returned(noted, ChainValue(tx[t].ptr, a))
  <2>1. SameCounts /\ UNCHANGED <<entry, locks>>
    BY <1>6, NoCount DEF ReadTask
  <2>2. Become(t, late) \/ Become(t, back)
    BY <1>6 DEF ReadTask
  <2> HIDE DEF log
  <2>3. late.pc = "restart" /\ Like(t, late)
    BY <1>1 DEF TaskState, Like
  <2> HIDE DEF lw2
  <2>4. back.pc = "run" /\ Like(t, back)
    BY <1>1 DEF TaskState, Returned, NextOp, Like
  <2> HIDE DEF late, back
  <2>5. QED BY <1>2, <1>3, <2>1, <2>2, <2>3, <2>4, LooseMove
<1>7. CASE ReadVersion(t)
  <2> DEFINE r == [tx[t] EXCEPT !.pc = "read_value", !.version = read_lock[StripeOf[Op(t).addr]]]
  <2>1. SameCounts /\ UNCHANGED <<entry, locks>> /\ Become(t, r)
    BY <1>7, NoCount DEF ReadVersion
  <2>2. r.pc = "read_value" /\ Like(t, r)
    BY <1>1 DEF TaskState, Like
  <2> HIDE DEF r
  <2>3. QED BY <1>2, <1>3, <2>1, <2>2, LooseMove
<1>8. CASE ReadValue(t)
  <2> DEFINE r == [tx[t] EXCEPT !.pc = "read_log", !.value = memory[Op(t).addr]]
  <2>1. SameCounts /\ UNCHANGED <<entry, locks>> /\ (Become(t, r) \/ Goto(t, "read_version"))
    BY <1>8, NoCount DEF ReadValue
  <2>2. r.pc = "read_log" /\ Like(t, r)
    BY <1>1 DEF TaskState, Like
  <2> HIDE DEF r
  <2>3. QED BY <1>2, <1>3, <2>1, <2>2, LooseMove, GotoLoose
<1>9. CASE ReadLog(t)
  <2> DEFINE log == tx[t].read_log \cup {[stripe |-> StripeOf[Op(t).addr], version |-> tx[t].version]}
             r == [tx[t] EXCEPT !.pc = "read_extend", !.read_log = log]
  <2>1. SameCounts /\ UNCHANGED <<entry, locks>> /\ Become(t, r)
    BY <1>9, NoCount DEF ReadLog
  <2> HIDE DEF log
  <2>2. r.pc = "read_extend" /\ Like(t, r)
    BY <1>1 DEF TaskState, Like
  <2> HIDE DEF r
  <2>3. QED BY <1>2, <1>3, <2>1, <2>2, LooseMove
<1>10. CASE ReadExtend(t)
  <2> DEFINE q == [PT(t) EXCEPT !.requires_validation = @ \/ ShouldExtend(t, tx[t].version)]
  <2>1. UpdatePT(t, q) /\ Become(t, Returned(tx[t], tx[t].value)) /\ UNCHANGED <<entry, locks>>
    BY <1>10 DEF ReadExtend
  <2>2. /\ q.last_completed_task = PT(t).last_completed_task
        /\ q.last_completed_writer = PT(t).last_completed_writer
    BY TaskTyped DEF ThreadState
  <2> HIDE DEF q
  <2>3. SameCounts
    BY <2>1, <2>2, UpdateCounts
  <2>4. QED BY <1>1, <1>2, <1>3, <2>1, <2>3, NextOpLike, LooseMove
<1>11. QED BY <1>4, <1>5, <1>6, <1>7, <1>8, <1>9, <1>10 DEF Reads

\* The entry on top of a lock that this thread holds.
LEMMA OwnTop ==
  ASSUME TypeOK, InOrder, Topmost, NEW t \in Task, Open(t), NEW s \in Stripe, NEW b \in Ptr,
         write_lock[s] = b, b[1][1] = t[1], \A u \in Task : Chained(u)
  PROVE  /\ b[1] \in Task /\ b \in LiveEntries(b[1]) /\ Open(b[1])
         /\ start_serial(b[1]) = start_serial(t) /\ Deref(b).serial = tx[b[1]].serial
<1>1. b[1] \in Task
  BY DEF Ptr
<1>2. b \in Logged(b[1])
  BY DEF Topmost
<1>3. b \in LiveEntries(b[1]) /\ Open(b[1])
  BY <1>1, <1>2, Entries
<1>4. Deref(b).serial = tx[b[1]].serial
  BY <1>1, <1>2 DEF Chained
<1>5. QED BY <1>1, <1>3, <1>4, OneTransaction

LEMMA WriteLoadMove ==
  ASSUME TypeOK, InOrder, LogsInv, NEW t \in Task, WriteLoad(t) PROVE Move(t)
<1> DEFINE a == Op(t).addr
           s == StripeOf[a]
           top == write_lock[s]
           pc == IF top = NULL THEN "write_cas" ELSE "write_locked"
           r == [tx[t] EXCEPT !.ptr = top, !.pc = pc]
<1>1. /\ tx[t] \in TaskState /\ tx[t].pc = "write_load" /\ tx[t].pc \notin Bound /\ "run" \in Loose
      /\ SameCounts /\ UNCHANGED locks
  BY TaskTyped, LoosePcs, NoCount DEF WriteLoad, At, Bound, Deciding
<1>2. s \in Stripe /\ a \in Addr /\ top \in Ptr \cup {NULL}
  <2>1. a \in Addr
    BY <1>1, AccessingOp DEF Accessing
  <2>2. QED BY <2>1, Constants DEF TypeOK
<1>3. CASE entry' = [entry EXCEPT ![top[1]][top[2]].words[a] = NewValue(t)]
           /\ Become(t, NextOp(tx[t]))
  <2> DEFINE word == NewValue(t)
  <2>1. \A u \in Task : \A i \in 1 .. LogSize :
          \/ entry'[u][i] = entry[u][i]
          \/ entry'[u][i] = [entry[u][i] EXCEPT !.words[a] = word]
    <3>1. entry' = [entry EXCEPT ![top[1]][top[2]].words[a] = word]
      BY <1>3
    <3> HIDE DEF word, top, a
    <3>2. QED BY <3>1 DEF TypeOK
  <2>2. \A u \in Task : \A i \in 1 .. LogSize : entry[u][i] \in Entry
    BY DEF TypeOK
  <2>3. \A u \in Task : \A i \in 1 .. LogSize :
          /\ entry'[u][i].stripe = entry[u][i].stripe /\ entry'[u][i].serial = entry[u][i].serial
          /\ entry'[u][i].old_entry = entry[u][i].old_entry
          /\ entry'[u][i].old_version = entry[u][i].old_version
    <3> HIDE DEF word, a
    <3>1. \A e \in Entry : LET f == [e EXCEPT !.words[a] = word]
                          IN /\ f.stripe = e.stripe /\ f.serial = e.serial
                             /\ f.old_entry = e.old_entry /\ f.old_version = e.old_version
      BY DEF Entry
    <3>2. ASSUME NEW u \in Task, NEW i \in 1 .. LogSize
          PROVE  /\ entry'[u][i].stripe = entry[u][i].stripe /\ entry'[u][i].serial = entry[u][i].serial
                 /\ entry'[u][i].old_entry = entry[u][i].old_entry
                 /\ entry'[u][i].old_version = entry[u][i].old_version
      BY <2>1, <2>2, <3>1
    <3>3. QED BY <3>2
  <2>4. \A u \in Task : \A i \in 1 .. tx[u].write_log : i \in 1 .. LogSize
    BY TaskTyped, Constants DEF TaskState
  <2>5. Like(t, tx[t])
    BY DEF Like
  <2>6. Like(t, NextOp(tx[t])) /\ NextOp(tx[t]).pc = "run"
    BY <1>1, <2>5, NextOpLike
  <2>7. Follows(t, NextOp(tx[t]))
    BY <1>1, <2>6, LooseFollows
  <2>8. tx'[t] = NextOp(tx[t]) /\ \A u \in Task : u # t => tx'[u] = tx[u]
    BY <1>3 DEF Become, TypeOK
  <2>9. \A u \in Task : \A i \in 1 .. tx[u].write_log :
          /\ entry'[u][i].stripe = entry[u][i].stripe /\ entry'[u][i].serial = entry[u][i].serial
          /\ entry'[u][i].old_entry = entry[u][i].old_entry
          /\ entry'[u][i].old_version = entry[u][i].old_version
    BY <2>3, <2>4
  <2>10. tx'[t].pc \notin {"write_locked", "write_cas"}
    BY <2>6, <2>8
  <2>11. QED BY <1>1, <2>3, <2>7, <2>8, <2>9, <2>10 DEF Move
<1>4. CASE Become(t, r) /\ UNCHANGED entry
  <2>1. pc \in {"write_cas", "write_locked"}
    OBVIOUS
  <2>2. /\ r.pc = pc /\ r.ptr = top /\ Like(t, r)
    <3> HIDE DEF pc, top
    <3>1. QED BY <1>1 DEF TaskState, Like
  <2> HIDE DEF r
  <2>3. Follows(t, r)
    BY <1>1, <2>1, <2>2 DEF Follows, Like, Deciding, Committing, Agreed
  <2>4. Open(t)
    BY <1>1, WorksOpen DEF Parked
  <2>5. Aimed(t)'
    <3>1. tx'[t] = r /\ (\A u \in Task : u # t => tx'[u] = tx[u])
      BY <1>4 DEF Become, TypeOK
    <3>2. \A u \in Task : tx'[u].serial = tx[u].serial
      BY <2>2, <3>1 DEF Like
    <3>3. ASSUME NEW b \in Ptr, tx'[t].ptr = b, b[1][1] = t[1]
          PROVE start_serial(b[1])' = start_serial(t)' /\ Deref(b)'.serial = tx'[b[1]].serial
      <4>1. write_lock[s] = b /\ b[1] \in Task
        BY <2>2, <3>1, <3>3 DEF Ptr
      <4>2. start_serial(b[1]) = start_serial(t) /\ Deref(b).serial = tx[b[1]].serial
        BY <1>2, <2>4, <3>3, <4>1, OwnTop DEF LogsInv
      <4>3. Deref(b)' = Deref(b)
        BY <1>4 DEF Deref
      <4>4. QED BY <3>2, <4>1, <4>2, <4>3 DEF start_serial
    <3>4. ASSUME NEW b \in Ptr, tx'[t].ptr = b PROVE tx'[t].pc # "write_cas"
      <4>1. top # NULL
        BY <2>2, <3>1, <3>4, Constants
      <4>2. QED BY <2>2, <3>1, <4>1
    <3>5. QED BY <3>3, <3>4 DEF Aimed
  <2>6. QED BY <1>1, <1>4, <2>3, <2>5, BecomeMove
<1>5. QED BY <1>3, <1>4 DEF WriteLoad

LEMMA WriteConflictMove == ASSUME TypeOK, NEW t \in Task, WriteConflict(t) PROVE Move(t)
<1> DEFINE e == write_lock[StripeOf[Op(t).addr]]
           p == t[1]
           q == PtidOf(e)
           mine == prog_thread[p].progress
           theirs == prog_thread[q].progress
           pc == IF theirs < mine \/ (theirs = mine /\ CMStrongerThan(p, q))
                 THEN "abort_other" ELSE "abort_self"
           r == [tx[t] EXCEPT !.ptr = e, !.i = 0, !.pc = pc]
<1>1. /\ tx[t] \in TaskState /\ tx[t].pc \notin Bound
      /\ {"write_load", "abort_other", "abort_self"} \subseteq Loose /\ AbortPc(t) \in Loose
  BY TaskTyped, LoosePcs DEF WriteConflict, At, Bound, Deciding
<1>2. SameCounts /\ UNCHANGED <<entry, locks>>
      /\ (Goto(t, AbortPc(t)) \/ Goto(t, "write_load") \/ Become(t, r))
  BY NoCount DEF WriteConflict
<1>3. CASE Goto(t, AbortPc(t)) \/ Goto(t, "write_load")
  BY <1>1, <1>2, <1>3, GotoLoose
<1>4. CASE Become(t, r)
  <2>1. pc \in Loose
    BY <1>1
  <2> HIDE DEF pc, e
  <2>2. r.pc = pc /\ Like(t, r)
    BY <1>1 DEF TaskState, Like
  <2> HIDE DEF r
  <2>3. QED BY <1>1, <1>2, <1>4, <2>1, <2>2, LooseMove
<1>5. QED BY <1>2, <1>3, <1>4

LEMMA SignalMove == ASSUME TypeOK, NEW t \in Task, SignalAbort(t) PROVE Move(t)
<1> DEFINE p == Loser(t)
           next == IF At(t, "abort_self") THEN "abort_decided" ELSE "write_load"
           f == [tx EXCEPT ![<<p, tx[t].i>>].abort_transaction = TRUE]
           i2 == IF f[t].i = CommitTask THEN 0 ELSE f[t].i + 1
           pc2 == IF tx[t].i = CommitTask THEN next ELSE f[t].pc
<1>1. /\ SameCounts /\ UNCHANGED <<entry, locks>> /\ tx[t].pc \in {"abort_self", "abort_other"}
      /\ next \in {"abort_decided", "write_load"}
  BY NoCount DEF SignalAbort
<1>2. tx' = [tx EXCEPT ![<<p, tx[t].i>>].abort_transaction = TRUE,
                       ![t].i = IF @ = CommitTask THEN 0 ELSE @ + 1,
                       ![t].pc = IF tx[t].i = CommitTask THEN next ELSE @]
  BY DEF SignalAbort
<1> HIDE DEF p, next
<1>3. f[t].pc = tx[t].pc
  BY FlagSame
<1>4. tx' = [f EXCEPT ![t] = [f[t] EXCEPT !.i = i2, !.pc = pc2]]
  BY <1>2
<1>5. pc2 \in {"abort_decided", "write_load", "abort_self", "abort_other"}
  BY <1>1, <1>3
<1> DEFINE g == f
<1>6. g = [tx EXCEPT ![<<p, tx[t].i>>].abort_transaction = TRUE]
      /\ tx' = [g EXCEPT ![t] = [g[t] EXCEPT !.i = i2, !.pc = pc2]]
  BY <1>4
<1> HIDE DEF g, f, i2, pc2
<1>7. tx'[t].pc = pc2 /\ Like(t, tx'[t]) /\ \A u \in Task : u # t => Alike(tx'[u], tx[u])
  BY <1>6, FlagThenPc
<1>8. pc2 \in Loose /\ tx[t].pc \notin Bound
  BY <1>1, <1>5, LoosePcs DEF Bound, Deciding
<1>9. QED BY <1>1, <1>7, <1>8, LooseFollows, FlagsMove

LEMMA WriteBeforeTaskMove == ASSUME TypeOK, NEW t \in Task, WriteBeforeTask(t) PROVE Move(t)
<1> DEFINE r == [tx[t] EXCEPT !.pc = "write_load"]
           v == Owner(t[1], Deref(tx[t].ptr).serial)
           f == [tx EXCEPT ![t] = r]
<1>1. /\ SameCounts /\ UNCHANGED <<entry, locks>> /\ tx[t].pc \notin Bound
      /\ "write_load" \in Loose /\ AbortPc(t) \in Loose
  BY NoCount, LoosePcs DEF WriteBeforeTask, At, Bound, Deciding
<1>2. CASE Goto(t, AbortPc(t))
  BY <1>1, <1>2, GotoLoose
<1>3. CASE tx' = [tx EXCEPT ![t].pc = "write_load", ![v].abort_task = TRUE]
  <2>1. r \in TaskState /\ r.pc = "write_load" /\ Like(t, r)
    <3>1. "write_load" \in PC
      BY DEF PC
    <3>2. QED BY <3>1, TaskTyped DEF TaskState, Like
  <2>2. tx' = [f EXCEPT ![v].abort_task = TRUE]
    BY <1>3
  <2>3. f \in [Task -> TaskState] /\ f[t] = r /\ \A u \in Task : u # t => f[u] = tx[u]
    BY <2>1 DEF TypeOK
  <2> HIDE DEF f, r, v
  <2>4. \A u \in Task : tx'[u] \in {f[u], [f[u] EXCEPT !.abort_task = TRUE]}
    BY <2>2, <2>3
  <2>5. \A u \in Task : Alike(tx'[u], f[u])
    <3>1. \A u \in Task : Alike([f[u] EXCEPT !.abort_task = TRUE], f[u]) /\ Alike(f[u], f[u])
      BY <2>3, FlagAlike DEF Alike
    <3>2. QED BY <2>4, <3>1
  <2>6. tx'[t].pc = "write_load" /\ Like(t, tx'[t])
    BY <2>1, <2>3, <2>5 DEF Alike, Like
  <2>7. \A u \in Task : u # t => Alike(tx'[u], tx[u])
    BY <2>3, <2>5
  <2>8. QED BY <1>1, <2>6, <2>7, LooseFollows, FlagsMove
<1>4. QED BY <1>2, <1>3 DEF WriteBeforeTask

LEMMA WriteAfterTaskMove ==
  ASSUME TypeOK, LogsInv, NEW t \in Task, WriteAfterTask(t) PROVE Move(t)
<1>1. /\ SameCounts /\ UNCHANGED <<entry, locks>> /\ tx[t].pc = "write_locked" /\ tx[t].pc \notin Bound
      /\ "restart" \in Loose /\ AbortPc(t) \in Loose
  BY NoCount, LoosePcs DEF WriteAfterTask, At, Bound, Deciding
<1>2. CASE Goto(t, "restart") \/ Goto(t, AbortPc(t))
  BY <1>1, <1>2, GotoLoose
<1>3. CASE Goto(t, "write_cas") /\ ~ (PT(t).last_completed_task < Deref(tx[t].ptr).serial)
  <2>1. PICK r : Become(t, r) /\ r.pc = "write_cas" /\ Like(t, r) /\ r.ptr = tx[t].ptr
    BY <1>3, GotoIs
  <2>2. Follows(t, r)
    BY <1>1, <2>1 DEF Follows, Like, Deciding, Committing, Agreed
  <2>3. tx'[t] = r /\ \A u \in Task : u # t => tx'[u] = tx[u]
    BY <2>1 DEF Become, TypeOK
  <2>4. \A u \in Task : tx'[u].serial = tx[u].serial
    BY <2>1, <2>3 DEF Like
  <2>5. ASSUME NEW b \in Ptr, tx'[t].ptr = b
        PROVE  /\ start_serial(b[1])' = start_serial(t)' /\ Deref(b)'.serial = tx'[b[1]].serial
               /\ b[1][1] = t[1] /\ tx'[b[1]].serial <= last(t)'
    <3>1. tx[t].ptr = b /\ b[1][1] = t[1] /\ b[1] \in Task
      BY <2>1, <2>3, <2>5 DEF WriteAfterTask, OwnLock, PtidOf, Ptr
    <3>2. start_serial(b[1]) = start_serial(t) /\ Deref(b).serial = tx[b[1]].serial
      BY <1>1, <3>1 DEF LogsInv, Aimed
    <3>3. tx[b[1]].serial <= last(t)
      BY <1>3, <3>1, <3>2, Numbers DEF last
    <3>4. last(t)' = last(t)
      BY DEF WriteAfterTask, last, PT
    <3>5. Deref(b)' = Deref(b)
      BY <1>1 DEF Deref
    <3>6. QED BY <2>4, <3>1, <3>2, <3>3, <3>4, <3>5 DEF start_serial
  <2>6. Aimed(t)'
    BY <2>5 DEF Aimed
  <2>7. QED BY <1>1, <2>1, <2>2, <2>6, BecomeMove
<1>4. QED BY <1>2, <1>3 DEF WriteAfterTask

LEMMA WritesMove ==
  ASSUME TypeOK, InOrder, LogsInv, NEW t \in Task, Writes(t), ~ WriteCas(t), ~ WriteExtend(t)
  PROVE  Move(t)
<1>1. {"write_load", "restart"} \subseteq Loose /\ AbortPc(t) \in Loose
  BY LoosePcs
<1>2. CASE WriteWord(t)
  <2>1. SameCounts /\ UNCHANGED <<entry, locks>> /\ tx[t].pc \notin Bound
    BY <1>2, NoCount DEF WriteWord, Doing, At, Bound, Deciding
  <2>2. Goto(t, "restart") \/ Goto(t, AbortPc(t)) \/ Goto(t, "write_load")
    BY <1>2 DEF WriteWord
  <2>3. QED BY <1>1, <2>1, <2>2, GotoLoose
<1>3. CASE AbortDecided(t)
  <2>1. SameCounts /\ UNCHANGED <<entry, locks>> /\ tx[t].pc \notin Bound
    BY <1>3, NoCount DEF AbortDecided, At, Bound, Deciding
  <2>2. Goto(t, AbortPc(t)) \/ Goto(t, "restart")
    BY <1>3 DEF AbortDecided
  <2>3. QED BY <1>1, <2>1, <2>2, GotoLoose
<1>4. QED BY <1>2, <1>3, WriteLoadMove, WriteConflictMove, SignalMove, WriteAfterTaskMove,
             WriteBeforeTaskMove DEF Writes

\* The pcs a task that commits may go on to without touching a lock.
Onward == PC \ {"write_extend", "write_locked", "write_cas", "write_back", "commit_done",
                "validate_commit", "progress", "await_commit", "rollback"}

LEMMA OnwardPcs ==
  /\ {"restart", "turn", "turn_writer", "await_abort", "await_request", "await_validated",
      "check_abort", "check_tasks", "complete", "lock_reads", "committed", "rollback_turn"}
       \subseteq Onward
  /\ \A t : AbortPc(t) \in Onward
BY DEF Onward, PC, AbortPc

LEMMA OnwardMove ==
  ASSUME TypeOK, LogsInv, NEW t \in Task, NEW pc \in Onward, Goto(t, pc),
         UNCHANGED <<entry, locks>>, SameCounts, tx[t].pc \in Committing, tx[t].pc \notin Bound
  PROVE  Move(t)
<1>1. PICK r : Become(t, r) /\ r.pc = pc /\ Like(t, r)
  BY GotoIs
<1>2. tx[t].read_only => tx[t].write_log = 0
  BY DEF LogsInv, Writers
<1>3. Follows(t, r) /\ r.pc \notin {"write_locked", "write_cas"}
  BY <1>1, <1>2 DEF Follows, Like, Onward, Bound, Deciding, Committing, Agreed
<1>4. QED BY <1>1, <1>3, BecomeMove

LEMMA LooksMove ==
  ASSUME TypeOK, LogsInv, NEW t \in Task,
         \/ CommitTaskAborted(t) \/ CommitTurn(t) \/ AwaitAbort(t) \/ AwaitRequest(t)
         \/ AwaitValidated(t) \/ CheckAbort(t) \/ (CheckTasks(t) /\ tx'[t].pc # "commit_done")
  PROVE  Move(t)
<1>1. tx[t].pc \in Committing /\ tx[t].pc \notin Bound /\ SameCounts /\ UNCHANGED <<entry, locks>>
  BY NoCount DEF CommitTaskAborted, CommitTurn, AwaitAbort, AwaitRequest,
     AwaitValidated, CheckAbort, CheckTasks, At, Committing, Bound, Deciding
<1>2. \E pc \in Onward : Goto(t, pc)
  <2>1. CASE CommitTaskAborted(t)
    BY <2>1, OnwardPcs DEF CommitTaskAborted
  <2>2. CASE CommitTurn(t)
    BY <2>2, OnwardPcs DEF CommitTurn
  <2>3. CASE AwaitAbort(t) \/ AwaitRequest(t) \/ AwaitValidated(t)
    BY <2>3, OnwardPcs DEF AwaitAbort, AwaitRequest, AwaitValidated
  <2>4. CASE CheckAbort(t)
    BY <2>4, OnwardPcs DEF CheckAbort
  <2>5. CASE (CheckTasks(t) /\ tx'[t].pc # "commit_done")
    <3>1. PICK pc \in {"restart", "complete", "lock_reads", "commit_done"} : Goto(t, pc)
      BY <2>5 DEF CheckTasks
    <3>2. tx'[t].pc = pc
      BY <3>1, TaskTyped DEF Goto, Become, TypeOK, TaskState
    <3>3. QED BY <2>5, <3>1, <3>2, OnwardPcs
  <2>6. QED BY <1>1, <2>1, <2>2, <2>3, <2>4, <2>5
<1>3. PICK pc \in Onward : Goto(t, pc)
  BY <1>2
<1>4. QED BY <1>1, <1>3, OnwardMove

LEMMA TxCommitMove == ASSUME TypeOK, NEW t \in Task, TxCommit(t) PROVE Move(t)
<1> DEFINE ro == tx[t].write_log = 0
           pc == IF ro THEN "turn" ELSE "turn_writer"
           r == [tx[t] EXCEPT !.read_only = ro, !.pc = pc]
<1>1. tx[t] \in TaskState /\ tx[t].pc = "run" /\ pc \in {"turn", "turn_writer"}
  BY TaskTyped DEF TxCommit, At
<1>2. SameCounts /\ UNCHANGED <<entry, locks>> /\ Become(t, r)
  BY NoCount DEF TxCommit
<1> HIDE DEF pc
<1>3. /\ r.pc = pc /\ r.read_only = ro /\ r.serial = tx[t].serial /\ r.write_log = tx[t].write_log
      /\ r.todo = tx[t].todo
  <2> HIDE DEF ro
  <2>1. QED BY <1>1 DEF TaskState
<1> HIDE DEF r
<1>4. Follows(t, r) /\ r.pc \notin {"write_locked", "write_cas"}
  BY <1>1, <1>3 DEF Follows, Deciding, Agreed
<1>5. QED BY <1>2, <1>4, BecomeMove

LEMMA WaitsMove ==
  ASSUME TypeOK, LogsInv, NEW t \in Task, Progress(t) \/ AwaitCommit(t) \/ ReadyWait(t)
  PROVE  Move(t)
<1>1. tx[t] \in TaskState /\ PT(t) \in ThreadState
  BY TaskTyped
<1>2. CASE Progress(t)
  <2> DEFINE n == PT(t).progress + 1
             q == [PT(t) EXCEPT !.progress = n]
  <2>1. UpdatePT(t, q) /\ Goto(t, "await_commit") /\ tx[t].pc = "progress" /\ UNCHANGED <<entry, locks>>
    BY <1>2 DEF Progress, At
  <2> HIDE DEF n
  <2>2. /\ q.last_completed_task = PT(t).last_completed_task
        /\ q.last_completed_writer = PT(t).last_completed_writer
    BY <1>1 DEF ThreadState
  <2> HIDE DEF q
  <2>3. SameCounts
    BY <2>1, <2>2, UpdateCounts
  <2>4. PICK r : Become(t, r) /\ r.pc = "await_commit" /\ Like(t, r)
    BY <2>1, GotoIs
  <2>5. tx[t].read_only => tx[t].write_log = 0
    BY <2>1 DEF LogsInv, Writers, Committing
  <2>6. Follows(t, r) /\ r.pc \notin {"write_locked", "write_cas"}
    BY <2>1, <2>4, <2>5 DEF Follows, Like, Deciding, Committing, Agreed
  <2>7. QED BY <2>1, <2>3, <2>4, <2>6, BecomeMove
<1>3. CASE AwaitCommit(t) \/ ReadyWait(t)
  <2> DEFINE r == [tx[t] EXCEPT !.pc = "restart", !.aborting_transaction = FALSE]
  <2>1. SameCounts /\ UNCHANGED <<entry, locks>> /\ tx[t].pc \in {"await_commit", "ready_wait"}
    BY <1>3, NoCount DEF AwaitCommit, ReadyWait, At
  <2>2. (Goto(t, "committed") /\ tx[t].pc = "await_commit") \/ Become(t, r)
    BY <1>3 DEF AwaitCommit, ReadyWait, At
  <2>3. r.pc = "restart" /\ Like(t, r)
    BY <1>1 DEF TaskState, Like
  <2> HIDE DEF r
  <2>4. tx[t].pc \notin Bound /\ "restart" \in Loose
    BY <2>1, LoosePcs DEF Bound, Deciding
  <2>5. CASE Become(t, r)
    BY <2>1, <2>3, <2>4, <2>5, LooseMove
  <2>6. CASE Goto(t, "committed") /\ tx[t].pc = "await_commit"
    BY <2>1, <2>4, <2>6, OnwardPcs, OnwardMove DEF Committing
  <2>7. QED BY <2>2, <2>5, <2>6
<1>4. QED BY <1>2, <1>3

LEMMA IncrementMove == ASSUME TypeOK, NEW t \in Task, IncrementCommitTs(t), LogsInv PROVE Move(t)
<1> DEFINE ts == commit_ts + 1
           r == [tx[t] EXCEPT !.version = ts, !.pc = "validate_commit"]
<1>1. SameCounts /\ UNCHANGED <<entry, locks>> /\ Become(t, r) /\ tx[t].pc = "increment_ts"
  BY NoCount DEF IncrementCommitTs, At
<1>2. ts # READ_LOCK_SET
  BY DEF TypeOK, READ_LOCK_SET
<1> HIDE DEF ts
<1>3. r.pc = "validate_commit" /\ r.version = ts /\ Like(t, r)
  BY TaskTyped DEF TaskState, Like
<1> HIDE DEF r
<1>4. tx[t].read_only => tx[t].write_log = 0
  BY <1>1 DEF LogsInv, Writers, Committing
<1>5. Follows(t, r) /\ r.pc \notin {"write_locked", "write_cas"}
  BY <1>1, <1>2, <1>3, <1>4 DEF Follows, Like, Deciding, Committing, Agreed
<1>6. QED BY <1>1, <1>5, BecomeMove

LEMMA RollbackMoves ==
  ASSUME TypeOK, NEW t \in Task, RollbackTurn(t) \/ RollbackValid(t) PROVE Move(t)
<1>1. /\ tx[t] \in TaskState /\ PT(t) \in ThreadState /\ UNCHANGED <<entry, locks>>
      /\ tx[t].pc \notin Bound /\ "rollback_signal" \in Loose
  BY TaskTyped, LoosePcs DEF RollbackTurn, RollbackValid, At, Bound, Deciding
<1>2. CASE RollbackTurn(t)
  <2> DEFINE r == [tx[t] EXCEPT !.pc = "rollback", !.from = 0]
  <2>1. SameCounts /\ Become(t, r) /\ tx[t].pc = "rollback_turn"
    BY <1>2, NoCount DEF RollbackTurn, At
  <2>2. r.pc = "rollback" /\ Like(t, r)
    BY <1>1 DEF TaskState, Like
  <2> HIDE DEF r
  <2>3. Follows(t, r) /\ r.pc \notin {"write_locked", "write_cas"}
    BY <2>1, <2>2 DEF Follows, Like, Deciding, Committing, Agreed
  <2>4. QED BY <1>1, <2>1, <2>3, BecomeMove
<1>3. CASE RollbackValid(t)
  <2> DEFINE q == [PT(t) EXCEPT !.requires_validation = FALSE, !.validated = TRUE,
                                !.valid_ts = commit_ts]
  <2>1. UpdatePT(t, q) /\ Goto(t, "rollback_signal")
    BY <1>3 DEF RollbackValid
  <2>2. /\ q.last_completed_task = PT(t).last_completed_task
        /\ q.last_completed_writer = PT(t).last_completed_writer
    BY <1>1 DEF ThreadState
  <2> HIDE DEF q
  <2>3. SameCounts
    BY <2>1, <2>2, UpdateCounts
  <2>4. QED BY <1>1, <2>1, <2>3, GotoLoose
<1>4. QED BY <1>2, <1>3

LEMMA RollbackClearMove == ASSUME TypeOK, NEW t \in Task, RollbackClear(t) PROVE Move(t)
<1> DEFINE p == t[1]
           f == [tx EXCEPT ![<<p, tx[t].i>>].abort_transaction = FALSE]
           i2 == IF f[t].i = CommitTask THEN tx[t].from ELSE f[t].i + 1
           pc2 == IF tx[t].i = CommitTask THEN "rollback_valid" ELSE f[t].pc
<1>1. SameCounts /\ UNCHANGED <<entry, locks>> /\ tx[t].pc = "rollback_clear"
  BY NoCount DEF RollbackClear, At
<1>2. tx' = [tx EXCEPT ![<<p, tx[t].i>>].abort_transaction = FALSE,
                       ![t].i = IF @ = CommitTask THEN tx[t].from ELSE @ + 1,
                       ![t].pc = IF tx[t].i = CommitTask THEN "rollback_valid" ELSE @]
  BY DEF RollbackClear
<1> HIDE DEF p
<1>3. f[t].pc = tx[t].pc
  BY FlagSame
<1>4. tx' = [f EXCEPT ![t] = [f[t] EXCEPT !.i = i2, !.pc = pc2]]
  BY <1>2
<1>5. pc2 \in {"rollback_clear", "rollback_valid"}
  BY <1>1, <1>3
<1> DEFINE g == f
<1>6. g = [tx EXCEPT ![<<p, tx[t].i>>].abort_transaction = FALSE]
      /\ tx' = [g EXCEPT ![t] = [g[t] EXCEPT !.i = i2, !.pc = pc2]]
  BY <1>4
<1> HIDE DEF g, f, i2, pc2
<1>7. tx'[t].pc = pc2 /\ Like(t, tx'[t]) /\ \A u \in Task : u # t => Alike(tx'[u], tx[u])
  BY <1>6, FlagThenPc
<1>8. pc2 \in Loose /\ tx[t].pc \notin Bound
  BY <1>1, <1>5, LoosePcs DEF Bound, Deciding
<1>9. QED BY <1>1, <1>7, <1>8, LooseFollows, FlagsMove

LEMMA RollbackSignalMove ==
  ASSUME TypeOK, InOrder, NEW t \in Task, RollbackSignal(t) PROVE Move(t)
<1> DEFINE i == tx[t].i
           done == [tx[t] EXCEPT !.pc = "restart", !.i = 0, !.from = 0]
           v == <<t[1], i>>
           i2 == i + 1
           f == [tx EXCEPT ![v].aborting_transaction = TRUE]
           r == [tx[t] EXCEPT !.i = i2]
<1>1. /\ SameCounts /\ UNCHANGED <<entry, locks>> /\ tx[t].pc = "rollback_signal"
      /\ tx[t].pc \notin Bound /\ tx[t] \in TaskState
  BY NoCount, TaskTyped DEF RollbackSignal, At, Bound, Deciding
<1>2. try_commit(t)
  BY <1>1 DEF InOrder, Roles, CommitPcs, RollingBack
<1>3. CASE i = CommitTask
  <2>1. Become(t, done)
    BY <1>3 DEF RollbackSignal
  <2>2. done.pc = "restart" /\ Like(t, done)
    BY <1>1 DEF TaskState, Like
  <2> HIDE DEF done
  <2>3. QED BY <1>1, <2>1, <2>2, LoosePcs, LooseMove
<1>4. CASE i # CommitTask
  <2>1. v # t
    BY <1>2, <1>4 DEF try_commit
  <2>2. tx' = [f EXCEPT ![t].i = i2]
    <3>1. f[t].i = i
      BY <2>1 DEF TypeOK
    <3>2. tx' = [tx EXCEPT ![v].aborting_transaction = TRUE, ![t].i = @ + 1]
      BY <1>4 DEF RollbackSignal
    <3>3. tx' = [f EXCEPT ![t].i = f[t].i + 1]
      BY <3>2, Zenon
    <3>4. QED BY <3>1, <3>3
  <2>3. \A u \in Task : tx'[u] = IF u = t THEN r
                                 ELSE IF u = v THEN [tx[u] EXCEPT !.aborting_transaction = TRUE]
                                 ELSE tx[u]
    <3> HIDE DEF v
    <3>1. QED BY <2>1, <2>2 DEF TypeOK
  <2> HIDE DEF f
  <2>4. r.pc = "rollback_signal" /\ Like(t, r)
    <3> HIDE DEF i2
    <3>1. QED BY <1>1 DEF TaskState, Like
  <2>5. tx'[t] = r
    BY <2>3
  <2> HIDE DEF r
  <2>6. \A u \in Task : u # t => Alike(tx'[u], tx[u])
    <3>1. \A u \in Task : /\ Alike(tx[u], tx[u])
                          /\ Alike([tx[u] EXCEPT !.aborting_transaction = TRUE], tx[u])
      BY TaskTyped, FlagAlike DEF Alike
    <3>2. QED BY <2>3, <3>1
  <2>7. Follows(t, tx'[t]) /\ tx'[t].pc \notin {"write_locked", "write_cas"}
    BY <1>1, <2>4, <2>5, LoosePcs, LooseFollows
  <2>8. QED BY <1>1, <2>6, <2>7, FlagsMove
<1>5. QED BY <1>3, <1>4

LEMMA ReadyMove == ASSUME TypeOK, InOrder, NEW t \in Task, Ready(t) PROVE Move(t)
<1> DEFINE c == Committer(t)
           f == [tx EXCEPT ![c].aborting_transaction = TRUE]
           r == [tx[t] EXCEPT !.pc = "ready_turn"]
<1>1. /\ SameCounts /\ UNCHANGED <<entry, locks>> /\ tx[t].pc = "ready"
      /\ tx[t].pc \notin Bound /\ tx[t] \in TaskState /\ c \in Task
  BY NoCount, TaskTyped, Numbers DEF Ready, At, Bound, Deciding
<1>2. c # t
  <2>1. ~ try_commit(t)
    BY <1>1 DEF InOrder, Roles, EarlierPcs
  <2>2. QED BY <2>1, Numbers
<1>3. tx' = [f EXCEPT ![t].pc = "ready_turn"]
  <2>1. tx' = [tx EXCEPT ![c].aborting_transaction = TRUE, ![t].pc = "ready_turn"]
    BY DEF Ready, Committer
  <2>2. QED BY <2>1, Zenon
<1> HIDE DEF c
<1>4. \A u \in Task : tx'[u] = IF u = t THEN r
                               ELSE IF u = c THEN [tx[u] EXCEPT !.aborting_transaction = TRUE]
                               ELSE tx[u]
  BY <1>1, <1>2, <1>3 DEF TypeOK
<1>5. r.pc = "ready_turn" /\ Like(t, r)
  BY <1>1 DEF TaskState, Like
<1> HIDE DEF f, r
<1>6. \A u \in Task : u # t => Alike(tx'[u], tx[u])
  <2>1. \A u \in Task : /\ Alike(tx[u], tx[u])
                        /\ Alike([tx[u] EXCEPT !.aborting_transaction = TRUE], tx[u])
    BY TaskTyped, FlagAlike DEF Alike
  <2>2. QED BY <1>4, <2>1
<1>7. Follows(t, tx'[t]) /\ tx'[t].pc \notin {"write_locked", "write_cas"}
  BY <1>1, <1>4, <1>5, LoosePcs, LooseFollows
<1>8. QED BY <1>1, <1>6, <1>7, FlagsMove

\* The steps of a task that are moves.
Quiet(t) ==
  \/ TxStart(t) \/ Skip(t) \/ Reads(t) \/ (Writes(t) /\ ~ WriteCas(t) /\ ~ WriteExtend(t))
  \/ TxCommit(t) \/ CommitTaskAborted(t) \/ CommitTurn(t) \/ AwaitAbort(t) \/ AwaitRequest(t)
  \/ AwaitValidated(t) \/ CheckAbort(t) \/ (CheckTasks(t) /\ tx'[t].pc # "commit_done")
  \/ Progress(t) \/ AwaitCommit(t) \/ ReadyWait(t) \/ IncrementCommitTs(t)
  \/ RollbackTurn(t) \/ RollbackClear(t) \/ RollbackValid(t) \/ RollbackSignal(t) \/ Ready(t)

LEMMA QuietMoves ==
  ASSUME TypeOK, InOrder, LogsInv, NEW t \in Task, Quiet(t) PROVE LogsInv'
<1>1. Move(t)
  <2>1. CASE TxStart(t) \/ Skip(t) \/ Reads(t)
    BY <2>1, StartMove, ReadsMove
  <2>2. CASE Writes(t) /\ ~ WriteCas(t) /\ ~ WriteExtend(t)
    BY <2>2, WritesMove
  <2>3. CASE \/ CommitTaskAborted(t) \/ CommitTurn(t) \/ AwaitAbort(t) \/ AwaitRequest(t)
             \/ AwaitValidated(t) \/ CheckAbort(t) \/ (CheckTasks(t) /\ tx'[t].pc # "commit_done")
    BY <2>3, LooksMove
  <2>4. CASE TxCommit(t) \/ Progress(t) \/ AwaitCommit(t) \/ ReadyWait(t) \/ IncrementCommitTs(t)
    BY <2>4, TxCommitMove, WaitsMove, IncrementMove
  <2>5. CASE RollbackTurn(t) \/ RollbackClear(t) \/ RollbackValid(t) \/ RollbackSignal(t) \/ Ready(t)
    BY <2>5, RollbackMoves, RollbackClearMove, RollbackSignalMove, ReadyMove
  <2>6. QED BY <2>1, <2>2, <2>3, <2>4, <2>5 DEF Quiet
<1>2. QED BY <1>1, MoveKeeps

\* A step of a validator thread raises flags at most.
LEMMA StillKeeps ==
  ASSUME TypeOK, LogsInv, UNCHANGED <<entry, locks>>, SameCounts,
         \A u \in Task : Alike(tx'[u], tx[u])
  PROVE  LogsInv'
<1>1. \A u \in Task : /\ last(u)' = last(u) /\ last(u) \in Nat
                      /\ PT(u)'.last_completed_writer = PT(u).last_completed_writer
  <2>1. ASSUME NEW u \in Task PROVE u[1] \in Thread /\ last(u) \in Nat
    BY Numbers DEF last
  <2>2. QED BY <2>1 DEF SameCounts, last, PT
<1>2. \A u \in Task : /\ tx'[u].serial = tx[u].serial /\ tx'[u].write_log = tx[u].write_log
                      /\ tx'[u].todo = tx[u].todo /\ tx'[u].pc = tx[u].pc
                      /\ tx'[u].ptr = tx[u].ptr /\ tx'[u].read_only = tx[u].read_only
                      /\ tx'[u].ip = tx[u].ip /\ tx'[u].version = tx[u].version
  BY DEF Alike
<1>3. SameLogs
  BY <1>1, <1>2 DEF SameLogs, Open, commit_serial, start_serial
<1>4. \A u \in Task : Chained(u)'
  BY <1>3, ChainsKept DEF LogsInv
<1>5. Topmost'
  <2>1. ASSUME NEW e \in Ptr PROVE Due(e)' <=> Due(e)
    <3>1. Committer(e[1]) \in Task
      BY Numbers DEF Ptr
    <3>2. QED BY <1>2, <3>1 DEF Due, Committer
  <2>2. \A u \in Task : last(u)' \in Nat /\ last(u)' >= last(u)
    BY <1>1
  <2>3. QED BY <1>3, <2>1, <2>2, TopsKept DEF LogsInv, locks
<1>6. ReadLocksHeld'
  <2>1. \A p \in Thread : <<p, CommitTask>> \in Task
    BY Constants DEF Task, CommitTask
  <2>2. QED BY <1>2, <2>1, ReadsKept DEF LogsInv
<1>7. ASSUME NEW u \in Task PROVE Aimed(u)'
  <2>1. Aimed(u) /\ last(u) \in Nat /\ last(u)' \in Nat /\ last(u)' >= last(u)
    BY <1>1 DEF LogsInv
  <2>2. QED BY <1>2, <2>1, AimKept
<1>8. \A u \in Task : Writers(u)'
  BY <1>1, <1>2, WritersKept DEF LogsInv
<1>9. \A u \in Task : Versions(u)'
  <2>1. \A u \in Task : Logged(u)' = Logged(u)
    BY <1>3, LogsKept
  <2>2. QED BY <1>2, <2>1, VersionsKept DEF LogsInv
<1>10. \A u \in Task : Writing(u)'
  BY <1>2 DEF LogsInv, Writing
<1>11. QED BY <1>4, <1>5, <1>6, <1>7, <1>8, <1>9, <1>10 DEF LogsInv

LEMMA ValidatorCounts ==
  ASSUME TypeOK, NEW p \in Thread, ValidatorStep(p)
  PROVE  SameCounts /\ UNCHANGED <<entry, locks>> /\ \A u \in Task : Alike(tx'[u], tx[u])
<1>1. SameCounts
  <2>1. \A r : (/\ SetPT(p, r)
               /\ r.last_completed_task = prog_thread[p].last_completed_task
               /\ r.last_completed_writer = prog_thread[p].last_completed_writer) => SameCounts
    BY DEF SetPT, SameCounts, TypeOK
  <2>2. prog_thread[p] \in ThreadState
    BY DEF TypeOK
  <2>3. CASE UNCHANGED prog_thread
    BY <2>3, NoCount
  <2>4. CASE SetPT(p, [prog_thread[p] EXCEPT !.validated = FALSE])
    BY <2>1, <2>2, <2>4 DEF ThreadState
  <2>5. CASE SetPT(p, [prog_thread[p] EXCEPT !.requires_validation = FALSE])
    BY <2>1, <2>2, <2>5 DEF ThreadState
  <2>6. CASE SetPT(p, [prog_thread[p] EXCEPT !.valid_ts = validator[p].ts])
    BY <2>1, <2>2, <2>6 DEF ThreadState
  <2>7. CASE SetPT(p, [prog_thread[p] EXCEPT !.validated = TRUE])
    BY <2>1, <2>2, <2>7 DEF ThreadState
  <2>8. QED BY <2>3, <2>4, <2>5, <2>6, <2>7 DEF ValidatorStep, ValidatorWakes, ValidatorBegins,
               ValidatorClears, ValidatorReadsTs, ExtendTx, ValidatorAborts, ValidatorDone
<1>2. \A u \in Task : Alike(tx'[u], tx[u])
  <2>1. \A u \in Task : /\ Alike(tx[u], tx[u])
                        /\ Alike([tx[u] EXCEPT !.abort_transaction = TRUE], tx[u])
    BY TaskTyped, FlagAlike DEF Alike
  <2>2. CASE UNCHANGED tx
    BY <2>1, <2>2
  <2>3. CASE tx' = [tx EXCEPT ![<<p, validator[p].i>>].abort_transaction = TRUE]
    <3>1. \A u \in Task : tx'[u] \in {tx[u], [tx[u] EXCEPT !.abort_transaction = TRUE]}
      BY <2>3 DEF TypeOK
    <3>2. QED BY <2>1, <3>1
  <2>4. QED BY <2>2, <2>3 DEF ValidatorStep, ValidatorWakes, ValidatorBegins, ValidatorClears,
               ValidatorReadsTs, ExtendTx, ValidatorAborts, ValidatorDone
<1>3. QED BY <1>1, <1>2 DEF ValidatorStep, ValidatorWakes, ValidatorBegins, ValidatorClears,
             ValidatorReadsTs, ExtendTx, ValidatorAborts, ValidatorDone

LEMMA ValidatorMoves ==
  ASSUME TypeOK, LogsInv, NEW p \in Thread, ValidatorStep(p) PROVE LogsInv'
BY ValidatorCounts, StillKeeps

LEMMA StutterMoves == ASSUME TypeOK, LogsInv, UNCHANGED vars PROVE LogsInv'
<1>1. UNCHANGED <<entry, locks>> /\ SameCounts /\ UNCHANGED tx
  BY NoCount DEF vars, locks
<1>2. \A u \in Task : Alike(tx'[u], tx[u])
  BY <1>1 DEF Alike
<1>3. QED BY <1>1, <1>2, StillKeeps

----------------------------------------------------------------------------
(***************************************************************************)
(* The steps that change an entry or a lock.                               *)
(***************************************************************************)

\* While a task works on its entries, the commit task does not have its turn.
LEMMA NotCommitting ==
  ASSUME TypeOK, InOrder, NEW t \in Task, tx[t].pc \notin Waiting \cup Turn
  PROVE  /\ tx[Committer(t)].pc \notin Turn
         /\ \A u \in Task : u[1] = t[1] => tx[Committer(u)].pc \notin Turn
         /\ \A e \in Ptr : e[1][1] = t[1] => Due(e)
<1>1. Committer(t) \in Task /\ Committer(t)[1] = t[1] /\ try_commit(Committer(t))
  BY Numbers
<1>2. tx[Committer(t)].pc \notin Turn
  BY <1>1, CommitTurnOpen
<1>3. \A u \in Task : u[1] = t[1] => Committer(u) = Committer(t)
  BY DEF Committer
<1>4. ASSUME NEW e \in Ptr, e[1][1] = t[1] PROVE Due(e)
  <2>1. e[1] \in Task /\ Committer(e[1]) = Committer(t)
    BY <1>3, <1>4 DEF Ptr
  <2>2. QED BY <1>2, <2>1 DEF Due, Turn
<1>5. QED BY <1>2, <1>3, <1>4

\* The read lock of a stripe is not held while a task works on its entry for it.
LEMMA NotHeld ==
  ASSUME TypeOK, InOrder, Topmost, ReadLocksHeld,
         NEW t \in Task, tx[t].pc \notin Waiting \cup Turn,
         NEW e \in Logged(t), Deref(e).stripe \in Stripe
  PROVE  read_lock[Deref(e).stripe] # READ_LOCK_SET
<1> DEFINE s == Deref(e).stripe
<1>1. SUFFICES ASSUME read_lock[s] = READ_LOCK_SET PROVE FALSE
  OBVIOUS
<1>2. PICK p \in Thread : tx[<<p, CommitTask>>].pc \in Deciding /\ PtidOf(write_lock[s]) = p
  BY <1>1 DEF ReadLocksHeld
<1>3. e \in Ptr /\ e[1] = t
  BY Entries
<1>4. Due(e)
  BY <1>3, NotCommitting
<1>5. PICK top \in Ptr : write_lock[s] = top /\ top[1][1] = t[1]
  BY <1>4 DEF Topmost
<1>6. Committer(t) = <<p, CommitTask>>
  BY <1>2, <1>5 DEF PtidOf, Committer
<1>7. QED BY <1>2, <1>6, NotCommitting DEF Deciding, Turn

LEMMA WriteExtendKeeps ==
  ASSUME TypeOK, InOrder, LogsInv, NEW t \in Task, WriteExtend(t) PROVE LogsInv'
<1> DEFINE n == tx[t].write_log
           s == StripeOf[Op(t).addr]
           version == read_lock[s]
           pt == [PT(t) EXCEPT !.requires_validation = @ \/ ShouldExtend(t, version)]
           lw == PT(t).last_completed_writer
           done == CmOnAccess(t, pt)
           lw2 == IF lw > tx[t].last_writer THEN lw ELSE tx[t].last_writer
           noted == [tx[t] EXCEPT !.last_writer = lw2]
<1>1. /\ tx[t] \in TaskState /\ PT(t) \in ThreadState /\ tx[t].pc = "write_extend"
      /\ UNCHANGED locks
  BY TaskTyped DEF WriteExtend, At
<1>2. n # 0 /\ entry[t][n].stripe = s /\ n \in 1 .. LogSize /\ <<t, n>> \in Logged(t)
      /\ s \in Stripe
  <2>1. n # 0 /\ entry[t][n].stripe = s
    BY <1>1 DEF LogsInv, Versions
  <2>2. n \in 1 .. n /\ n \in 1 .. LogSize
    BY <1>1, <2>1, Constants DEF TaskState
  <2>3. <<t, n>> \in LiveEntries(t)
    BY <2>2, Entries
  <2>4. Open(t)
    BY <1>1, WorksOpen DEF Parked
  <2>5. <<t, n>> \in Logged(t)
    BY <2>3, <2>4, Entries
  <2>6. s \in Stripe
    BY <1>1, AccessingOp DEF Accessing
  <2>7. QED BY <2>1, <2>2, <2>5, <2>6
<1>3. version # READ_LOCK_SET
  <2>1. Deref(<<t, n>>).stripe = s
    BY <1>2 DEF Deref
  <2>2. tx[t].pc \notin Waiting \cup Turn
    BY <1>1 DEF Waiting, Turn
  <2>3. QED BY <1>2, <2>1, <2>2, NotHeld DEF LogsInv
<1>4. /\ pt.last_completed_task = PT(t).last_completed_task
      /\ pt.last_completed_writer = PT(t).last_completed_writer
      /\ done.last_completed_task = PT(t).last_completed_task
      /\ done.last_completed_writer = PT(t).last_completed_writer
  BY <1>1 DEF ThreadState, CmOnAccess
<1>5. CASE UpdatePT(t, pt) /\ Goto(t, "restart") /\ UNCHANGED entry
  <2>1. SameCounts
    <3> HIDE DEF pt
    <3>1. QED BY <1>4, <1>5, UpdateCounts
  <2>2. PICK r : Become(t, r) /\ r.pc = "restart" /\ Like(t, r)
    BY <1>5, GotoIs
  <2>3. Follows(t, r) /\ r.pc \notin {"write_locked", "write_cas"}
    BY <1>1, <2>2, LooseFollows, LoosePcs
  <2>4. QED BY <1>1, <1>5, <2>1, <2>2, <2>3, BecomeMove, MoveKeeps
<1>6. CASE /\ UpdatePT(t, done) /\ Become(t, NextOp(noted))
           /\ entry' = [entry EXCEPT ![t][n].old_version = version]
  <2>1. SameCounts
    <3> HIDE DEF done
    <3>1. QED BY <1>4, <1>6, UpdateCounts
  <2>2. NextOp(noted).pc = "run" /\ Like(t, NextOp(noted))
    <3> HIDE DEF lw2
    <3>1. QED BY <1>1 DEF TaskState, NextOp, Like
  <2>3. tx'[t] = NextOp(noted) /\ \A u \in Task : u # t => tx'[u] = tx[u]
    BY <1>6 DEF Become, TypeOK
  <2> HIDE DEF done, noted, lw2, version
  <2>4. \A u \in Task : \A i \in 1 .. LogSize :
          /\ entry'[u][i].stripe = entry[u][i].stripe /\ entry'[u][i].serial = entry[u][i].serial
          /\ entry'[u][i].old_entry = entry[u][i].old_entry
          /\ entry'[u][i].old_version = IF u = t /\ i = n THEN version ELSE entry[u][i].old_version
    <3>1. ASSUME NEW e \in Entry
          PROVE  /\ [e EXCEPT !.old_version = version].stripe = e.stripe
                 /\ [e EXCEPT !.old_version = version].serial = e.serial
                 /\ [e EXCEPT !.old_version = version].old_entry = e.old_entry
                 /\ [e EXCEPT !.old_version = version].old_version = version
      BY DEF Entry
    <3> HIDE DEF n
    <3>2. ASSUME NEW u \in Task, NEW i \in 1 .. LogSize
          PROVE  /\ entry[u][i] \in Entry
                 /\ entry'[u][i] = IF u = t /\ i = n THEN [entry[u][i] EXCEPT !.old_version = version]
                                   ELSE entry[u][i]
      BY <1>6 DEF TypeOK
    <3>3. ASSUME NEW u \in Task, NEW i \in 1 .. LogSize
          PROVE  /\ entry'[u][i].stripe = entry[u][i].stripe /\ entry'[u][i].serial = entry[u][i].serial
                 /\ entry'[u][i].old_entry = entry[u][i].old_entry
                 /\ entry'[u][i].old_version
                      = IF u = t /\ i = n THEN version ELSE entry[u][i].old_version
      <4>1. CASE u = t /\ i = n
        <5>1. entry[u][i] \in Entry /\ entry'[u][i] = [entry[u][i] EXCEPT !.old_version = version]
          BY <3>2, <4>1
        <5>2. QED BY <3>1, <4>1, <5>1
      <4>2. CASE ~ (u = t /\ i = n)
        BY <3>2, <4>2
      <4>3. QED BY <4>1, <4>2
    <3>4. QED BY <3>3
  <2>5. \A u \in Task : \A i \in 1 .. tx[u].write_log : i \in 1 .. LogSize
    BY TaskTyped, Constants DEF TaskState
  <2>6. \A u \in Task : /\ last(u)' = last(u) /\ last(u) \in Nat
                        /\ PT(u)'.last_completed_writer = PT(u).last_completed_writer
    <3>1. ASSUME NEW u \in Task PROVE u[1] \in Thread /\ last(u) \in Nat
      BY Numbers DEF last
    <3>2. QED BY <2>1, <3>1 DEF SameCounts, last, PT
  <2>7. \A u \in Task : /\ tx'[u].serial = tx[u].serial /\ tx'[u].write_log = tx[u].write_log
                        /\ tx'[u].todo = tx[u].todo
    BY <2>2, <2>3 DEF Like
  <2>8. SameLogs
    <3>1. \A u \in Task : Open(u)' <=> Open(u)
      BY <2>6, <2>7 DEF Open, commit_serial, start_serial
    <3>2. QED BY <2>4, <2>5, <2>7, <3>1 DEF SameLogs
  <2>9. \A u \in Task : Chained(u)'
    BY <2>8, ChainsKept DEF LogsInv
  <2>10. Topmost'
    <3>1. ASSUME NEW e \in Ptr PROVE Due(e)' <=> Due(e)
      <4>1. Committer(e[1]) \in Task
        BY Numbers DEF Ptr
      <4>2. CASE Committer(e[1]) = t
        BY <1>1, <2>2, <2>3, <4>1, <4>2 DEF Due, Committer
      <4>3. CASE Committer(e[1]) # t
        BY <2>3, <4>1, <4>3 DEF Due, Committer
      <4>4. QED BY <4>2, <4>3
    <3>2. \A u \in Task : last(u)' \in Nat /\ last(u)' >= last(u)
      BY <2>6
    <3>3. QED BY <1>1, <2>8, <3>1, <3>2, TopsKept DEF LogsInv, locks
  <2>11. ReadLocksHeld'
    <3>1. ASSUME NEW p \in Thread, tx[<<p, CommitTask>>].pc \in Deciding
          PROVE  tx'[<<p, CommitTask>>].pc \in Deciding
      <4>1. <<p, CommitTask>> \in Task
        BY Constants DEF Task, CommitTask
      <4>2. QED BY <1>1, <2>3, <3>1, <4>1 DEF Deciding
    <3>2. QED BY <1>1, <3>1, ReadsKept DEF LogsInv
  <2>12. ASSUME NEW u \in Task PROVE Aimed(u)'
    <3>1. \/ tx'[u].pc \notin {"write_locked", "write_cas"}
          \/ tx'[u].pc = tx[u].pc /\ tx'[u].ptr = tx[u].ptr
      BY <2>2, <2>3
    <3>2. \A v \in Task : \A i \in 1 .. LogSize :
            entry'[v][i].serial \in {entry[v][i].serial, tx[v].serial}
      BY <2>4
    <3>3. Aimed(u) /\ last(u) \in Nat /\ last(u)' \in Nat /\ last(u)' >= last(u)
      BY <2>6 DEF LogsInv
    <3>4. QED BY <2>7, <3>1, <3>2, <3>3, AimKept
  <2>13. ASSUME NEW u \in Task PROVE Writers(u)'
    <3>1. CASE u # t
      BY <2>3, <2>6, <3>1, WritersKept DEF LogsInv
    <3>2. CASE u = t
      BY <2>2, <2>3, <3>2 DEF Writers, Committing
    <3>3. QED BY <3>1, <3>2
  <2>14. ASSUME NEW u \in Task PROVE Versions(u)'
    <3>1. Logged(u)' = Logged(u) /\ Versions(u)
      BY <2>8, LogsKept DEF LogsInv
    <3>2. CASE u # t
      BY <2>3, <2>4, <2>5, <3>1, <3>2, VersionsKept
    <3>3. CASE u = t
      <4>1. ASSUME NEW e \in Logged(t) PROVE Deref(e)'.old_version # READ_LOCK_SET
        <5>1. e[1] = t /\ e[2] \in 1 .. LogSize
          BY Entries
        <5>2. CASE e[2] = n
          BY <1>3, <2>4, <5>1, <5>2 DEF Deref, version
        <5>3. CASE e[2] # n
          <6>1. Deref(e).old_version # READ_LOCK_SET
            BY <5>3 DEF LogsInv, Versions
          <6>2. QED BY <2>4, <5>1, <5>3, <6>1 DEF Deref
        <5>4. QED BY <5>2, <5>3
      <4>2. QED BY <2>2, <2>3, <3>1, <3>3, <4>1 DEF Versions
    <3>4. QED BY <3>2, <3>3
  <2>15. ASSUME NEW u \in Task PROVE Writing(u)'
    BY <2>2, <2>3 DEF LogsInv, Writing
  <2>16. QED BY <2>9, <2>10, <2>11, <2>12, <2>13, <2>14, <2>15 DEF LogsInv
<1>7. QED BY <1>5, <1>6 DEF WriteExtend

\* The tasks of a transaction are numbered in the order of their serials.
LEMMA SameOrder ==
  ASSUME TypeOK, InOrder, NEW t \in Task, NEW u \in Task, t[1] = u[1], Open(t), Open(u)
  PROVE  /\ tx[t].serial < tx[u].serial <=> t[2] < u[2]
         /\ t[2] = u[2] => t = u
<1>1. /\ tx[t].serial \in Nat /\ tx[u].serial \in Nat /\ t[2] \in Nat /\ u[2] \in Nat
      /\ tx[t].serial - t[2] = tx[u].serial - u[2]
  BY Numbers, OneTransaction
<1>2. t[2] = u[2] => t = u
  BY DEF Task
<1>3. QED BY <1>1, <1>2

LEMMA WriteCasLost ==
  ASSUME TypeOK, InOrder, LogsInv, NEW t \in Task, WriteCas(t),
         write_lock[StripeOf[Op(t).addr]] # tx[t].ptr
  PROVE  LogsInv'
<1> DEFINE n == tx[t].write_log + 1
           a == Op(t).addr
           w == [b \in Addr |-> IF b = a THEN NewValue(t) ELSE NULL]
           e == [stripe |-> StripeOf[a], serial |-> tx[t].serial, old_entry |-> tx[t].ptr,
                 old_version |-> entry[t][n].old_version, words |-> w]
           wl == tx[t].write_log
           r == [tx[t] EXCEPT !.write_log = wl, !.ptr = NULL, !.pc = "write_load"]
<1>1. /\ tx[t] \in TaskState /\ tx[t].pc = "write_cas" /\ UNCHANGED locks /\ SameCounts
      /\ tx[t].write_log < LogSize /\ n \in 1 .. LogSize
  BY TaskTyped, NoCount, Constants DEF WriteCas, At, TaskState, locks
<1>2. Become(t, r) /\ entry' = [entry EXCEPT ![t][n] = e]
  BY DEF WriteCas
<1>3. Like(t, r) /\ r.pc = "write_load" /\ r.read_only = tx[t].read_only
  BY <1>1 DEF TaskState, Like
<1> HIDE DEF r
<1>4. tx'[t] = r /\ \A u \in Task : u # t => tx'[u] = tx[u]
  BY <1>2 DEF Become, TypeOK
<1>5. Follows(t, r) /\ r.pc \notin {"write_locked", "write_cas"}
  BY <1>1, <1>3, LooseFollows, LoosePcs DEF Bound, Deciding
<1>6. e.serial = tx[t].serial
  OBVIOUS
<1> HIDE DEF e
<1>7. \A u \in Task : \A i \in 1 .. LogSize : entry'[u][i] = IF u = t /\ i = n THEN e ELSE entry[u][i]
  <2> HIDE DEF n
  <2>1. QED BY <1>1, <1>2 DEF TypeOK
<1>8. \A u \in Task : \A i \in 1 .. tx[u].write_log : i \in 1 .. LogSize /\ ~ (u = t /\ i = n)
  <2>1. \A u \in Task : tx[u].write_log \in 0 .. LogSize
    BY TaskTyped DEF TaskState
  <2>2. QED BY <2>1, Constants
<1>9. \A u \in Task : \A i \in 1 .. tx[u].write_log : entry'[u][i] = entry[u][i]
  BY <1>7, <1>8
<1>10. \A u \in Task : \A i \in 1 .. LogSize :
         entry'[u][i].serial \in {entry[u][i].serial, tx[u].serial}
  BY <1>6, <1>7
<1>11. Move(t)
  BY <1>1, <1>4, <1>5, <1>9, <1>10 DEF Move
<1>12. QED BY <1>11, MoveKeeps

\* What a task that takes the lock of s knows: its entry goes on top.
LEMMA WonOnTop ==
  ASSUME TypeOK, InOrder, LogsInv, NEW t \in Task, tx[t].pc = "write_cas", NEW s \in Stripe,
         write_lock[s] = tx[t].ptr
  PROVE  /\ \A u \in Task : \A f \in Logged(u) : u[1] = t[1] /\ Deref(f).stripe = s =>
              \E b \in Ptr : /\ tx[t].ptr = b /\ b[1][1] = t[1] /\ u[2] <= b[1][2]
                             /\ tx[u].serial <= last(u)
         /\ \A b \in Ptr : tx[t].ptr = b =>
              /\ b[1] \in Task /\ b[1][1] = t[1] /\ b[1][2] < t[2] /\ b \in Logged(b[1])
              /\ Deref(b).stripe = s
<1>1. Open(t) /\ last(t) < tx[t].serial /\ tx[t].pc \notin Waiting \cup Turn
  BY WorksOpen DEF Parked, Waiting, Turn
<1>2. ASSUME NEW b \in Ptr, tx[t].ptr = b
      PROVE  /\ b[1] \in Task /\ b[1][1] = t[1] /\ b[1][2] < t[2] /\ b \in Logged(b[1])
             /\ Deref(b).stripe = s /\ tx[b[1]].serial <= last(t)
  <2>1. b[1] \in Task /\ b[1][1] = t[1] /\ tx[b[1]].serial <= last(t)
    BY <1>2 DEF LogsInv, Aimed, Ptr
  <2>2. b \in Logged(b[1]) /\ Deref(b).stripe = s
    BY <1>2 DEF LogsInv, Topmost
  <2>3. Open(b[1])
    BY <2>1, <2>2, Entries
  <2>4. tx[b[1]].serial < tx[t].serial
    BY <1>1, <2>1, Numbers DEF last
  <2>5. b[1][2] < t[2]
    BY <1>1, <2>1, <2>3, <2>4, SameOrder
  <2>6. QED BY <2>1, <2>2, <2>5
<1>3. ASSUME NEW u \in Task, NEW f \in Logged(u), u[1] = t[1], Deref(f).stripe = s
      PROVE  \E b \in Ptr : /\ tx[t].ptr = b /\ b[1][1] = t[1] /\ u[2] <= b[1][2]
                            /\ tx[u].serial <= last(u)
  <2>1. f \in Ptr /\ f[1] = u
    BY Entries
  <2>2. Due(f)
    BY <1>1, <1>3, <2>1, NotCommitting
  <2>3. PICK b \in Ptr : /\ write_lock[s] = b /\ b[1][1] = u[1]
                         /\ b # f => u[2] < b[1][2] /\ tx[u].serial <= last(u)
    BY <1>3, <2>2 DEF LogsInv, Topmost
  <2>4. last(u) = last(t)
    BY <1>3 DEF last, PT
  <2>5. tx[u].serial <= last(u)
    BY <1>2, <2>1, <2>3, <2>4
  <2>6. u[2] <= b[1][2]
    <3>1. u[2] \in Nat /\ b[1][2] \in Nat
      BY <2>3, Numbers DEF Ptr
    <3>2. QED BY <2>1, <2>3, <3>1
  <2>7. QED BY <1>3, <2>3, <2>5, <2>6
<1>4. QED BY <1>2, <1>3


\* What a step of t leaves to the tasks whose records it does not touch.
LEMMA OthersKeep ==
  ASSUME TypeOK, LogsInv, NEW t \in Task, \A v \in Task : tx'[v].serial = tx[v].serial,
         \A v \in Task : \A i \in 1 .. LogSize :
           entry'[v][i].serial \in {entry[v][i].serial, tx[v].serial},
         NEW u \in Task, tx'[u] = tx[u], Logged(u)' \subseteq Logged(u),
         last(u)' \in Nat, last(u)' >= last(u),
         \A i \in 1 .. tx[u].write_log : entry'[u][i].old_version = entry[u][i].old_version,
         \A i \in 1 .. tx[u].write_log : entry'[u][i].stripe = entry[u][i].stripe
  PROVE  Aimed(u)' /\ Versions(u)' /\ Writing(u)'
<1>1. Aimed(u) /\ Versions(u) /\ Writing(u) /\ last(u) \in Nat
  BY Numbers DEF LogsInv, last
<1>2. Aimed(u)'
  BY <1>1, AimKept
<1>3. Versions(u)'
  <2>1. ASSUME NEW e \in Logged(u)', Deref(e)'.old_version = READ_LOCK_SET
        PROVE  e[2] = tx'[u].write_log /\ tx'[u].pc \in {"write_extend", "restart"}
    <3>1. e \in Logged(u) /\ e[1] = u /\ e[2] \in 1 .. tx[u].write_log
      BY Entries
    <3>2. Deref(e).old_version = READ_LOCK_SET
      BY <2>1, <3>1 DEF Deref
    <3>3. QED BY <1>1, <3>1, <3>2 DEF Versions
  <2>2. Op(u)' = Op(u)
    BY DEF Op, Ops
  <2>3. tx[u].write_log # 0 => tx[u].write_log \in 1 .. tx[u].write_log
    BY TaskTyped DEF TaskState
  <2>4. QED BY <1>1, <2>1, <2>2, <2>3 DEF Versions
<1>4. Writing(u)'
  BY <1>1 DEF Writing
<1>5. QED BY <1>2, <1>3, <1>4

\* ... and when t leaves the pcs at which something is owed.
Owing == {"write_locked", "write_cas", "write_extend", "restart", "validate_commit", "write_back"}
LEMMA OwingNothing ==
  ASSUME TypeOK, LogsInv, NEW t \in Task, tx[t].pc \notin {"write_extend", "restart"},
         tx'[t].pc \notin Owing, Logged(t)' \subseteq Logged(t), UNCHANGED entry
  PROVE  Aimed(t)' /\ Versions(t)' /\ Writing(t)'
BY DEF LogsInv, Aimed, Versions, Writing, Owing, Deref

\* The step in which t puts an entry on top of the lock of s.
LEMMA WriteCasWon ==
  ASSUME TypeOK, InOrder, LogsInv, NEW t \in Task, WriteCas(t),
         write_lock[StripeOf[Op(t).addr]] = tx[t].ptr
  PROVE  LogsInv'
<1> DEFINE n == tx[t].write_log + 1
           a == Op(t).addr
           s == StripeOf[a]
           w == [b \in Addr |-> IF b = a THEN NewValue(t) ELSE NULL]
           e == [stripe |-> s, serial |-> tx[t].serial, old_entry |-> tx[t].ptr,
                 old_version |-> entry[t][n].old_version, words |-> w]
           r == [tx[t] EXCEPT !.write_log = n, !.ptr = NULL, !.pc = "write_extend"]
           new == <<t, n>>
<1>1. /\ tx[t] \in TaskState /\ tx[t].pc = "write_cas" /\ read_lock' = read_lock /\ SameCounts
      /\ tx[t].write_log < LogSize /\ n \in 1 .. LogSize /\ s \in Stripe
  <2>1. /\ tx[t] \in TaskState /\ tx[t].pc = "write_cas" /\ read_lock' = read_lock /\ SameCounts
        /\ tx[t].write_log < LogSize
    BY TaskTyped, NoCount DEF WriteCas, At
  <2>2. tx[t].write_log \in 0 .. LogSize
    BY <2>1 DEF TaskState
  <2>3. n \in 1 .. LogSize
    BY <2>1, <2>2, Constants
  <2>4. s \in Stripe
    BY <2>1, AccessingOp DEF Accessing
  <2>5. QED BY <2>1, <2>3, <2>4
<1>2. Become(t, r) /\ entry' = [entry EXCEPT ![t][n] = e]
      /\ write_lock' = [write_lock EXCEPT ![s] = new]
  BY DEF WriteCas
<1>3. /\ r.serial = tx[t].serial /\ r.write_log = n /\ r.pc = "write_extend" /\ r.ip = tx[t].ip
      /\ r.todo = tx[t].todo
  BY <1>1 DEF TaskState
<1> HIDE DEF r
<1>4. tx'[t] = r /\ \A u \in Task : u # t => tx'[u] = tx[u]
  BY <1>2 DEF Become, TypeOK
<1>5. e.serial = tx[t].serial /\ e.stripe = s /\ e.old_entry = tx[t].ptr
  OBVIOUS
<1> HIDE DEF e
<1>6. \A u \in Task : \A i \in 1 .. LogSize : entry'[u][i] = IF u = t /\ i = n THEN e ELSE entry[u][i]
  <2> HIDE DEF n
  <2>1. QED BY <1>1, <1>2 DEF TypeOK
<1>7. \A u \in Task : \A i \in 1 .. tx[u].write_log : entry'[u][i] = entry[u][i]
  <2>1. \A u \in Task : tx[u].write_log \in 0 .. LogSize
    BY TaskTyped DEF TaskState
  <2>2. \A u \in Task : \A i \in 1 .. tx[u].write_log : i \in 1 .. LogSize /\ ~ (u = t /\ i = n)
    BY <2>1, Constants
  <2>3. QED BY <1>6, <2>2
<1>8. \A u \in Task : \A i \in 1 .. LogSize :
        entry'[u][i].serial \in {entry[u][i].serial, tx[u].serial}
  BY <1>5, <1>6
<1>9. \A u \in Task : /\ last(u)' = last(u) /\ last(u) \in Nat
                      /\ PT(u)'.last_completed_writer = PT(u).last_completed_writer
  <2>1. ASSUME NEW u \in Task PROVE u[1] \in Thread /\ last(u) \in Nat
    BY Numbers DEF last
  <2>2. QED BY <1>1, <2>1 DEF SameCounts, last, PT
<1>10. \A u \in Task : tx'[u].serial = tx[u].serial /\ (Open(u)' <=> Open(u))
  BY <1>3, <1>4, <1>9 DEF Open, commit_serial, start_serial
<1>11. Open(t) /\ last(t) < tx[t].serial /\ tx[t].pc \notin Waiting \cup Turn
  BY <1>1, WorksOpen DEF Parked, Waiting, Turn
<1>12. /\ \A u \in Task : u # t => Logged(u)' = Logged(u)
       /\ new \in Logged(t)' /\ new \in Ptr
       /\ \A f \in Logged(t)' : f = new \/ f \in Logged(t)
       /\ Logged(t) \subseteq Logged(t)'
  <2>1. tx[t].write_log \in Nat /\ tx'[t].write_log = n
    BY <1>1, <1>3, <1>4 DEF TaskState
  <2>2. 1 .. n = 1 .. tx[t].write_log \cup {n}
    BY <2>1
  <2>3. LiveEntries(t)' = LiveEntries(t) \cup {new}
    <3> HIDE DEF n
    <3>1. QED BY <2>1, <2>2 DEF LiveEntries
  <2>4. \A u \in Task : u # t => LiveEntries(u)' = LiveEntries(u)
    BY <1>4 DEF LiveEntries
  <2>5. new \in Ptr
    BY <1>1 DEF Ptr
  <2>6. Open(t)'
    BY <1>10, <1>11
  <2>7. QED BY <1>10, <2>3, <2>4, <2>5, <2>6 DEF Logged
<1>13. /\ \A u \in Task : \A f \in Logged(u) :
            /\ Deref(f)' = Deref(f) /\ f[1] = u /\ f \in Ptr
       /\ \A g : g = new => Deref(g)' = e /\ g[1] = t
  <2>1. \A u \in Task : \A f \in Logged(u) : f[1] = u /\ f \in Ptr /\ f[2] \in 1 .. tx[u].write_log
    BY Entries
  <2>2. entry'[t][n] = e
    <3> HIDE DEF n
    <3>1. QED BY <1>1, <1>6
  <2>3. \A g : g = new => Deref(g)' = e /\ g[1] = t
    <3> HIDE DEF n
    <3>1. QED BY <2>2 DEF Deref
  <2>4. QED BY <1>7, <2>1, <2>3 DEF Deref
<1>14. /\ \A u \in Task : \A f \in Logged(u) : u[1] = t[1] /\ Deref(f).stripe = s =>
            \E b \in Ptr : /\ tx[t].ptr = b /\ b[1][1] = t[1] /\ u[2] <= b[1][2]
                           /\ tx[u].serial <= last(u)
       /\ \A b \in Ptr : tx[t].ptr = b =>
            /\ b[1] \in Task /\ b[1][1] = t[1] /\ b[1][2] < t[2] /\ b \in Logged(b[1])
            /\ Deref(b).stripe = s
  <2>1. write_lock[s] = tx[t].ptr
    OBVIOUS
  <2> HIDE DEF s
  <2>2. QED BY <1>1, <2>1, WonOnTop
<1> HIDE DEF n, new, s, a
<1>15. \A u \in Task : \A f \in Logged(u) : u[1] = t[1] /\ Deref(f).stripe = s =>
         u[2] < t[2] /\ u # t
  <2>1. ASSUME NEW u \in Task, NEW f \in Logged(u), u[1] = t[1], Deref(f).stripe = s
        PROVE  u[2] < t[2] /\ u # t
    <3>1. PICK b \in Ptr : tx[t].ptr = b /\ u[2] <= b[1][2]
      BY <1>14, <2>1
    <3>2. b[1][2] < t[2] /\ b[1] \in Task
      BY <1>14, <3>1
    <3>3. u[2] \in Nat /\ t[2] \in Nat /\ b[1][2] \in Nat
      BY <3>2, Numbers
    <3>4. QED BY <3>1, <3>2, <3>3
  <2>2. QED BY <2>1
<1>16. ASSUME NEW u \in Task PROVE Chained(u)'
  <2> SUFFICES ASSUME NEW f \in Logged(u)'
      PROVE /\ (Deref(f).serial = tx[u].serial /\ Deref(f).stripe \in Stripe)'
            /\ (\A b \in Ptr : Under(f) = b => /\ b \in Logged(b[1]) /\ SameStripe(f, b)
                                               /\ b[1][2] < u[2])'
            /\ (\A v \in Task : \A g \in Logged(v) : SameStripe(f, g) =>
                  /\ v = u => g = f
                  /\ v[2] < u[2] => \E b \in Ptr : Under(f) = b /\ v[2] <= b[1][2])'
    BY DEF Chained
  <2>1. CASE f \in Logged(u)
    <3>1. Chained(u) /\ Deref(f)' = Deref(f) /\ f[1] = u /\ f \in Ptr /\ Under(f)' = Under(f)
      BY <1>13, <2>1 DEF LogsInv, Under
    <3>2. (Deref(f).serial = tx[u].serial /\ Deref(f).stripe \in Stripe)'
      BY <1>10, <2>1, <3>1 DEF Chained
    <3>3. ASSUME NEW b \in Ptr, Under(f)' = b
          PROVE  b \in Logged(b[1])' /\ SameStripe(f, b)' /\ b[1][2] < u[2]
      <4>1. b \in Logged(b[1]) /\ SameStripe(f, b) /\ b[1][2] < u[2] /\ b[1] \in Task
        BY <2>1, <3>1, <3>3 DEF Chained, Ptr
      <4>2. b \in Logged(b[1])'
        BY <1>12, <4>1
      <4>3. Deref(b)' = Deref(b)
        BY <1>13, <4>1
      <4>4. QED BY <3>1, <4>1, <4>2, <4>3 DEF SameStripe
    <3>4. ASSUME NEW v \in Task, NEW g \in Logged(v)', SameStripe(f, g)'
          PROVE  /\ v = u => g = f
                 /\ v[2] < u[2] => \E b \in Ptr : Under(f)' = b /\ v[2] <= b[1][2]
      <4>1. CASE g \in Logged(v)
        <5>1. SameStripe(f, g)
          BY <1>13, <3>1, <3>4, <4>1 DEF SameStripe
        <5>2. QED BY <2>1, <3>1, <4>1, <5>1 DEF Chained
      <4>2. CASE g \notin Logged(v)
        <5>1. v = t /\ g = new
          BY <1>12, <3>4, <4>2
        <5>2. u[1] = t[1] /\ Deref(f).stripe = s
          <6>1. Deref(g)' = e /\ g[1][1] = t[1]
            BY <1>13, <5>1
          <6>2. f[1][1] = t[1] /\ Deref(f)'.stripe = s
            BY <1>5, <3>4, <6>1 DEF SameStripe
          <6>3. QED BY <3>1, <6>2
        <5>3. u[2] < t[2] /\ u # t
          BY <1>15, <2>1, <5>2
        <5>4. ~ (v[2] < u[2])
          BY <5>1, <5>3, Numbers
        <5>5. QED BY <5>1, <5>3, <5>4
      <4>3. QED BY <4>1, <4>2
    <3>5. QED BY <3>2, <3>3, <3>4
  <2>2. CASE f \notin Logged(u)
    <3>1. u = t /\ f = new /\ Deref(f)' = e /\ Under(f)' = tx[t].ptr /\ f[1][1] = t[1]
      <4>1. u = t /\ f = new
        BY <1>12, <2>2
      <4>2. Deref(f)' = e /\ f[1] = t
        BY <1>13, <4>1
      <4>3. QED BY <1>5, <4>1, <4>2 DEF Under
    <3>2. (Deref(f).serial = tx[u].serial /\ Deref(f).stripe \in Stripe)'
      BY <1>1, <1>5, <1>10, <3>1
    <3>3. ASSUME NEW b \in Ptr, Under(f)' = b
          PROVE  b \in Logged(b[1])' /\ SameStripe(f, b)' /\ b[1][2] < u[2]
      <4>1. /\ b[1] \in Task /\ b[1][1] = t[1] /\ b[1][2] < t[2] /\ b \in Logged(b[1])
            /\ Deref(b).stripe = s
        BY <1>14, <3>1, <3>3
      <4>2. b \in Logged(b[1])' /\ Deref(b)' = Deref(b)
        BY <1>12, <1>13, <4>1
      <4>3. QED BY <1>5, <3>1, <4>1, <4>2 DEF SameStripe
    <3>4. ASSUME NEW v \in Task, NEW g \in Logged(v)', SameStripe(f, g)'
          PROVE  /\ v = u => g = f
                 /\ v[2] < u[2] => \E b \in Ptr : Under(f)' = b /\ v[2] <= b[1][2]
      <4>1. CASE g \in Logged(v)
        <5>1. v[1] = t[1] /\ Deref(g).stripe = s
          BY <1>5, <1>13, <3>1, <3>4, <4>1 DEF SameStripe
        <5>2. v[2] < t[2] /\ v # t
          BY <1>15, <4>1, <5>1
        <5>3. \E b \in Ptr : tx[t].ptr = b /\ v[2] <= b[1][2]
          BY <1>14, <4>1, <5>1
        <5>4. QED BY <3>1, <5>2, <5>3
      <4>2. CASE g \notin Logged(v)
        <5>1. v = t /\ g = new
          BY <1>12, <3>4, <4>2
        <5>2. ~ (v[2] < u[2])
          BY <3>1, <5>1, Numbers
        <5>3. QED BY <3>1, <5>1, <5>2
      <4>3. QED BY <4>1, <4>2
    <3>5. QED BY <3>2, <3>3, <3>4
  <2>3. QED BY <2>1, <2>2
<1>17. ASSUME NEW f \in Ptr PROVE Due(f)' <=> Due(f)
  <2>1. Committer(f[1]) \in Task
    BY Numbers DEF Ptr
  <2>2. CASE Committer(f[1]) = t
    BY <1>1, <1>3, <1>4, <2>1, <2>2 DEF Due, Committer
  <2>3. CASE Committer(f[1]) # t
    BY <1>4, <2>1, <2>3 DEF Due, Committer
  <2>4. QED BY <2>2, <2>3
<1>18. /\ write_lock'[s] = new
       /\ \A v \in Stripe : v # s => write_lock'[v] = write_lock[v]
  BY <1>1, <1>2 DEF TypeOK
<1>19. Topmost'
  <2>1. ASSUME NEW v \in Stripe, NEW f \in Ptr, write_lock'[v] = f
        PROVE  f \in Logged(f[1])' /\ Due(f)' /\ Deref(f)'.stripe = v
    <3>1. CASE v = s
      <4>1. f = new /\ f[1] = t /\ f[1][1] = t[1]
        BY <1>13, <1>18, <2>1, <3>1
      <4>2. Due(f)
        BY <1>11, <4>1, NotCommitting
      <4>3. Due(f)' /\ f \in Logged(t)' /\ Deref(f)' = e
        <5>1. Due(f)'
          BY <1>17, <4>2
        <5>2. f \in Logged(t)' /\ Deref(f)' = e
          BY <1>12, <1>13, <4>1
        <5>3. QED BY <5>1, <5>2
      <4>4. QED BY <1>5, <3>1, <4>1, <4>3
    <3>2. CASE v # s
      <4>1. f \in Logged(f[1]) /\ Due(f) /\ Deref(f).stripe = v /\ f[1] \in Task
        BY <1>18, <2>1, <3>2 DEF LogsInv, Topmost, Ptr
      <4>2. f \in Logged(f[1])'
        BY <1>12, <4>1
      <4>3. QED BY <1>13, <1>17, <4>1, <4>2
    <3>3. QED BY <3>1, <3>2
  <2>2. ASSUME NEW u \in Task, NEW f \in Logged(u)', Due(f)'
        PROVE  \E top \in Ptr : /\ write_lock'[Deref(f)'.stripe] = top /\ top[1][1] = u[1]
                                /\ top # f => u[2] < top[1][2] /\ tx'[u].serial <= last(u)'
    <3>1. CASE f \in Logged(u)
      <4>1. Deref(f)' = Deref(f) /\ f \in Ptr /\ Due(f) /\ Deref(f).stripe \in Stripe
        BY <1>13, <1>17, <2>2, <3>1 DEF LogsInv, Chained
      <4>2. PICK top \in Ptr : /\ write_lock[Deref(f).stripe] = top /\ top[1][1] = u[1]
                               /\ top # f => u[2] < top[1][2] /\ tx[u].serial <= last(u)
        BY <3>1, <4>1 DEF LogsInv, Topmost
      <4>3. tx'[u].serial = tx[u].serial /\ last(u)' = last(u)
        BY <1>9, <1>10
      <4>4. CASE Deref(f).stripe # s
        BY <1>18, <4>1, <4>2, <4>3, <4>4
      <4>5. CASE Deref(f).stripe = s
        <5>1. top[1][1] = t[1]
          <6>1. tx[t].ptr = top
            BY <4>2, <4>5 DEF s, a
          <6>2. QED BY <1>14, <6>1
        <5>2. u[2] < t[2] /\ tx[u].serial <= last(u)
          BY <1>14, <1>15, <3>1, <4>2, <4>5, <5>1
        <5>3. new[1] = t
          BY <1>13
        <5>4. QED BY <1>12, <1>18, <4>1, <4>2, <4>3, <4>5, <5>1, <5>2, <5>3
      <4>6. QED BY <4>4, <4>5
    <3>2. CASE f \notin Logged(u)
      <4>1. u = t /\ f = new
        BY <1>12, <2>2, <3>2
      <4>3. Deref(f)' = e /\ f[1] = t
        BY <1>13, <4>1
      <4>2. QED BY <1>5, <1>12, <1>18, <4>1, <4>3
    <3>3. QED BY <3>1, <3>2
  <2>3. QED BY <2>1, <2>2 DEF Topmost
<1>20. ReadLocksHeld'
  <2> SUFFICES ASSUME NEW v \in Stripe, read_lock[v] = READ_LOCK_SET
      PROVE \E p \in Thread : /\ tx'[<<p, CommitTask>>].pc \in Deciding
                              /\ write_lock'[v] # NULL /\ PtidOf(write_lock'[v]) = p
    BY <1>1 DEF ReadLocksHeld, PtidOf
  <2>1. PICK p \in Thread : /\ tx[<<p, CommitTask>>].pc \in Deciding
                            /\ write_lock[v] # NULL /\ PtidOf(write_lock[v]) = p
    BY DEF LogsInv, ReadLocksHeld
  <2>2. <<p, CommitTask>> \in Task /\ <<p, CommitTask>> # t
    BY <1>1, <2>1, Constants DEF Task, CommitTask, Deciding
  <2>3. tx'[<<p, CommitTask>>].pc \in Deciding
    BY <1>4, <2>1, <2>2
  <2>4. v # s
    <3>1. SUFFICES ASSUME v = s PROVE FALSE
      OBVIOUS
    <3>2. write_lock[v] \in Ptr /\ tx[t].ptr = write_lock[v]
      BY <2>1, <3>1 DEF TypeOK, s, a
    <3>3. p = t[1]
      BY <1>14, <2>1, <3>2 DEF PtidOf
    <3>4. QED BY <1>11, <2>1, <3>3, NotCommitting DEF Committer, Deciding, Turn
  <2>5. QED BY <1>18, <2>1, <2>3, <2>4
<1>21. ASSUME NEW u \in Task PROVE Aimed(u)' /\ Versions(u)' /\ Writing(u)'
  <2>1. CASE u # t
    <3>1. last(u)' \in Nat /\ last(u)' >= last(u)
      BY <1>9
    <3>2. tx'[u] = tx[u] /\ Logged(u)' \subseteq Logged(u)
      BY <1>4, <1>12, <2>1
    <3>3. \A i \in 1 .. tx[u].write_log : /\ entry'[u][i].old_version = entry[u][i].old_version
                                          /\ entry'[u][i].stripe = entry[u][i].stripe
      BY <1>7
    <3>4. \A v \in Task : tx'[v].serial = tx[v].serial
      BY <1>10
    <3>5. QED BY <1>8, <3>1, <3>2, <3>3, <3>4, OthersKeep
  <2>2. CASE u = t
    <3>1. tx'[t].pc = "write_extend" /\ tx'[t].write_log = n /\ tx'[t].ip = tx[t].ip
      BY <1>3, <1>4
    <3>2. Aimed(t)' /\ Writing(t)'
      BY <3>1 DEF Aimed, Writing
    <3>3. ASSUME NEW f \in Logged(t)', Deref(f)'.old_version = READ_LOCK_SET PROVE f[2] = n
      <4>1. f = new \/ f \in Logged(t)
        BY <1>12
      <4>2. ASSUME f \in Logged(t) PROVE FALSE
        <5>1. Deref(f).old_version = READ_LOCK_SET
          BY <1>13, <3>3, <4>2
        <5>2. QED BY <1>1, <4>2, <5>1 DEF LogsInv, Versions
      <4>3. QED BY <4>1, <4>2 DEF new
    <3>4. n # 0 /\ entry'[t][n].stripe = s /\ Op(t)' = Op(t)
      <4>1. n # 0 /\ entry'[t][n] = e
        BY <1>1, <1>6
      <4>2. Op(t)' = Op(t)
        BY <1>10, <3>1 DEF Op, Ops
      <4>3. QED BY <1>5, <4>1, <4>2
    <3>5. Versions(t)'
      BY <3>1, <3>3, <3>4 DEF Versions, s, a
    <3>6. QED BY <2>2, <3>2, <3>5
  <2>3. QED BY <2>1, <2>2
<1>22. ASSUME NEW u \in Task PROVE Writers(u)'
  <2>1. CASE u # t
    BY <1>4, <1>9, <2>1, WritersKept DEF LogsInv
  <2>2. CASE u = t
    BY <1>3, <1>4, <2>2 DEF Writers, Committing
  <2>3. QED BY <2>1, <2>2
<1>23. QED BY <1>16, <1>19, <1>20, <1>21, <1>22 DEF LogsInv

LEMMA WriteCasKeeps ==
  ASSUME TypeOK, InOrder, LogsInv, NEW t \in Task, WriteCas(t) PROVE LogsInv'
BY WriteCasLost, WriteCasWon

----------------------------------------------------------------------------
(***************************************************************************)
(* The turn is handed on.                                                  *)
(***************************************************************************)

LEMMA CompleteKeeps ==
  ASSUME TypeOK, InOrder, LogsInv, NEW t \in Task, Complete(t) \/ ReadyTurn(t)
  PROVE  LogsInv'
<1> DEFINE ser == tx[t].serial
           lcw == PT(t).last_completed_writer
           lcw2 == IF tx[t].read_only THEN lcw ELSE ser
           done == [PT(t) EXCEPT !.last_completed_task = ser, !.last_completed_writer = lcw2]
           ready == [PT(t) EXCEPT !.last_completed_task = ser]
           next == IF tx[t].pc = "complete" THEN "progress" ELSE "ready_wait"
<1>1. /\ tx[t] \in TaskState /\ PT(t) \in ThreadState /\ tx[t].pc \in {"complete", "ready_turn"}
      /\ UNCHANGED <<entry, locks>> /\ Goto(t, next)
  BY TaskTyped DEF Complete, ReadyTurn, At
<1>2. PICK r : Become(t, r) /\ r.pc = next /\ Like(t, r)
  BY <1>1, GotoIs
<1>3. tx'[t] = r /\ \A u \in Task : u # t => tx'[u] = tx[u]
  BY <1>2 DEF Become, TypeOK
<1>4. last(t) = ser - 1 /\ ~ try_commit(t) /\ Open(t)
  <2>1. last(t) = ser - 1
    <3>1. CASE tx[t].pc = "complete"
      BY <3>1 DEF InOrder, Window, Turn, last
    <3>2. CASE ReadyTurn(t)
      BY <3>2 DEF ReadyTurn, MyTurn, last
    <3>3. QED BY <3>1, <3>2 DEF Complete, At
  <2>2. QED BY <1>1, <2>1, WorksOpen DEF InOrder, Roles, EarlierPcs, Parked
<1>5. /\ tx[t].pc = "complete" => UpdatePT(t, done)
      /\ tx[t].pc = "ready_turn" => UpdatePT(t, ready)
  BY DEF Complete, ReadyTurn, At
<1>6. /\ done.last_completed_task = ser /\ done.last_completed_writer = lcw2
      /\ ready.last_completed_task = ser /\ ready.last_completed_writer = lcw
  <2> HIDE DEF ser, lcw2
  <2>1. QED BY <1>1 DEF ThreadState
<1> HIDE DEF done, ready
<1>7. \A u \in Task : u[1] # t[1] => PT(u)' = PT(u)
  BY <1>1, <1>5, TaskTyped DEF UpdatePT, PT, TypeOK
<1>8. \A u \in Task : u[1] = t[1] =>
        /\ last(u)' = ser /\ PT(u) = PT(t)
        /\ PT(u)'.last_completed_writer = IF tx[t].pc = "complete" THEN lcw2 ELSE lcw
  <2>1. \A u \in Task : u[1] = t[1] => PT(u)' = IF tx[t].pc = "complete" THEN done ELSE ready
    BY <1>1, <1>5, TaskTyped DEF UpdatePT, PT, TypeOK
  <2>2. QED BY <1>1, <1>6, <2>1 DEF last, PT
<1>9. \A u \in Task : last(u) \in Nat /\ last(u)' \in Nat /\ last(u)' >= last(u)
  <2>1. ASSUME NEW u \in Task PROVE last(u) \in Nat /\ last(u)' \in Nat /\ last(u)' >= last(u)
    <3>1. last(u) \in Nat /\ ser \in Nat
      BY Numbers DEF last
    <3>2. u[1] = t[1] => last(u) = last(t)
      BY DEF last, PT
    <3>3. u[1] # t[1] => last(u)' = last(u)
      BY <1>7 DEF last
    <3>4. QED BY <1>4, <1>8, <3>1, <3>2, <3>3
  <2>2. QED BY <2>1
<1>10. \A u \in Task : tx'[u].serial = tx[u].serial /\ tx'[u].write_log = tx[u].write_log
                       /\ commit_serial(u)' = commit_serial(u)
  BY <1>2, <1>3 DEF Like, commit_serial, start_serial
<1>11. ASSUME NEW u \in Task PROVE Open(u)' <=> Open(u)
  <2>1. CASE u[1] # t[1]
    BY <1>7, <1>10, <2>1 DEF Open, last
  <2>2. CASE u[1] = t[1] /\ Open(u)
    <3>1. /\ commit_serial(u) = commit_serial(t) /\ commit_serial(t) = ser - t[2] + CommitTask
          /\ t[2] \in Nat /\ t[2] <= CommitTask /\ t[2] # CommitTask /\ ser \in Nat
          /\ CommitTask \in Nat
      BY <1>4, <2>2, OneTransaction, Numbers, Constants DEF commit_serial, start_serial, try_commit
    <3>2. ser < commit_serial(u)
      BY <3>1
    <3>3. QED BY <1>8, <1>10, <2>2, <3>2 DEF Open
  <2>3. CASE u[1] = t[1] /\ ~ Open(u)
    <3>1. /\ last(u) \in Nat /\ last(u)' \in Nat /\ last(u)' >= last(u)
          /\ commit_serial(u) \in Int
      BY <1>9, Numbers, Constants DEF commit_serial, start_serial
    <3>2. ~ (last(u)' < commit_serial(u))
      BY <2>3, <3>1 DEF Open
    <3>3. QED BY <1>10, <2>3, <3>2 DEF Open
  <2>4. QED BY <2>1, <2>2, <2>3
<1>12. SameLogs
  BY <1>1, <1>10, <1>11 DEF SameLogs
<1>13. \A u \in Task : Chained(u)'
  BY <1>12, ChainsKept DEF LogsInv
<1>14. Topmost'
  <2>1. ASSUME NEW e \in Ptr PROVE Due(e)' <=> Due(e)
    <3>1. Committer(e[1]) \in Task /\ try_commit(Committer(e[1]))
      BY Numbers DEF Ptr
    <3>2. Committer(e[1]) # t
      BY <1>4, <3>1
    <3>3. QED BY <1>3, <3>1, <3>2 DEF Due, Committer
  <2>2. QED BY <1>1, <1>9, <1>12, <2>1, TopsKept DEF LogsInv, locks
<1>15. ReadLocksHeld'
  <2>1. ASSUME NEW p \in Thread, tx[<<p, CommitTask>>].pc \in Deciding
        PROVE  tx'[<<p, CommitTask>>].pc \in Deciding
    <3>1. <<p, CommitTask>> \in Task
      BY Constants DEF Task, CommitTask
    <3>2. QED BY <1>1, <1>3, <2>1, <3>1 DEF Deciding
  <2>2. QED BY <1>1, <2>1, ReadsKept DEF LogsInv
<1>16. \A u \in Task : Logged(u)' = Logged(u)
  BY <1>12, LogsKept
<1>17. ASSUME NEW u \in Task PROVE Aimed(u)' /\ Versions(u)' /\ Writing(u)'
  <2>1. CASE u # t
    <3>1. last(u)' \in Nat /\ last(u)' >= last(u)
      BY <1>9
    <3>2. tx'[u] = tx[u] /\ Logged(u)' \subseteq Logged(u) /\ \A v \in Task : tx'[v].serial = tx[v].serial
      BY <1>3, <1>10, <1>16, <2>1
    <3>3. QED BY <1>1, <3>1, <3>2, OthersKeep
  <2>2. CASE u = t
    BY <1>1, <1>2, <1>3, <1>16, <2>2, OwingNothing DEF Owing
  <2>3. QED BY <2>1, <2>2
<1>18. ASSUME NEW u \in Task PROVE Writers(u)'
  <2>1. Writers(u) /\ Writers(t)
    BY DEF LogsInv
  <2>2. CASE u[1] # t[1]
    <3>1. u # t
      BY <2>2
    <3>2. last(u)' = last(u) /\ PT(u)'.last_completed_writer = PT(u).last_completed_writer
      BY <1>7, <2>2 DEF last
    <3>3. QED BY <1>3, <2>1, <3>1, <3>2, WritersKept
  <2>3. CASE u[1] = t[1] /\ u # t
    <3>1. tx'[u] = tx[u] /\ start_serial(u)' = start_serial(u)
      BY <1>3, <2>3 DEF start_serial
    <3>2. SUFFICES ASSUME tx[u].pc \in {"progress", "await_commit"}, Open(u)',
                          tx[u].serial <= ser, tx[u].write_log # 0
          PROVE  PT(u)'.last_completed_writer >= start_serial(u)
      BY <1>8, <2>1, <2>3, <3>1 DEF Writers
    <3>3. tx[u].serial # ser
      BY <2>3, Distinct
    <3>4. /\ last(u) = ser - 1 /\ tx[u].serial \in Nat /\ ser \in Nat /\ lcw \in Nat
          /\ start_serial(u) = tx[u].serial - u[2] /\ u[2] \in Nat
      BY <1>1, <1>4, <2>3, Numbers DEF last, PT, start_serial, ThreadState
    <3>5. lcw >= start_serial(u)
      <4>1. tx[u].serial <= last(u)
        BY <3>2, <3>3, <3>4
      <4>2. PT(u) = PT(t)
        BY <1>8, <2>3
      <4>3. QED BY <1>11, <2>1, <3>2, <4>1, <4>2 DEF Writers
    <3>6. ser >= start_serial(u)
      BY <3>2, <3>4
    <3>7. QED BY <1>8, <2>3, <3>5, <3>6
  <2>4. CASE u = t
    <3>1. /\ tx'[t].read_only = tx[t].read_only /\ tx'[t].write_log = tx[t].write_log
          /\ start_serial(t)' = start_serial(t) /\ tx'[t].pc = next
      BY <1>2, <1>3 DEF Like, start_serial
    <3>2. CASE tx[t].pc = "ready_turn"
      BY <2>4, <3>1, <3>2 DEF Writers, Committing
    <3>3. CASE tx[t].pc = "complete"
      <4>1. tx[t].read_only => tx[t].write_log = 0
        BY <2>1, <3>3 DEF Writers, Committing
      <4>2. ser >= start_serial(t)
        BY Numbers DEF start_serial
      <4>3. ~ tx[t].read_only => PT(t)'.last_completed_writer = ser
        BY <1>8, <3>3
      <4>4. QED BY <2>4, <3>1, <4>1, <4>2, <4>3 DEF Writers
    <3>4. QED BY <1>1, <3>2, <3>3
  <2>5. QED BY <2>2, <2>3, <2>4
<1>19. QED BY <1>13, <1>14, <1>15, <1>17, <1>18 DEF LogsInv

----------------------------------------------------------------------------
(***************************************************************************)
(* The commit task locks, writes back and releases.                        *)
(***************************************************************************)

\* The entries the commit task finds: those of all tasks of its transaction.
LEMMA AllEntries ==
  ASSUME TypeOK, InOrder, NEW t \in Task, try_commit(t), tx[t].pc \in Turn
  PROVE  /\ t = <<t[1], CommitTask>>
         /\ TxEntries(t[1]) \in SUBSET Ptr
         /\ \A e \in TxEntries(t[1]) : e[1] \in Task /\ e[1][1] = t[1] /\ e \in Logged(e[1])
         /\ \A u \in Task : \A e \in Logged(u) : u[1] = t[1] => e \in TxEntries(t[1])
<1>1. t = <<t[1], CommitTask>> /\ t[1] \in Thread
  BY Numbers DEF Committer
<1>2. TxEntries(t[1]) = UNION {LiveEntries(<<t[1], k>>) : k \in 0 .. CommitTask}
  BY DEF TxEntries
<1>3. \A k \in 0 .. CommitTask : <<t[1], k>> \in Task
  BY <1>1, Constants DEF Task, CommitTask
<1>4. ASSUME NEW e \in TxEntries(t[1])
      PROVE  e \in Ptr /\ e[1] \in Task /\ e[1][1] = t[1] /\ e \in Logged(e[1])
  <2>1. PICK k \in 0 .. CommitTask : e \in LiveEntries(<<t[1], k>>)
    BY <1>2, <1>4
  <2>2. <<t[1], k>> \in Task
    BY <1>3
  <2>3. e[1] = <<t[1], k>> /\ e \in Ptr
    BY <2>1, <2>2, Entries
  <2>4. e[1] \in Task /\ e[1][1] = t[1]
    BY <2>2, <2>3
  <2>5. Open(e[1])
    BY <2>4, CommitTurnOpen
  <2>6. QED BY <2>1, <2>3, <2>4, <2>5, Entries
<1>5. ASSUME NEW u \in Task, NEW e \in Logged(u), u[1] = t[1] PROVE e \in TxEntries(t[1])
  <2>1. u[2] \in 0 .. CommitTask /\ u = <<t[1], u[2]>>
    BY <1>5 DEF Task, CommitTask
  <2>2. e \in LiveEntries(<<t[1], u[2]>>)
    BY <2>1, Entries
  <2>3. QED BY <1>2, <2>1, <2>2
<1>6. QED BY <1>1, <1>4, <1>5

\* What holds after a step of the commit task that leaves the logs alone.
LEMMA CommitStepKeeps ==
  ASSUME TypeOK, LogsInv, NEW t \in Task, NEW r, Become(t, r), UNCHANGED entry,
         r.serial = tx[t].serial, r.write_log = tx[t].write_log, r.read_only = tx[t].read_only,
         tx[t].pc \in Committing, r.pc \notin {"progress", "await_commit"},
         r.pc \notin {"write_locked", "write_cas", "write_extend"},
         r.pc \in {"validate_commit", "write_back"} => r.version # READ_LOCK_SET,
         r.pc = "write_back" => \A e \in r.todo : e[1][1] = t[1],
         \A u \in Task : /\ last(u)' = last(u)
                         /\ \/ PT(u)'.last_completed_writer = PT(u).last_completed_writer
                            \/ PT(u)'.last_completed_writer >= start_serial(u)
  PROVE  /\ tx'[t] = r /\ \A u \in Task : u # t => tx'[u] = tx[u]
         /\ SameLogs /\ \A u \in Task : Logged(u)' = Logged(u)
         /\ \A u \in Task : last(u)' \in Nat /\ last(u)' >= last(u)
         /\ \A u \in Task : Chained(u)' /\ Aimed(u)' /\ Writers(u)' /\ Versions(u)' /\ Writing(u)'
<1>1. tx'[t] = r /\ \A u \in Task : u # t => tx'[u] = tx[u]
  BY DEF Become, TypeOK
<1>2. \A u \in Task : last(u) \in Nat /\ last(u)' \in Nat /\ last(u)' >= last(u)
  <2>1. \A u \in Task : last(u) \in Nat
    BY Numbers DEF last
  <2>2. QED BY <2>1
<1>3. \A u \in Task : /\ tx'[u].serial = tx[u].serial /\ tx'[u].write_log = tx[u].write_log
                      /\ tx'[u].read_only = tx[u].read_only
                      /\ (Open(u)' <=> Open(u)) /\ start_serial(u)' = start_serial(u)
  BY <1>1 DEF Open, commit_serial, start_serial
<1>4. SameLogs
  BY <1>3 DEF SameLogs
<1>5. \A u \in Task : Logged(u)' = Logged(u)
  BY <1>4, LogsKept
<1>6. \A u \in Task : Chained(u)'
  BY <1>4, ChainsKept DEF LogsInv
<1>7. ASSUME NEW u \in Task PROVE Aimed(u)' /\ Versions(u)' /\ Writing(u)'
  <2>1. CASE u # t
    BY <1>1, <1>2, <1>3, <1>5, <2>1, OthersKeep
  <2>2. CASE u = t
    <3>1. Aimed(t)' /\ Writing(t)'
      BY <1>1 DEF Aimed, Writing
    <3>2. \A e \in Logged(t)' : Deref(e)'.old_version # READ_LOCK_SET
      BY <1>5 DEF LogsInv, Versions, Committing, Deref
    <3>3. Versions(t)'
      BY <1>1, <3>2 DEF Versions
    <3>4. QED BY <2>2, <3>1, <3>3
  <2>3. QED BY <2>1, <2>2
<1>8. ASSUME NEW u \in Task PROVE Writers(u)'
  <2>1. Writers(u)
    BY DEF LogsInv
  <2>2. CASE u # t
    <3>1. tx'[u] = tx[u]
      BY <1>1, <2>2
    <3>2. (Open(u)' <=> Open(u)) /\ start_serial(u)' = start_serial(u) /\ last(u)' = last(u)
      BY <1>3
    <3>3. \/ PT(u)'.last_completed_writer = PT(u).last_completed_writer
          \/ PT(u)'.last_completed_writer >= start_serial(u)
      OBVIOUS
    <3>4. QED BY <2>1, <3>1, <3>2, <3>3 DEF Writers
  <2>3. CASE u = t
    BY <1>1, <1>3, <2>1, <2>3 DEF Writers
  <2>4. QED BY <2>2, <2>3
<1>9. QED BY <1>1, <1>2, <1>4, <1>5, <1>6, <1>7, <1>8

\* Two or three of the steps count nothing.
LEMMA SameLast ==
  ASSUME TypeOK, SameCounts
  PROVE  \A u \in Task : /\ last(u)' = last(u)
                         /\ PT(u)'.last_completed_writer = PT(u).last_completed_writer
<1>1. \A u \in Task : u[1] \in Thread
  BY Numbers
<1>2. QED BY <1>1 DEF SameCounts, last, PT

LEMMA LockReadsKeeps ==
  ASSUME TypeOK, InOrder, LogsInv, NEW t \in Task, LockReads(t) PROVE LogsInv'
<1>1. /\ tx[t].pc = "lock_reads" /\ tx[t].pc \in Committing /\ tx[t].pc \in Turn
      /\ UNCHANGED <<entry, write_lock>> /\ SameCounts
  BY NoCount DEF LockReads, At, Committing, Turn
<1>2. try_commit(t)
  BY <1>1 DEF InOrder, Roles, CommitPcs
<1>3. PICK r : Become(t, r) /\ r.pc = "increment_ts" /\ Like(t, r)
  BY GotoIs DEF LockReads
<1>4. /\ tx'[t] = r /\ \A u \in Task : u # t => tx'[u] = tx[u]
      /\ SameLogs /\ \A u \in Task : Logged(u)' = Logged(u)
      /\ \A u \in Task : last(u)' \in Nat /\ last(u)' >= last(u)
      /\ \A u \in Task : Chained(u)' /\ Aimed(u)' /\ Writers(u)' /\ Versions(u)' /\ Writing(u)'
  BY <1>1, <1>3, CommitStepKeeps, SameLast DEF Like
<1>5. Topmost'
  <2>1. ASSUME NEW e \in Ptr PROVE Due(e)' <=> Due(e)
    <3>1. Committer(e[1]) \in Task
      BY Numbers DEF Ptr
    <3>2. CASE Committer(e[1]) = t
      BY <1>1, <1>3, <1>4, <3>1, <3>2 DEF Due, Committer
    <3>3. CASE Committer(e[1]) # t
      BY <1>4, <3>1, <3>3 DEF Due, Committer
    <3>4. QED BY <3>2, <3>3
  <2>2. QED BY <1>1, <1>4, <2>1, TopsKept DEF LogsInv
<1>6. ReadLocksHeld'
  <2> SUFFICES ASSUME NEW s \in Stripe, read_lock'[s] = READ_LOCK_SET
      PROVE \E p \in Thread : /\ tx'[<<p, CommitTask>>].pc \in Deciding
                              /\ write_lock[s] # NULL /\ PtidOf(write_lock[s]) = p
    BY <1>1 DEF ReadLocksHeld, PtidOf
  <2>1. t = <<t[1], CommitTask>> /\ t[1] \in Thread
    BY <1>1, <1>2, AllEntries, Numbers
  <2>2. CASE On(s, TxEntries(t[1])) # {}
    <3>1. PICK e \in TxEntries(t[1]) : Deref(e).stripe = s
      BY <2>2 DEF On
    <3>2. e \in Ptr /\ e[1] \in Task /\ e[1][1] = t[1] /\ e \in Logged(e[1])
      BY <1>1, <1>2, AllEntries
    <3>3. Due(e)
      <4>1. Committer(e[1]) = t
        BY <2>1, <3>2 DEF Committer
      <4>2. QED BY <1>1, <4>1 DEF Due
    <3>4. PICK top \in Ptr : write_lock[s] = top /\ top[1][1] = t[1]
      BY <3>1, <3>2, <3>3 DEF LogsInv, Topmost
    <3>5. write_lock[s] # NULL /\ PtidOf(write_lock[s]) = t[1]
      BY <3>4, Constants DEF PtidOf
    <3>6. tx'[<<t[1], CommitTask>>].pc \in Deciding
      BY <1>3, <1>4, <2>1 DEF Deciding
    <3>7. QED BY <2>1, <3>5, <3>6
  <2>3. CASE On(s, TxEntries(t[1])) = {}
    <3>1. read_lock[s] = READ_LOCK_SET
      BY <2>3 DEF LockReads
    <3>2. PICK p \in Thread : /\ tx[<<p, CommitTask>>].pc \in Deciding
                              /\ write_lock[s] # NULL /\ PtidOf(write_lock[s]) = p
      BY <3>1 DEF LogsInv, ReadLocksHeld
    <3>3. <<p, CommitTask>> \in Task /\ <<p, CommitTask>> # t
      BY <1>1, <3>2, Constants DEF Task, CommitTask, Deciding
    <3>4. QED BY <1>4, <3>2, <3>3
  <2>4. QED BY <2>2, <2>3
<1>7. QED BY <1>4, <1>5, <1>6 DEF LogsInv

LEMMA ValidateCommitKeeps ==
  ASSUME TypeOK, InOrder, LogsInv, NEW t \in Task, ValidateCommit(t) PROVE LogsInv'
<1> DEFINE all == TxEntries(t[1])
           bad == InvalidTasks(t[1])
           from == CHOOSE k \in bad : \A j \in bad : k <= j
           good == [tx[t] EXCEPT !.pc = "write_back", !.todo = all]
           back == [tx[t] EXCEPT !.pc = "rollback", !.version = 0, !.from = from]
<1>1. /\ tx[t] \in TaskState /\ tx[t].pc = "validate_commit" /\ tx[t].pc \in Committing
      /\ tx[t].pc \in Turn /\ UNCHANGED <<entry, write_lock>> /\ SameCounts
  BY TaskTyped, NoCount DEF ValidateCommit, At, Committing, Turn
<1>2. try_commit(t)
  BY <1>1 DEF InOrder, Roles, CommitPcs
<1>3. /\ t = <<t[1], CommitTask>> /\ all \in SUBSET Ptr /\ t[1] \in Thread
      /\ \A e \in all : e[1] \in Task /\ e[1][1] = t[1] /\ e \in Logged(e[1])
      /\ \A u \in Task : \A e \in Logged(u) : u[1] = t[1] => e \in all
  BY <1>1, <1>2, AllEntries, Numbers
<1>4. \A u \in Task : /\ last(u)' = last(u)
                      /\ PT(u)'.last_completed_writer = PT(u).last_completed_writer
  BY <1>1, SameLast
<1>5. CASE Become(t, good) /\ UNCHANGED read_lock
  <2>1. /\ good.pc = "write_back" /\ good.todo = all /\ good.version = tx[t].version
        /\ good.serial = tx[t].serial /\ good.write_log = tx[t].write_log
        /\ good.read_only = tx[t].read_only
    <3> HIDE DEF all
    <3>1. QED BY <1>1 DEF TaskState
  <2>2. tx[t].version # READ_LOCK_SET
    BY <1>1 DEF LogsInv, Versions
  <2> HIDE DEF good
  <2>3. /\ tx'[t] = good /\ \A u \in Task : u # t => tx'[u] = tx[u]
        /\ SameLogs /\ \A u \in Task : Logged(u)' = Logged(u)
        /\ \A u \in Task : last(u)' \in Nat /\ last(u)' >= last(u)
        /\ \A u \in Task : Chained(u)' /\ Aimed(u)' /\ Writers(u)' /\ Versions(u)' /\ Writing(u)'
    <3>1. \A e \in good.todo : e[1][1] = t[1]
      BY <1>3, <2>1
    <3> HIDE DEF all
    <3>2. QED BY <1>1, <1>4, <1>5, <2>1, <2>2, <3>1, CommitStepKeeps
  <2>4. Topmost'
    <3>1. ASSUME NEW e \in Ptr, e \in Logged(e[1]) PROVE Due(e)' <=> Due(e)
      <4>1. Committer(e[1]) \in Task /\ e[1] \in Task
        BY Numbers DEF Ptr
      <4>2. CASE Committer(e[1]) = t
        <5>1. e \in all
          BY <1>3, <3>1, <4>1, <4>2 DEF Committer
        <5>2. QED BY <1>1, <2>1, <2>3, <4>1, <4>2, <5>1 DEF Due, Committer
      <4>3. CASE Committer(e[1]) # t
        BY <2>3, <4>1, <4>3 DEF Due, Committer
      <4>4. QED BY <4>2, <4>3
    <3>2. QED BY <1>1, <2>3, <3>1, TopsKept DEF LogsInv
  <2>5. ReadLocksHeld'
    <3>1. ASSUME NEW p \in Thread, tx[<<p, CommitTask>>].pc \in Deciding
          PROVE  tx'[<<p, CommitTask>>].pc \in Deciding
      <4>1. <<p, CommitTask>> \in Task
        BY Constants DEF Task, CommitTask
      <4>2. QED BY <2>1, <2>3, <3>1, <4>1 DEF Deciding
    <3>2. QED BY <1>1, <1>5, <3>1, ReadsKept DEF LogsInv, locks
  <2>6. QED BY <2>3, <2>4, <2>5 DEF LogsInv
<1>6. CASE Become(t, back) /\ ReleaseReadLocks(t[1])
  <2>1. /\ back.pc = "rollback" /\ back.todo = tx[t].todo
        /\ back.serial = tx[t].serial /\ back.write_log = tx[t].write_log
        /\ back.read_only = tx[t].read_only
    <3> HIDE DEF from
    <3>1. QED BY <1>1 DEF TaskState
  <2> HIDE DEF back
  <2>2. /\ tx'[t] = back /\ \A u \in Task : u # t => tx'[u] = tx[u]
        /\ SameLogs /\ \A u \in Task : Logged(u)' = Logged(u)
        /\ \A u \in Task : last(u)' \in Nat /\ last(u)' >= last(u)
        /\ \A u \in Task : Chained(u)' /\ Aimed(u)' /\ Writers(u)' /\ Versions(u)' /\ Writing(u)'
    BY <1>1, <1>4, <1>6, <2>1, CommitStepKeeps
  <2>3. Topmost'
    <3>1. ASSUME NEW e \in Ptr PROVE Due(e)' <=> Due(e)
      <4>1. Committer(e[1]) \in Task
        BY Numbers DEF Ptr
      <4>2. CASE Committer(e[1]) = t
        BY <1>1, <2>1, <2>2, <4>1, <4>2 DEF Due, Committer
      <4>3. CASE Committer(e[1]) # t
        BY <2>2, <4>1, <4>3 DEF Due, Committer
      <4>4. QED BY <4>2, <4>3
    <3>2. QED BY <1>1, <2>2, <3>1, TopsKept DEF LogsInv
  <2>4. ReadLocksHeld'
    <3> SUFFICES ASSUME NEW s \in Stripe, read_lock'[s] = READ_LOCK_SET
        PROVE \E p \in Thread : /\ tx'[<<p, CommitTask>>].pc \in Deciding
                                /\ write_lock[s] # NULL /\ PtidOf(write_lock[s]) = p
      BY <1>1 DEF ReadLocksHeld, PtidOf
    <3>1. On(s, all) = {}
      <4>1. SUFFICES ASSUME On(s, all) # {} PROVE FALSE
        OBVIOUS
      <4>2. On(s, all) \in SUBSET Ptr
        BY <1>3 DEF On
      <4>3. PICK e \in On(s, all) : e = LastOf(On(s, all))
        BY <4>1, <4>2, FirstLast
      <4>4. Deref(e).old_version = READ_LOCK_SET
        BY <1>6, <4>1, <4>3 DEF ReleaseReadLocks
      <4>5. e \in all
        BY DEF On
      <4>6. e[1] \in Task /\ e[1][1] = t[1] /\ e \in Logged(e[1])
        BY <1>3, <4>5
      <4>7. tx[e[1]].pc \in {"write_extend", "restart"}
        BY <4>4, <4>6 DEF LogsInv, Versions
      <4>8. e[1] # t => tx[e[1]].pc \in Waiting
        BY <1>1, <1>2, <4>6, CommitTurnOpen
      <4>9. QED BY <1>1, <4>7, <4>8 DEF Waiting
    <3>2. read_lock[s] = READ_LOCK_SET
      BY <1>6, <3>1 DEF ReleaseReadLocks
    <3>3. PICK p \in Thread : /\ tx[<<p, CommitTask>>].pc \in Deciding
                              /\ write_lock[s] # NULL /\ PtidOf(write_lock[s]) = p
      BY <3>2 DEF LogsInv, ReadLocksHeld
    <3>4. <<p, CommitTask>> \in Task
      BY Constants DEF Task, CommitTask
    <3>5. p # t[1]
      <4>1. SUFFICES ASSUME p = t[1] PROVE FALSE
        OBVIOUS
      <4>2. PICK e \in Ptr : write_lock[s] = e
        BY <3>3 DEF TypeOK
      <4>3. e \in Logged(e[1]) /\ Deref(e).stripe = s /\ e[1] \in Task
        BY <4>2 DEF LogsInv, Topmost, Ptr
      <4>4. e[1][1] = t[1]
        BY <3>3, <4>1, <4>2 DEF PtidOf
      <4>5. e \in all
        BY <1>3, <4>3, <4>4
      <4>6. QED BY <3>1, <4>3, <4>5 DEF On
    <3>6. <<p, CommitTask>> # t
      BY <1>3, <3>5
    <3>7. QED BY <2>2, <3>3, <3>4, <3>6
  <2>5. QED BY <2>2, <2>3, <2>4 DEF LogsInv
<1>7. QED BY <1>5, <1>6 DEF ValidateCommit

LEMMA WriteBackKeeps ==
  ASSUME TypeOK, InOrder, LogsInv, NEW t \in Task, WriteBack(t) PROVE LogsInv'
<1>1. /\ tx[t] \in TaskState /\ tx[t].pc = "write_back" /\ tx[t].pc \in Committing
      /\ tx[t].pc \in Turn /\ UNCHANGED entry /\ SameCounts
      /\ tx[t].todo # {} /\ tx[t].todo \in SUBSET Ptr
  <2>1. tx[t] \in TaskState
    BY TaskTyped
  <2>2. QED BY <2>1, NoCount DEF WriteBack, At, Committing, Turn, TaskState
<1>2. PICK e \in tx[t].todo : e = FirstOf(tx[t].todo) /\ \A f \in tx[t].todo : Before(e, f)
  BY <1>1, FirstLast
<1> DEFINE s == Deref(e).stripe
           rest == tx[t].todo \ {e}
           r == [tx[t] EXCEPT !.todo = rest]
<1>3. /\ read_lock' = IF write_lock[s] = e THEN [read_lock EXCEPT ![s] = tx[t].version] ELSE read_lock
      /\ write_lock' = IF write_lock[s] = e THEN [write_lock EXCEPT ![s] = NULL] ELSE write_lock
      /\ Become(t, r)
  BY <1>2 DEF WriteBack
<1>4. /\ r.pc = "write_back" /\ r.todo = rest /\ r.version = tx[t].version
      /\ r.serial = tx[t].serial /\ r.write_log = tx[t].write_log
      /\ r.read_only = tx[t].read_only
  <2> HIDE DEF rest
  <2>1. QED BY <1>1 DEF TaskState
<1> HIDE DEF r
<1>5. tx[t].version # READ_LOCK_SET /\ \A f \in tx[t].todo : f[1][1] = t[1]
  BY <1>1 DEF LogsInv, Versions, Writing
<1>6. try_commit(t)
  BY <1>1 DEF InOrder, Roles, CommitPcs
<1>7. t = <<t[1], CommitTask>> /\ t[1] \in Thread
  BY <1>1, <1>6, AllEntries, Numbers
<1>8. /\ tx'[t] = r /\ \A u \in Task : u # t => tx'[u] = tx[u]
      /\ SameLogs /\ \A u \in Task : Logged(u)' = Logged(u)
      /\ \A u \in Task : last(u)' \in Nat /\ last(u)' >= last(u)
      /\ \A u \in Task : Chained(u)' /\ Aimed(u)' /\ Writers(u)' /\ Versions(u)' /\ Writing(u)'
  <2>1. \A f \in r.todo : f[1][1] = t[1]
    BY <1>4, <1>5
  <2>2. \A u \in Task : /\ last(u)' = last(u)
                        /\ PT(u)'.last_completed_writer = PT(u).last_completed_writer
    BY <1>1, SameLast
  <2>3. QED BY <1>1, <1>3, <1>4, <1>5, <2>1, <2>2, CommitStepKeeps
\* The lock goes where e is on top, which is a lock of e's stripe.
<1>9. ASSUME NEW v \in Stripe
      PROVE  /\ write_lock[v] = e => write_lock'[v] = NULL /\ read_lock'[v] # READ_LOCK_SET
             /\ write_lock[v] # e => write_lock'[v] = write_lock[v] /\ read_lock'[v] = read_lock[v]
  <2>1. write_lock[v] = e => v = s
    BY <1>1 DEF LogsInv, Topmost
  <2> HIDE DEF s
  <2>2. QED BY <1>3, <1>5, <2>1 DEF TypeOK
<1>10. ASSUME NEW f \in Ptr PROVE Due(f)' <=> Due(f) /\ f # e
  <2>1. Committer(f[1]) \in Task /\ e \in tx[t].todo /\ e \in Ptr
    BY <1>1, Numbers DEF Ptr
  <2>2. CASE Committer(f[1]) = t
    <3>1. Due(f)' <=> f \in r.todo
      BY <1>4, <1>8, <2>1, <2>2 DEF Due, Committer
    <3>2. Due(f) <=> f \in tx[t].todo
      BY <1>1, <2>1, <2>2 DEF Due, Committer
    <3>3. QED BY <1>4, <3>1, <3>2
  <2>3. CASE Committer(f[1]) # t
    <3>1. Due(f)' <=> Due(f)
      BY <1>8, <2>1, <2>3 DEF Due, Committer
    <3>2. f # e
      BY <1>5, <1>7, <2>1, <2>3 DEF Committer
    <3>3. QED BY <3>1, <3>2
  <2>4. QED BY <2>2, <2>3
<1>11. Topmost'
  <2>1. ASSUME NEW v \in Stripe, NEW f \in Ptr, write_lock'[v] = f
        PROVE  f \in Logged(f[1])' /\ Due(f)' /\ Deref(f)'.stripe = v
    <3>1. write_lock[v] = f /\ f # e
      BY <1>9, <2>1, Constants
    <3>2. f \in Logged(f[1]) /\ Due(f) /\ Deref(f).stripe = v /\ f[1] \in Task
      BY <3>1 DEF LogsInv, Topmost, Ptr
    <3>3. QED BY <1>1, <1>8, <1>10, <3>1, <3>2 DEF Deref
  <2>2. ASSUME NEW u \in Task, NEW f \in Logged(u)', Due(f)'
        PROVE  \E top \in Ptr : /\ write_lock'[Deref(f)'.stripe] = top /\ top[1][1] = u[1]
                                /\ top # f => u[2] < top[1][2] /\ tx'[u].serial <= last(u)'
    <3>1. f \in Logged(u) /\ Deref(f)' = Deref(f) /\ f \in Ptr /\ f[1] = u
      BY <1>1, <1>8, Entries DEF Deref
    <3>2. Due(f) /\ f # e /\ Deref(f).stripe \in Stripe
      BY <1>10, <2>2, <3>1 DEF LogsInv, Chained
    <3>3. PICK top \in Ptr : /\ write_lock[Deref(f).stripe] = top /\ top[1][1] = u[1]
                             /\ top # f => u[2] < top[1][2] /\ tx[u].serial <= last(u)
      BY <3>1, <3>2 DEF LogsInv, Topmost
    <3>4. top # e
      <4>1. SUFFICES ASSUME top = e PROVE FALSE
        OBVIOUS
      <4>2. u[2] < e[1][2] /\ e[1][1] = u[1]
        BY <3>2, <3>3, <4>1
      <4>3. Committer(u) = t
        BY <1>5, <1>7, <4>2 DEF Committer
      <4>4. f \in tx[t].todo
        BY <1>1, <3>1, <3>2, <4>3 DEF Due
      <4>5. Before(e, f)
        BY <1>2, <4>4
      <4>6. u[2] \in Nat /\ e[1][2] \in Nat
        BY <3>3, <4>1, Numbers DEF Ptr
      <4>7. QED BY <3>1, <4>2, <4>5, <4>6 DEF Before
    <3>5. write_lock'[Deref(f).stripe] = top
      BY <1>9, <3>2, <3>3, <3>4
    <3>6. tx'[u].serial = tx[u].serial /\ last(u)' = last(u)
      BY <1>1, <1>8, SameLast DEF SameLogs
    <3>7. QED BY <3>1, <3>3, <3>5, <3>6
  <2>3. QED BY <2>1, <2>2 DEF Topmost
<1>12. ReadLocksHeld'
  <2> SUFFICES ASSUME NEW v \in Stripe, read_lock'[v] = READ_LOCK_SET
      PROVE \E p \in Thread : /\ tx'[<<p, CommitTask>>].pc \in Deciding
                              /\ write_lock'[v] # NULL /\ PtidOf(write_lock'[v]) = p
    BY DEF ReadLocksHeld, PtidOf
  <2>1. read_lock[v] = READ_LOCK_SET /\ write_lock'[v] = write_lock[v]
    BY <1>9
  <2>2. PICK p \in Thread : /\ tx[<<p, CommitTask>>].pc \in Deciding
                            /\ write_lock[v] # NULL /\ PtidOf(write_lock[v]) = p
    BY <2>1 DEF LogsInv, ReadLocksHeld
  <2>3. <<p, CommitTask>> \in Task
    BY Constants DEF Task, CommitTask
  <2>4. tx'[<<p, CommitTask>>].pc \in Deciding
    BY <1>4, <1>8, <2>2, <2>3 DEF Deciding
  <2>5. QED BY <2>1, <2>2, <2>4
<1>13. QED BY <1>8, <1>11, <1>12 DEF LogsInv

\* A commit task is done when its thread has no write lock any more.
LEMMA DoneKeeps ==
  ASSUME TypeOK, InOrder, LogsInv, NEW t \in Task, NEW r, Become(t, r), UNCHANGED <<entry, locks>>,
         r.serial = tx[t].serial, r.write_log = tx[t].write_log, r.read_only = tx[t].read_only,
         tx[t].pc \in Committing, tx[t].pc \in Turn, try_commit(t), r.pc = "commit_done",
         \A s \in Stripe : \A e \in Ptr : write_lock[s] = e => e[1][1] # t[1],
         \A u \in Task : /\ last(u)' = last(u)
                         /\ \/ PT(u)'.last_completed_writer = PT(u).last_completed_writer
                            \/ PT(u)'.last_completed_writer >= start_serial(u)
  PROVE  LogsInv'
<1>1. t = <<t[1], CommitTask>> /\ t[1] \in Thread
  BY AllEntries, Numbers
<1>2. /\ tx'[t] = r /\ \A u \in Task : u # t => tx'[u] = tx[u]
      /\ SameLogs /\ \A u \in Task : Logged(u)' = Logged(u)
      /\ \A u \in Task : last(u)' \in Nat /\ last(u)' >= last(u)
      /\ \A u \in Task : Chained(u)' /\ Aimed(u)' /\ Writers(u)' /\ Versions(u)' /\ Writing(u)'
  BY CommitStepKeeps
<1>3. ASSUME NEW f \in Ptr PROVE Due(f)' <=> Due(f) /\ f[1][1] # t[1]
  <2>1. Committer(f[1]) \in Task /\ (Committer(f[1]) = t <=> f[1][1] = t[1])
    BY <1>1, Numbers DEF Ptr, Committer
  <2>2. CASE Committer(f[1]) = t
    BY <1>2, <2>1, <2>2 DEF Due, Committer
  <2>3. CASE Committer(f[1]) # t
    BY <1>2, <2>1, <2>3 DEF Due, Committer
  <2>4. QED BY <2>2, <2>3
<1>4. Topmost'
  <2>1. ASSUME NEW v \in Stripe, NEW f \in Ptr, write_lock'[v] = f
        PROVE  f \in Logged(f[1])' /\ Due(f)' /\ Deref(f)'.stripe = v
    <3>1. write_lock[v] = f /\ f[1][1] # t[1]
      BY <2>1 DEF locks
    <3>2. f \in Logged(f[1]) /\ Due(f) /\ Deref(f).stripe = v /\ f[1] \in Task
      BY <3>1 DEF LogsInv, Topmost, Ptr
    <3>3. QED BY <1>2, <1>3, <3>1, <3>2 DEF Deref
  <2>2. ASSUME NEW u \in Task, NEW f \in Logged(u)', Due(f)'
        PROVE  \E top \in Ptr : /\ write_lock'[Deref(f)'.stripe] = top /\ top[1][1] = u[1]
                                /\ top # f => u[2] < top[1][2] /\ tx'[u].serial <= last(u)'
    <3>1. f \in Logged(u) /\ Deref(f)' = Deref(f) /\ f \in Ptr
      BY <1>2, Entries DEF Deref
    <3>2. Due(f)
      BY <1>3, <2>2, <3>1
    <3>3. PICK top \in Ptr : /\ write_lock[Deref(f).stripe] = top /\ top[1][1] = u[1]
                             /\ top # f => u[2] < top[1][2] /\ tx[u].serial <= last(u)
      BY <3>1, <3>2 DEF LogsInv, Topmost
    <3>4. tx'[u].serial = tx[u].serial /\ last(u)' = last(u) /\ write_lock' = write_lock
      BY <1>2 DEF SameLogs, locks
    <3>5. QED BY <3>1, <3>3, <3>4
  <2>3. QED BY <2>1, <2>2 DEF Topmost
<1>5. ReadLocksHeld'
  <2> SUFFICES ASSUME NEW v \in Stripe, read_lock[v] = READ_LOCK_SET
      PROVE \E p \in Thread : /\ tx'[<<p, CommitTask>>].pc \in Deciding
                              /\ write_lock[v] # NULL /\ PtidOf(write_lock[v]) = p
    BY DEF ReadLocksHeld, PtidOf, locks
  <2>1. PICK p \in Thread : /\ tx[<<p, CommitTask>>].pc \in Deciding
                            /\ write_lock[v] # NULL /\ PtidOf(write_lock[v]) = p
    BY DEF LogsInv, ReadLocksHeld
  <2>2. write_lock[v] \in Ptr
    BY <2>1 DEF TypeOK
  <2>3. p # t[1]
    BY <2>1, <2>2 DEF PtidOf
  <2>4. <<p, CommitTask>> \in Task /\ <<p, CommitTask>> # t
    BY <1>1, <2>3, Constants DEF Task, CommitTask
  <2>5. QED BY <1>2, <2>1, <2>4
<1>6. QED BY <1>2, <1>4, <1>5 DEF LogsInv

LEMMA WrittenBackKeeps ==
  ASSUME TypeOK, InOrder, LogsInv, NEW t \in Task, WrittenBack(t) PROVE LogsInv'
<1> DEFINE ser == tx[t].serial
           done == [PT(t) EXCEPT !.last_completed_writer = ser]
           r == [tx[t] EXCEPT !.pc = "commit_done", !.version = 0]
<1>1. /\ tx[t] \in TaskState /\ tx[t].pc = "write_back" /\ tx[t].pc \in Committing
      /\ tx[t].pc \in Turn /\ UNCHANGED <<entry, locks>> /\ tx[t].todo = {}
      /\ PT(t) \in ThreadState /\ UpdatePT(t, done) /\ Become(t, r)
  BY TaskTyped DEF WrittenBack, At, Committing, Turn
<1>2. try_commit(t)
  BY <1>1 DEF InOrder, Roles, CommitPcs
<1>3. t = <<t[1], CommitTask>> /\ t[1] \in Thread
  BY <1>1, <1>2, AllEntries, Numbers
<1>4. /\ r.pc = "commit_done" /\ r.serial = tx[t].serial /\ r.write_log = tx[t].write_log
      /\ r.read_only = tx[t].read_only
  BY <1>1 DEF TaskState
<1>5. /\ done.last_completed_task = PT(t).last_completed_task /\ done.last_completed_writer = ser
  <2> HIDE DEF ser
  <2>1. QED BY <1>1 DEF ThreadState
<1> HIDE DEF r, done
<1>6. ASSUME NEW u \in Task
      PROVE  /\ last(u)' = last(u)
             /\ \/ PT(u)'.last_completed_writer = PT(u).last_completed_writer
                \/ PT(u)'.last_completed_writer >= start_serial(u)
  <2>1. CASE u[1] # t[1]
    BY <1>1, <2>1, Numbers DEF UpdatePT, PT, TypeOK, last
  <2>2. CASE u[1] = t[1]
    <3>1. PT(u)' = done /\ PT(u) = PT(t)
      BY <1>1, <2>2, <1>3 DEF UpdatePT, PT, TypeOK
    <3>2. commit_serial(u) = ser /\ start_serial(u) \in Int /\ CommitTask \in Nat
      BY <1>1, <1>2, <2>2, CommitTurnOpen, Numbers, Constants DEF start_serial
    <3>3. ser >= start_serial(u)
      BY <3>2 DEF commit_serial
    <3>4. QED BY <1>5, <3>1, <3>3 DEF last
  <2>3. QED BY <2>1, <2>2
<1>7. ASSUME NEW s \in Stripe, NEW e \in Ptr, write_lock[s] = e PROVE e[1][1] # t[1]
  <2>1. Due(e)
    BY <1>7 DEF LogsInv, Topmost
  <2>2. e[1][1] = t[1] => Committer(e[1]) = t
    BY <1>3 DEF Committer
  <2>3. QED BY <1>1, <2>1, <2>2 DEF Due
<1>8. QED BY <1>1, <1>2, <1>4, <1>6, <1>7, DoneKeeps

\* The commit task of a transaction that wrote nothing has no lock to release.
LEMMA CheckTasksKeeps ==
  ASSUME TypeOK, InOrder, LogsInv, NEW t \in Task, CheckTasks(t), tx'[t].pc = "commit_done",
         \A u \in Task : Backed(u)
  PROVE  LogsInv'
<1>1. /\ tx[t] \in TaskState /\ tx[t].pc = "check_tasks" /\ tx[t].pc \in Committing
      /\ tx[t].pc \in Turn /\ UNCHANGED <<entry, locks>> /\ SameCounts
  BY TaskTyped, NoCount DEF CheckTasks, At, Committing, Turn
<1>2. PICK pc : /\ Goto(t, pc)
                /\ pc = "commit_done" => /\ try_commit(t) /\ tx[t].read_only
                                         /\ ~ (PT(t).last_completed_writer >= start_serial(t))
  BY DEF CheckTasks
<1>3. PICK r : Become(t, r) /\ r.pc = pc /\ Like(t, r)
  BY <1>2, GotoIs
<1>4. /\ r.pc = "commit_done" /\ try_commit(t) /\ tx[t].read_only
      /\ ~ (PT(t).last_completed_writer >= start_serial(t))
  <2>1. tx'[t] = r
    BY <1>3 DEF Become, TypeOK
  <2>2. QED BY <1>2, <1>3, <2>1
<1>5. ASSUME NEW s \in Stripe, NEW e \in Ptr, write_lock[s] = e PROVE e[1][1] # t[1]
  <2>1. SUFFICES ASSUME e[1][1] = t[1] PROVE FALSE
    OBVIOUS
  <2> DEFINE u == e[1]
  <2>2. u \in Task /\ u[1] = t[1] /\ e \in Logged(u)
    BY <1>5, <2>1 DEF LogsInv, Topmost, Ptr
  <2> HIDE DEF u
  <2>3. tx[u].write_log # 0
    <3>1. e[2] \in 1 .. tx[u].write_log
      BY <2>2, Entries
    <3>2. QED BY <3>1
  <2>4. tx[t].write_log = 0
    BY <1>1, <1>4 DEF LogsInv, Writers
  <2>5. u # t
    BY <2>3, <2>4
  <2>6. /\ Open(u) /\ start_serial(u) = start_serial(t) /\ Committer(u) = t
        /\ tx[u].pc \in Waiting /\ tx[u].serial <= last(u) /\ ~ tx[u].aborting_transaction
    BY <1>1, <1>4, <2>2, <2>5, CommitTurnOpen, CommitTurnAlone
  <2>7. tx[u].pc # "ready_wait"
    <3>1. SUFFICES ASSUME tx[u].pc = "ready_wait" PROVE FALSE
      OBVIOUS
    <3>2. ~ try_commit(u) /\ ~ Held(u)
      <4>1. ~ try_commit(u)
        BY <2>2, <2>5, <2>6, Numbers
      <4>2. ~ Held(u)
        BY <1>1, <2>6 DEF Held, RollingBack
      <4>3. QED BY <4>1, <4>2
    <3>3. AwaitsAbort(u)
      BY <2>6, <3>1, <3>2 DEF AwaitsAbort
    <3>4. tx[t].aborting_transaction
      BY <2>2, <2>6, <3>3 DEF Backed
    <3>5. Settled(t)
      BY <1>1, <1>4 DEF Settled, Agreed
    <3>6. QED BY <3>4, <3>5 DEF Backed
  <2>8. PT(u).last_completed_writer >= start_serial(u)
    BY <2>2, <2>3, <2>6, <2>7 DEF LogsInv, Writers, Waiting
  <2>9. QED BY <1>4, <2>2, <2>6, <2>8 DEF PT
<1>6. \A u \in Task : /\ last(u)' = last(u)
                      /\ PT(u)'.last_completed_writer = PT(u).last_completed_writer
  BY <1>1, SameLast
<1>7. QED BY <1>1, <1>3, <1>4, <1>5, <1>6, DoneKeeps DEF Like

----------------------------------------------------------------------------
(***************************************************************************)
(* Logs are dropped.                                                       *)
(***************************************************************************)

\* The entries that stay lead only to entries that stay.
LEMMA ChainsFewer ==
  ASSUME TypeOK, \A u \in Task : Chained(u), UNCHANGED entry,
         \A u \in Task : Logged(u)' \subseteq Logged(u),
         \A u \in Task : Logged(u)' # {} => tx'[u].serial = tx[u].serial,
         \A u \in Task : \A e \in Logged(u)' : \A b \in Ptr : Under(e) = b => b \in Logged(b[1])'
  PROVE  \A u \in Task : Chained(u)'
<1> SUFFICES ASSUME NEW t \in Task, NEW e \in Logged(t)'
    PROVE /\ (Deref(e).serial = tx[t].serial /\ Deref(e).stripe \in Stripe)'
          /\ (\A b \in Ptr : Under(e) = b => /\ b \in Logged(b[1]) /\ SameStripe(e, b)
                                             /\ b[1][2] < t[2])'
          /\ (\A u \in Task : \A f \in Logged(u) : SameStripe(e, f) =>
                /\ u = t => f = e
                /\ u[2] < t[2] => \E b \in Ptr : Under(e) = b /\ u[2] <= b[1][2])'
  BY DEF Chained
<1>1. /\ e \in Logged(t) /\ Chained(t) /\ tx'[t].serial = tx[t].serial
      /\ \A f : Deref(f)' = Deref(f) /\ Under(f)' = Under(f)
  BY DEF Deref, Under
<1>2. (Deref(e).serial = tx[t].serial /\ Deref(e).stripe \in Stripe)'
  BY <1>1 DEF Chained
<1>3. ASSUME NEW b \in Ptr, Under(e)' = b
      PROVE  b \in Logged(b[1])' /\ SameStripe(e, b)' /\ b[1][2] < t[2]
  <2>1. Under(e) = b
    BY <1>1, <1>3
  <2>2. SameStripe(e, b) /\ b[1][2] < t[2]
    BY <1>1, <2>1 DEF Chained
  <2>3. b \in Logged(b[1])'
    BY <2>1
  <2>4. QED BY <1>1, <2>2, <2>3 DEF SameStripe
<1>4. ASSUME NEW u \in Task, NEW f \in Logged(u)', SameStripe(e, f)'
      PROVE  /\ u = t => f = e
             /\ u[2] < t[2] => \E b \in Ptr : Under(e)' = b /\ u[2] <= b[1][2]
  <2>1. f \in Logged(u) /\ SameStripe(e, f)
    BY <1>1, <1>4 DEF SameStripe
  <2>2. /\ u = t => f = e
        /\ u[2] < t[2] => \E b \in Ptr : Under(e) = b /\ u[2] <= b[1][2]
    BY <1>1, <2>1 DEF Chained
  <2>3. QED BY <1>1, <2>2
<1>5. QED BY <1>2, <1>3, <1>4

LEMMA CommitDoneKeeps ==
  ASSUME TypeOK, InOrder, LogsInv, NEW t \in Task, CommitDone(t) PROVE LogsInv'
<1> DEFINE ser == tx[t].serial
           done == [PT(t) EXCEPT !.greedy = FALSE, !.greedy_ts = MINIMUM_TS,
                      !.locations_accessed = 0, !.progress = 0, !.last_completed_task = ser]
<1>1. /\ tx[t].pc = "commit_done" /\ tx[t].pc \in Turn /\ tx[t].pc \in Committing
      /\ UNCHANGED <<entry, locks>> /\ UpdatePT(t, done) /\ PT(t) \in ThreadState
  BY TaskTyped DEF CommitDone, At, Turn, Committing
<1>2. try_commit(t)
  BY <1>1 DEF InOrder, Roles, CommitPcs
<1>3. t = <<t[1], CommitTask>> /\ t[1] \in Thread
  BY <1>1, <1>2, AllEntries, Numbers
<1>4. PICK r : Become(t, r) /\ r.pc = "committed" /\ Like(t, r)
  BY GotoIs DEF CommitDone
<1>5. tx'[t] = r /\ \A u \in Task : u # t => tx'[u] = tx[u]
  BY <1>4 DEF Become, TypeOK
<1>6. \A u \in Task : /\ tx'[u].serial = tx[u].serial /\ tx'[u].write_log = tx[u].write_log
                      /\ tx'[u].read_only = tx[u].read_only
                      /\ start_serial(u)' = start_serial(u) /\ commit_serial(u)' = commit_serial(u)
  BY <1>4, <1>5 DEF Like, start_serial, commit_serial
<1>7. done.last_completed_task = ser
  <2> HIDE DEF ser
  <2>1. QED BY <1>1 DEF ThreadState
<1> HIDE DEF done
<1>8. \A u \in Task : u[1] # t[1] => PT(u)' = PT(u) /\ last(u)' = last(u) /\ (Open(u)' <=> Open(u))
  <2>1. \A u \in Task : u[1] # t[1] => PT(u)' = PT(u)
    BY <1>1, Numbers DEF UpdatePT, PT, TypeOK
  <2>2. QED BY <1>6, <2>1 DEF last, Open
<1>9. ASSUME NEW u \in Task, u[1] = t[1]
      PROVE  /\ last(u)' = ser /\ last(u) = ser - 1 /\ ~ Open(u)' /\ tx[t].pc \in Turn
  <2>1. last(u)' = ser
    BY <1>1, <1>3, <1>7, <1>9 DEF UpdatePT, PT, TypeOK, last
  <2>2. commit_serial(u) = ser /\ last(u) = ser - 1 /\ ser \in Nat
    BY <1>1, <1>2, <1>9, CommitTurnOpen, Numbers
  <2>3. ~ Open(u)'
    BY <1>6, <2>1, <2>2 DEF Open
  <2>4. QED BY <1>1, <2>1, <2>2, <2>3
<1>10. \A u \in Task : last(u)' \in Nat /\ last(u) \in Nat /\ last(u)' >= last(u)
  <2>1. \A u \in Task : last(u) \in Nat /\ ser \in Nat
    BY Numbers DEF last
  <2>2. QED BY <1>8, <1>9, <2>1
<1>11. ASSUME NEW u \in Task
       PROVE  /\ u[1] # t[1] => Logged(u)' = Logged(u)
              /\ u[1] = t[1] => Logged(u)' = {}
  BY <1>6, <1>8, <1>9 DEF Logged, LiveEntries
<1>12. \A u \in Task : Logged(u)' \subseteq Logged(u)
  BY <1>11
<1>13. \A u \in Task : Chained(u)'
  <2>1. ASSUME NEW u \in Task, NEW e \in Logged(u)', NEW b \in Ptr, Under(e) = b
        PROVE  b \in Logged(b[1])'
    <3>1. u[1] # t[1] /\ e \in Logged(u) /\ b[1] \in Task
      BY <1>11 DEF Ptr
    <3>2. b \in Logged(b[1]) /\ b[1][1] = u[1]
      <4>1. b \in Logged(b[1]) /\ SameStripe(e, b)
        BY <2>1, <3>1 DEF LogsInv, Chained
      <4>2. e[1] = u
        BY <3>1, Entries
      <4>3. QED BY <4>1, <4>2 DEF SameStripe
    <3>3. QED BY <1>11, <3>1, <3>2
  <2>2. QED BY <1>1, <1>6, <1>12, <2>1, ChainsFewer DEF LogsInv
<1>14. ASSUME NEW f \in Ptr PROVE /\ f[1][1] # t[1] => (Due(f)' <=> Due(f))
                                  /\ f[1][1] = t[1] => ~ Due(f)
  <2>1. Committer(f[1]) \in Task /\ (Committer(f[1]) = t <=> f[1][1] = t[1])
    BY <1>3, Numbers DEF Ptr, Committer
  <2>2. QED BY <1>1, <1>5, <2>1 DEF Due, Committer
<1>15. Topmost'
  <2>1. ASSUME NEW v \in Stripe, NEW f \in Ptr, write_lock'[v] = f
        PROVE  f \in Logged(f[1])' /\ Due(f)' /\ Deref(f)'.stripe = v
    <3>1. f \in Logged(f[1]) /\ Due(f) /\ Deref(f).stripe = v /\ f[1] \in Task
      BY <1>1, <2>1 DEF LogsInv, Topmost, Ptr, locks
    <3>2. QED BY <1>1, <1>11, <1>14, <3>1 DEF Deref
  <2>2. ASSUME NEW u \in Task, NEW f \in Logged(u)', Due(f)'
        PROVE  \E top \in Ptr : /\ write_lock'[Deref(f)'.stripe] = top /\ top[1][1] = u[1]
                                /\ top # f => u[2] < top[1][2] /\ tx'[u].serial <= last(u)'
    <3>1. f \in Logged(u) /\ u[1] # t[1] /\ f[1] = u /\ f \in Ptr /\ Deref(f)' = Deref(f)
      BY <1>1, <1>11, Entries DEF Deref
    <3>2. Due(f)
      BY <1>14, <2>2, <3>1
    <3>3. PICK top \in Ptr : /\ write_lock[Deref(f).stripe] = top /\ top[1][1] = u[1]
                             /\ top # f => u[2] < top[1][2] /\ tx[u].serial <= last(u)
      BY <3>1, <3>2 DEF LogsInv, Topmost
    <3>4. tx'[u].serial = tx[u].serial /\ last(u)' = last(u) /\ write_lock' = write_lock
      BY <1>1, <1>6, <1>8, <3>1 DEF locks
    <3>5. QED BY <3>1, <3>3, <3>4
  <2>3. QED BY <2>1, <2>2 DEF Topmost
<1>16. ReadLocksHeld'
  <2>1. ASSUME NEW p \in Thread, tx[<<p, CommitTask>>].pc \in Deciding
        PROVE  tx'[<<p, CommitTask>>].pc \in Deciding
    <3>1. <<p, CommitTask>> \in Task /\ <<p, CommitTask>> # t
      BY <1>1, <2>1, Constants DEF Task, CommitTask, Deciding
    <3>2. QED BY <1>5, <2>1, <3>1
  <2>2. QED BY <1>1, <2>1, ReadsKept DEF LogsInv
<1>17. ASSUME NEW u \in Task PROVE Aimed(u)' /\ Versions(u)' /\ Writing(u)'
  <2>1. CASE u # t
    BY <1>1, <1>5, <1>6, <1>10, <1>12, <2>1, OthersKeep
  <2>2. CASE u = t
    BY <1>1, <1>4, <1>5, <1>12, <2>2, OwingNothing DEF Owing
  <2>3. QED BY <2>1, <2>2
<1>18. ASSUME NEW u \in Task PROVE Writers(u)'
  <2>1. Writers(u)
    BY DEF LogsInv
  <2>2. CASE u[1] # t[1]
    <3>1. tx'[u] = tx[u]
      BY <1>5, <2>2
    <3>2. QED BY <1>8, <2>1, <2>2, <3>1, WritersKept
  <2>3. CASE u[1] = t[1]
    <3>1. tx'[u].pc \in Committing /\ tx'[u].read_only => tx'[u].write_log = 0
      BY <1>1, <1>4, <1>5, <1>6, <2>1 DEF Writers
    <3>2. QED BY <1>9, <2>3, <3>1 DEF Writers
  <2>4. QED BY <2>2, <2>3
<1>19. QED BY <1>13, <1>15, <1>16, <1>17, <1>18 DEF LogsInv

LEMMA TxCommittedKeeps ==
  ASSUME TypeOK, InOrder, LogsInv, NEW t \in Task, TxCommitted(t) PROVE LogsInv'
<1>1. /\ tx[t] \in TaskState /\ tx[t].pc = "committed" /\ ~ Open(t)
      /\ UNCHANGED <<entry, locks, prog_thread>>
  BY TaskTyped, WorksOpen DEF TxCommitted, At
<1>2. PICK r : Become(t, r) /\ r.pc = "start" /\ r.write_log = 0
  <2> DEFINE c == Cleared(tx[t])
             n == c.serial + SpecDepth
             log == IF tx[t].read_only THEN c.write_log ELSE 0
             r == [c EXCEPT !.serial = n, !.write_log = log]
  <2>1. Become(t, r)
    BY DEF TxCommitted
  <2>2. /\ r.pc = "start" /\ r.write_log = log
        /\ c.write_log = tx[t].write_log
    <3>1. /\ c.pc = "start" /\ c.write_log = tx[t].write_log
          /\ c = [c EXCEPT !.pc = "start"] /\ {"pc", "serial", "write_log"} \subseteq DOMAIN c
      <4>1. DOMAIN c = DOMAIN tx[t] /\ {"pc", "serial", "write_log"} \subseteq DOMAIN tx[t]
        BY <1>1 DEF Cleared, TaskState
      <4>2. c.pc = "start" /\ c.write_log = tx[t].write_log
        BY <1>1 DEF Cleared, TaskState
      <4>3. c = [x \in DOMAIN c |-> c[x]]
        BY DEF Cleared
      <4> HIDE DEF c
      <4>4. c = [c EXCEPT !.pc = "start"]
        BY <4>2, <4>3
      <4>5. QED BY <4>1, <4>2, <4>4
    <3> HIDE DEF c, n, log
    <3>2. QED BY <3>1
  <2>3. tx[t].read_only => tx[t].write_log = 0
    BY <1>1 DEF LogsInv, Writers, Committing
  <2>4. log = 0
    BY <2>2, <2>3
  <2> HIDE DEF r
  <2>5. QED BY <2>1, <2>2, <2>4
<1>3. tx'[t] = r /\ \A u \in Task : u # t => tx'[u] = tx[u]
  BY <1>2 DEF Become, TypeOK
<1>4. \A u \in Task : last(u)' = last(u) /\ last(u) \in Nat /\ PT(u)' = PT(u)
  <2>1. \A u \in Task : last(u) \in Nat
    BY Numbers DEF last
  <2>2. QED BY <1>1, <2>1 DEF last, PT
<1>5. ASSUME NEW u \in Task PROVE Logged(u)' = Logged(u) /\ (u = t => Logged(u) = {})
  <2>1. CASE u = t
    <3>1. LiveEntries(t)' = {}
      BY <1>2, <1>3 DEF LiveEntries
    <3>2. QED BY <1>1, <2>1, <3>1 DEF Logged
  <2>2. CASE u # t
    BY <1>3, <1>4, <2>2 DEF Logged, LiveEntries, Open, commit_serial, start_serial
  <2>3. QED BY <2>1, <2>2
<1>6. \A u \in Task : Chained(u)'
  <2>1. ASSUME NEW u \in Task, NEW e \in Logged(u)', NEW b \in Ptr, Under(e) = b
        PROVE  b \in Logged(b[1])'
    <3>1. e \in Logged(u) /\ b[1] \in Task
      BY <1>5 DEF Ptr
    <3>2. b \in Logged(b[1])
      BY <2>1, <3>1 DEF LogsInv, Chained
    <3>3. QED BY <1>5, <3>1, <3>2
  <2>2. \A u \in Task : Logged(u)' # {} => tx'[u].serial = tx[u].serial
    BY <1>3, <1>5
  <2>3. QED BY <1>1, <1>5, <2>1, <2>2, ChainsFewer DEF LogsInv
<1>7. ASSUME NEW f \in Ptr PROVE Due(f)' <=> Due(f)
  <2>1. Committer(f[1]) \in Task
    BY Numbers DEF Ptr
  <2>2. CASE Committer(f[1]) = t
    BY <1>1, <1>2, <1>3, <2>1, <2>2 DEF Due, Committer
  <2>3. CASE Committer(f[1]) # t
    BY <1>3, <2>1, <2>3 DEF Due, Committer
  <2>4. QED BY <2>2, <2>3
<1>8. Topmost'
  <2>1. ASSUME NEW v \in Stripe, NEW f \in Ptr, write_lock'[v] = f
        PROVE  f \in Logged(f[1])' /\ Due(f)' /\ Deref(f)'.stripe = v
    <3>1. f \in Logged(f[1]) /\ Due(f) /\ Deref(f).stripe = v /\ f[1] \in Task
      BY <1>1, <2>1 DEF LogsInv, Topmost, Ptr, locks
    <3>2. QED BY <1>1, <1>5, <1>7, <3>1 DEF Deref
  <2>2. ASSUME NEW u \in Task, NEW f \in Logged(u)', Due(f)'
        PROVE  \E top \in Ptr : /\ write_lock'[Deref(f)'.stripe] = top /\ top[1][1] = u[1]
                                /\ top # f => u[2] < top[1][2] /\ tx'[u].serial <= last(u)'
    <3>1. f \in Logged(u) /\ u # t /\ f \in Ptr /\ Deref(f)' = Deref(f)
      BY <1>1, <1>5, Entries DEF Deref
    <3>2. Due(f)
      BY <1>7, <2>2, <3>1
    <3>3. PICK top \in Ptr : /\ write_lock[Deref(f).stripe] = top /\ top[1][1] = u[1]
                             /\ top # f => u[2] < top[1][2] /\ tx[u].serial <= last(u)
      BY <3>1, <3>2 DEF LogsInv, Topmost
    <3>4. tx'[u].serial = tx[u].serial /\ last(u)' = last(u) /\ write_lock' = write_lock
      BY <1>1, <1>3, <1>4, <3>1 DEF locks
    <3>5. QED BY <3>1, <3>3, <3>4
  <2>3. QED BY <2>1, <2>2 DEF Topmost
<1>9. ReadLocksHeld'
  <2>1. ASSUME NEW p \in Thread, tx[<<p, CommitTask>>].pc \in Deciding
        PROVE  tx'[<<p, CommitTask>>].pc \in Deciding
    <3>1. <<p, CommitTask>> \in Task /\ <<p, CommitTask>> # t
      BY <1>1, <2>1, Constants DEF Task, CommitTask, Deciding
    <3>2. QED BY <1>3, <2>1, <3>1
  <2>2. QED BY <1>1, <2>1, ReadsKept DEF LogsInv
\* A task that aims at an entry of t is not of a transaction that committed.
<1>10. ASSUME NEW u \in Task, u # t, NEW b \in Ptr, tx[u].ptr = b, b[1][1] = u[1],
              tx[u].pc \in {"write_locked", "write_cas"}
       PROVE  b[1] # t
  <2>1. SUFFICES ASSUME b[1] = t PROVE FALSE
    OBVIOUS
  <2>2. start_serial(t) = start_serial(u)
    BY <1>10, <2>1 DEF LogsInv, Aimed
  <2>3. Open(u) /\ t[1] = u[1]
    BY <1>10, <2>1, WorksOpen DEF Parked
  <2>4. Open(t)
    BY <2>2, <2>3 DEF Open, commit_serial, last, PT
  <2>5. QED BY <1>1, <2>4
<1>11. ASSUME NEW u \in Task, u # t PROVE Aimed(u)'
  <2>1. Aimed(u) /\ tx'[u] = tx[u]
    BY <1>3, <1>11 DEF LogsInv
  <2>2. ASSUME NEW b \in Ptr, tx'[u].ptr = b, tx'[u].pc \in {"write_locked", "write_cas"}
        PROVE  /\ b[1][1] = u[1] => start_serial(b[1])' = start_serial(u)'
                                    /\ Deref(b)'.serial = tx'[b[1]].serial
               /\ tx'[u].pc = "write_cas" => b[1][1] = u[1] /\ tx'[b[1]].serial <= last(u)'
    <3>1. CASE b[1][1] # u[1]
      BY <2>1, <2>2, <3>1 DEF Aimed
    <3>2. CASE b[1][1] = u[1]
      <4>1. b[1] # t /\ b[1] \in Task
        BY <1>10, <1>11, <2>1, <2>2, <3>2 DEF Ptr
      <4>2. tx'[b[1]] = tx[b[1]] /\ Deref(b)' = Deref(b) /\ last(u)' = last(u)
        BY <1>1, <1>3, <1>4, <4>1 DEF Deref
      <4>3. QED BY <2>1, <2>2, <3>2, <4>2 DEF Aimed, start_serial
    <3>3. QED BY <3>1, <3>2
  <2>3. QED BY <2>2 DEF Aimed
<1>12. ASSUME NEW u \in Task PROVE Aimed(u)' /\ Writers(u)' /\ Versions(u)' /\ Writing(u)'
  <2>1. Writers(u) /\ Versions(u) /\ Writing(u)
    BY DEF LogsInv
  <2>2. CASE u # t
    <3>1. tx'[u] = tx[u] /\ Logged(u)' = Logged(u) /\ last(u)' = last(u) /\ PT(u)' = PT(u)
      BY <1>3, <1>4, <1>5, <2>2
    <3>2. Writers(u)'
      BY <2>1, <3>1, WritersKept
    <3>3. Versions(u)'
      BY <1>1, <2>1, <3>1, VersionsKept
    <3>4. Writing(u)'
      BY <2>1, <3>1 DEF Writing
    <3>5. QED BY <1>11, <2>2, <3>2, <3>3, <3>4
  <2>3. CASE u = t
    <3>1. Logged(t)' = {} /\ tx'[t].pc = "start"
      BY <1>2, <1>3, <1>5
    <3>2. QED BY <2>3, <3>1 DEF Aimed, Writers, Versions, Writing, Committing
  <2>4. QED BY <2>2, <2>3
<1>13. QED BY <1>6, <1>8, <1>9, <1>12 DEF LogsInv

\* The entries on the stripe s of the tasks whose logs are dropped.
Dropped(gone, s) ==
  {e \in Ptr : e[1] \in gone /\ e \in Logged(e[1]) /\ Deref(e).stripe = s}

\* Dropping, on every stripe, all entries above one puts the lock back to what
\* is under it.
LEMMA DropKeeps ==
  ASSUME TypeOK, LogsInv, NEW p \in Thread, NEW gone \in SUBSET Task,
         \A u \in gone : u[1] = p,
         UNCHANGED <<entry, read_lock>>,
         \A u \in Task : Logged(u)' = IF u \in gone THEN {} ELSE Logged(u),
         \A u \in Task : tx'[u].serial = tx[u].serial,
         \A u \in Task : u \notin gone /\ Logged(u) # {} /\ tx[u].serial <= last(u)
                           => tx[u].serial <= last(u)',
         \A f \in Ptr : (Due(f)' <=> Due(f)) /\ (f[1][1] = p => Due(f)),
         \A u \in gone : \A e \in Logged(u) : \A v \in Task : \A f \in Logged(v) :
           SameStripe(e, f) /\ u[2] <= v[2] => v \in gone,
         \A s \in Stripe :
           \/ Dropped(gone, s) = {} /\ write_lock'[s] = write_lock[s]
           \/ \E f \in Dropped(gone, s) : /\ \A h \in Dropped(gone, s) : f[1][2] <= h[1][2]
                                          /\ write_lock'[s] = Under(f),
         \A q \in Thread : tx[<<q, CommitTask>>].pc \in Deciding
                             => q # p /\ tx'[<<q, CommitTask>>].pc \in Deciding
  PROVE  (\A u \in Task : Chained(u)') /\ Topmost' /\ ReadLocksHeld'
<1>1. \A u \in Task : /\ Logged(u)' \subseteq Logged(u)
                      /\ Logged(u)' # {} => u \notin gone /\ Logged(u)' = Logged(u)
  OBVIOUS
<1>2. \A f : Deref(f)' = Deref(f) /\ Under(f)' = Under(f)
  BY DEF Deref, Under
<1>3. \A s \in Stripe : \A f \in Dropped(gone, s) :
        /\ f \in Ptr /\ f[1] \in gone /\ f[1] \in Task /\ f \in Logged(f[1])
        /\ Deref(f).stripe = s /\ f[1][1] = p /\ Due(f)
  BY DEF Dropped
\* Such an entry is under a write lock of p.
<1>4. ASSUME NEW s \in Stripe, NEW f \in Dropped(gone, s)
      PROVE  \E top \in Ptr : /\ write_lock[s] = top /\ top[1][1] = p
                              /\ top # f => f[1][2] < top[1][2]
  <2>1. /\ f[1] \in Task /\ f \in Logged(f[1]) /\ Deref(f).stripe = s /\ f[1][1] = p /\ Due(f)
    BY <1>3
  <2>2. QED BY <2>1 DEF LogsInv, Topmost
<1>5. \A u \in Task : Chained(u)'
  <2>1. ASSUME NEW u \in Task, NEW e \in Logged(u)', NEW b \in Ptr, Under(e) = b
        PROVE  b \in Logged(b[1])'
    <3>1. e \in Logged(u) /\ u \notin gone /\ b[1] \in Task
      BY <1>1 DEF Ptr
    <3>2. b \in Logged(b[1]) /\ SameStripe(e, b) /\ b[1][2] < u[2]
      BY <2>1, <3>1 DEF LogsInv, Chained
    <3>3. SameStripe(b, e)
      BY <3>2 DEF SameStripe
    <3>4. b[1][2] <= u[2]
      BY <3>1, <3>2, Numbers
    <3>5. b[1] \notin gone
      BY <3>1, <3>2, <3>3, <3>4
    <3>6. QED BY <3>1, <3>2, <3>5
  <2>2. \A u \in Task : Logged(u)' # {} => tx'[u].serial = tx[u].serial
    OBVIOUS
  <2>3. QED BY <1>1, <2>1, <2>2, ChainsFewer DEF LogsInv
<1>6. ASSUME NEW s \in Stripe, NEW e \in Ptr, write_lock'[s] = e
      PROVE  e \in Logged(e[1])' /\ Due(e)' /\ Deref(e)'.stripe = s
  <2>1. e[1] \in Task
    BY DEF Ptr
  <2>2. CASE Dropped(gone, s) = {} /\ write_lock'[s] = write_lock[s]
    <3>1. e \in Logged(e[1]) /\ Due(e) /\ Deref(e).stripe = s
      BY <1>6, <2>2 DEF LogsInv, Topmost
    <3>2. e[1] \notin gone
      BY <2>2, <3>1 DEF Dropped
    <3>3. QED BY <1>2, <2>1, <3>1, <3>2
  <2>3. CASE \E f \in Dropped(gone, s) : /\ \A h \in Dropped(gone, s) : f[1][2] <= h[1][2]
                                         /\ write_lock'[s] = Under(f)
    <3>1. PICK f \in Dropped(gone, s) : (\A h \in Dropped(gone, s) : f[1][2] <= h[1][2])
                                        /\ Under(f) = e
      BY <1>6, <2>3
    <3>2. f[1] \in Task /\ f \in Logged(f[1]) /\ Deref(f).stripe = s /\ f[1][1] = p
      BY <1>3
    <3>3. e \in Logged(e[1]) /\ SameStripe(f, e) /\ e[1][2] < f[1][2]
      BY <3>1, <3>2 DEF LogsInv, Chained
    <3>4. Deref(e).stripe = s /\ e[1][1] = p
      BY <3>2, <3>3 DEF SameStripe
    <3>5. e[1] \notin gone
      <4>1. SUFFICES ASSUME e[1] \in gone PROVE FALSE
        OBVIOUS
      <4>2. e \in Dropped(gone, s)
        BY <3>3, <3>4, <4>1 DEF Dropped
      <4>3. f[1][2] <= e[1][2]
        BY <3>1, <4>2
      <4>4. QED BY <2>1, <3>2, <3>3, <4>3, Numbers
    <3>6. QED BY <1>2, <2>1, <3>3, <3>4, <3>5
  <2>4. QED BY <2>2, <2>3
<1>7. ASSUME NEW u \in Task, NEW e \in Logged(u)', Due(e)'
      PROVE  \E top \in Ptr : /\ write_lock'[Deref(e)'.stripe] = top /\ top[1][1] = u[1]
                              /\ top # e => u[2] < top[1][2] /\ tx'[u].serial <= last(u)'
  <2> DEFINE s == Deref(e).stripe
  <2>1. u \notin gone /\ e \in Logged(u) /\ e \in Ptr /\ e[1] = u
    BY <1>1, Entries
  <2>2. Due(e) /\ s \in Stripe
    BY <1>7, <2>1 DEF LogsInv, Chained
  <2>3. PICK top \in Ptr : /\ write_lock[s] = top /\ top[1][1] = u[1]
                           /\ top # e => u[2] < top[1][2] /\ tx[u].serial <= last(u)
    BY <2>1, <2>2 DEF LogsInv, Topmost
  <2>4. top # e => tx'[u].serial <= last(u)'
    BY <2>1, <2>3
  <2>5. CASE Dropped(gone, s) = {} /\ write_lock'[s] = write_lock[s]
    BY <1>2, <2>3, <2>4, <2>5
  <2>6. CASE \E f \in Dropped(gone, s) : /\ \A h \in Dropped(gone, s) : f[1][2] <= h[1][2]
                                         /\ write_lock'[s] = Under(f)
    <3>1. PICK f \in Dropped(gone, s) : write_lock'[s] = Under(f)
      BY <2>6
    <3>2. /\ f \in Ptr /\ f[1] \in gone /\ f[1] \in Task /\ f \in Logged(f[1])
          /\ Deref(f).stripe = s /\ f[1][1] = p
      BY <1>3, <2>2
    <3>3. top[1][1] = p /\ (top # f => f[1][2] < top[1][2])
      BY <1>4, <2>2, <2>3
    <3>4. SameStripe(f, e) /\ u[1] = p
      BY <2>1, <2>3, <3>2, <3>3 DEF SameStripe
    <3>5. u[2] < f[1][2]
      <4>1. ~ (f[1][2] <= u[2])
        BY <2>1, <3>2, <3>4
      <4>2. QED BY <3>2, <4>1, Numbers
    <3>6. top # e
      <4>1. e # f
        BY <2>1, <3>2
      <4>2. top = e => f[1][2] < u[2]
        BY <2>1, <3>3, <4>1
      <4>3. QED BY <3>2, <3>5, <4>2, Numbers
    <3>7. PICK b \in Ptr : Under(f) = b /\ u[2] <= b[1][2]
      BY <2>1, <3>2, <3>4, <3>5 DEF LogsInv, Chained
    <3>8. b \in Logged(b[1]) /\ SameStripe(f, b) /\ b[1] \in Task
      BY <3>2, <3>7 DEF LogsInv, Chained, Ptr
    <3>9. b[1][1] = p /\ SameStripe(e, b)
      BY <3>2, <3>4, <3>8 DEF SameStripe
    <3>10. b # e => u[2] < b[1][2]
      <4>1. SUFFICES ASSUME b # e, ~ (u[2] < b[1][2]) PROVE FALSE
        OBVIOUS
      <4>2. u[2] = b[1][2]
        BY <3>7, <3>8, <4>1, Numbers
      <4>3. b[1] = u
        BY <3>4, <3>8, <3>9, <4>2 DEF Task
      <4>4. QED BY <2>1, <3>8, <3>9, <4>1, <4>3 DEF LogsInv, Chained
    <3>11. QED BY <1>2, <2>4, <3>1, <3>4, <3>6, <3>7, <3>9, <3>10
  <2>7. QED BY <2>2, <2>5, <2>6
<1>8. ReadLocksHeld'
  <2> SUFFICES ASSUME NEW s \in Stripe, read_lock[s] = READ_LOCK_SET
      PROVE \E q \in Thread : /\ tx'[<<q, CommitTask>>].pc \in Deciding
                              /\ write_lock'[s] # NULL /\ PtidOf(write_lock'[s]) = q
    BY DEF ReadLocksHeld, PtidOf
  <2>1. PICK q \in Thread : /\ tx[<<q, CommitTask>>].pc \in Deciding
                            /\ write_lock[s] # NULL /\ PtidOf(write_lock[s]) = q
    BY DEF LogsInv, ReadLocksHeld
  <2>2. q # p /\ tx'[<<q, CommitTask>>].pc \in Deciding
    BY <2>1
  <2>3. Dropped(gone, s) = {}
    BY <1>4, <2>1, <2>2 DEF PtidOf
  <2>4. write_lock'[s] = write_lock[s]
    BY <2>3
  <2>5. QED BY <2>1, <2>2, <2>4
<1>9. QED BY <1>5, <1>6, <1>7, <1>8 DEF Topmost

LEMMA TxRestartKeeps ==
  ASSUME TypeOK, InOrder, LogsInv, NEW t \in Task, TxRestart(t) PROVE LogsInv'
<1>1. /\ tx[t] \in TaskState /\ tx[t].pc = "restart" /\ tx[t].pc \notin Waiting \cup Turn
      /\ UNCHANGED <<entry, read_lock, prog_thread>> /\ Open(t) /\ last(t) < tx[t].serial
  BY TaskTyped, WorksOpen DEF TxRestart, At, Waiting, Turn, Parked
<1>2. PICK r : /\ Become(t, r) /\ r.pc = "start" /\ r.write_log = 0 /\ r.serial = tx[t].serial
  <2> DEFINE c == Cleared(tx[t])
             r == [c EXCEPT !.write_log = 0]
  <2>1. Become(t, r)
    BY DEF TxRestart
  <2>2. r.pc = "start" /\ r.write_log = 0 /\ r.serial = tx[t].serial
    BY <1>1 DEF Cleared, TaskState
  <2> HIDE DEF r
  <2>3. QED BY <2>1, <2>2
<1>3. tx'[t] = r /\ \A u \in Task : u # t => tx'[u] = tx[u]
  BY <1>2 DEF Become, TypeOK
<1>4. \A u \in Task : last(u)' = last(u) /\ last(u) \in Nat /\ PT(u)' = PT(u)
  <2>1. \A u \in Task : last(u) \in Nat
    BY Numbers DEF last
  <2>2. QED BY <1>1, <2>1 DEF last, PT
<1>5. \A u \in Task : Logged(u)' = IF u \in {t} THEN {} ELSE Logged(u)
  <2>1. LiveEntries(t)' = {}
    BY <1>2, <1>3 DEF LiveEntries
  <2>2. \A u \in Task : u # t => Logged(u)' = Logged(u)
    BY <1>3, <1>4 DEF Logged, LiveEntries, Open, commit_serial, start_serial
  <2>3. QED BY <2>1, <2>2 DEF Logged
<1>6. \A u \in Task : tx'[u].serial = tx[u].serial
  BY <1>2, <1>3
<1>7. ASSUME NEW f \in Ptr PROVE (Due(f)' <=> Due(f)) /\ (f[1][1] = t[1] => Due(f))
  <2>1. Committer(f[1]) \in Task
    BY Numbers DEF Ptr
  <2>2. CASE Committer(f[1]) = t
    BY <1>1, <1>2, <1>3, <2>1, <2>2, NotCommitting DEF Due, Committer
  <2>3. CASE Committer(f[1]) # t
    BY <1>1, <1>3, <2>1, <2>3, NotCommitting DEF Due, Committer
  <2>4. QED BY <2>2, <2>3
\* The task has not completed, so its entries are on top.
<1>8. ASSUME NEW e \in Logged(t)
      PROVE  write_lock[Deref(e).stripe] = e /\ e \in Ptr /\ e[1] = t /\ e \in LiveEntries(t)
  <2>1. e \in Ptr /\ e[1] = t /\ e \in LiveEntries(t)
    BY Entries
  <2>2. PICK top \in Ptr : /\ write_lock[Deref(e).stripe] = top
                           /\ top # e => tx[t].serial <= last(t)
    BY <1>7, <2>1 DEF LogsInv, Topmost
  <2>3. ~ (tx[t].serial <= last(t))
    BY <1>1, <1>4, Numbers
  <2>4. QED BY <2>1, <2>2, <2>3
<1>9. ASSUME NEW e \in Logged(t), NEW v \in Task, NEW f \in Logged(v), SameStripe(e, f), t[2] <= v[2]
      PROVE  v \in {t}
  <2>1. SUFFICES ASSUME v # t PROVE FALSE
    OBVIOUS
  <2>2. f \in Ptr /\ f[1] = v /\ v[1] = t[1] /\ Deref(f).stripe = Deref(e).stripe /\ e[1] = t
    BY <1>8, <1>9, Entries DEF SameStripe
  <2>3. Due(f)
    BY <1>7, <2>2
  <2>4. PICK top \in Ptr : /\ write_lock[Deref(f).stripe] = top
                           /\ top # f => v[2] < top[1][2]
    BY <2>3 DEF LogsInv, Topmost
  <2>5. v[2] < t[2]
    BY <1>8, <2>1, <2>2, <2>4
  <2>6. QED BY <1>9, <2>5, Numbers
<1>10. ASSUME NEW s \in Stripe
       PROVE  \/ Dropped({t}, s) = {} /\ write_lock'[s] = write_lock[s]
              \/ \E f \in Dropped({t}, s) : /\ \A h \in Dropped({t}, s) : f[1][2] <= h[1][2]
                                            /\ write_lock'[s] = Under(f)
  <2> DEFINE mine == On(s, LiveEntries(t))
  <2>1. mine = Dropped({t}, s) /\ mine \in SUBSET Ptr
    <3>1. \A e : e \in mine <=> e \in LiveEntries(t) /\ Deref(e).stripe = s
      BY DEF On
    <3>2. \A e : e \in Dropped({t}, s) <=> e \in Ptr /\ e[1] = t /\ e \in Logged(e[1]) /\ Deref(e).stripe = s
      BY DEF Dropped
    <3>3. \A e : e \in LiveEntries(t) <=> e \in Ptr /\ e[1] = t /\ e \in Logged(t)
      <4>1. ASSUME NEW e PROVE e \in LiveEntries(t) <=> e \in Ptr /\ e[1] = t /\ e \in Logged(t)
        BY <1>1, Entries
      <4>2. QED BY <4>1
    <3>4. QED BY <3>1, <3>2, <3>3
  <2>2. write_lock'[s] = IF mine = {} THEN write_lock[s] ELSE Deref(LastOf(mine)).old_entry
    BY DEF TxRestart
  <2> HIDE DEF mine
  <2>3. CASE mine = {}
    BY <2>1, <2>2, <2>3
  <2>4. CASE mine # {}
    <3>1. LastOf(mine) \in mine
      BY <2>1, <2>4, FirstLast
    <3>2. PICK f \in mine : f = LastOf(mine)
      BY <3>1
    <3>3. write_lock'[s] = Under(f)
      BY <2>2, <2>4, <3>2 DEF Under
    <3>4. \A h \in Dropped({t}, s) : h[1] = t
      BY DEF Dropped
    <3>5. f \in Dropped({t}, s)
      BY <2>1, <3>2
    <3>6. \A h \in Dropped({t}, s) : f[1][2] <= h[1][2]
      BY <3>4, <3>5, Numbers
    <3>7. QED BY <3>3, <3>5, <3>6
  <2>5. QED BY <2>3, <2>4
<1>11. ASSUME NEW q \in Thread, tx[<<q, CommitTask>>].pc \in Deciding
       PROVE  q # t[1] /\ tx'[<<q, CommitTask>>].pc \in Deciding
  <2>1. <<q, CommitTask>> \in Task /\ <<q, CommitTask>> # t
    BY <1>1, <1>11, Constants DEF Task, CommitTask, Deciding
  <2>2. q # t[1]
    <3>1. tx[Committer(t)].pc \notin Turn
      BY <1>1, NotCommitting
    <3>2. QED BY <1>11, <3>1 DEF Committer, Turn, Deciding
  <2>3. QED BY <1>3, <1>11, <2>1, <2>2
<1>12. (\A u \in Task : Chained(u)') /\ Topmost' /\ ReadLocksHeld'
  <2>1. t[1] \in Thread /\ {t} \in SUBSET Task /\ \A u \in {t} : u[1] = t[1]
    BY Numbers
  <2>2. \A u \in Task : u \notin {t} /\ Logged(u) # {} /\ tx[u].serial <= last(u)
                          => tx[u].serial <= last(u)'
    BY <1>4
  <2>3. \A u \in {t} : \A e \in Logged(u) : \A v \in Task : \A f \in Logged(v) :
          SameStripe(e, f) /\ u[2] <= v[2] => v \in {t}
    BY <1>9
  <2>4. \A f \in Ptr : (Due(f)' <=> Due(f)) /\ (f[1][1] = t[1] => Due(f))
    BY <1>7
  <2>5. QED BY <1>1, <1>5, <1>6, <1>10, <1>11, <2>1, <2>2, <2>3, <2>4, DropKeeps
<1>13. ASSUME NEW u \in Task PROVE Aimed(u)' /\ Writers(u)' /\ Versions(u)' /\ Writing(u)'
  <2>1. CASE u # t
    <3>1. tx'[u] = tx[u] /\ Logged(u)' \subseteq Logged(u) /\ last(u)' = last(u) /\ PT(u)' = PT(u)
      BY <1>3, <1>4, <1>5, <2>1
    <3>2. last(u)' \in Nat /\ last(u)' >= last(u)
      BY <1>4, <3>1
    <3>3. Aimed(u)' /\ Versions(u)' /\ Writing(u)'
      BY <1>1, <1>6, <3>1, <3>2, OthersKeep
    <3>4. Writers(u)'
      BY <3>1, WritersKept DEF LogsInv
    <3>5. QED BY <3>3, <3>4
  <2>2. CASE u = t
    <3>1. Logged(t)' = {} /\ tx'[t].pc = "start"
      BY <1>2, <1>3, <1>5
    <3>2. QED BY <2>2, <3>1 DEF Aimed, Writers, Versions, Writing, Committing
  <2>3. QED BY <2>1, <2>2
<1>14. QED BY <1>12, <1>13 DEF LogsInv

LEMMA RollbackKeeps ==
  ASSUME TypeOK, InOrder, LogsInv, NEW t \in Task, RollbackTransaction(t) PROVE LogsInv'
<1> DEFINE p == t[1]
           from == tx[t].from
           gone == {<<p, k>> : k \in from .. CommitTask}
           Under_(s) == On(s, UNION {LiveEntries(u) : u \in gone})
           before == start_serial(t) + from - 1
           done == [PT(t) EXCEPT !.last_completed_writer = before, !.progress = 0,
                                 !.last_completed_task = before]
           r == [tx[t] EXCEPT !.write_log = 0, !.aborting_transaction = FALSE,
                              !.i = from, !.pc = "rollback_clear"]
<1>1. /\ tx[t] \in TaskState /\ PT(t) \in ThreadState /\ tx[t].pc = "rollback"
      /\ tx[t].pc \in Turn /\ UNCHANGED <<entry, read_lock>>
  BY TaskTyped DEF RollbackTransaction, At, Turn
<1>2. /\ \A s \in Stripe : write_lock'[s] = IF Under_(s) = {} THEN write_lock[s]
                                            ELSE Deref(FirstOf(Under_(s))).old_entry
      /\ UpdatePT(t, done)
      /\ tx' = [u \in Task |-> IF u = t THEN r
                               ELSE IF u \in gone THEN [tx[u] EXCEPT !.write_log = 0] ELSE tx[u]]
  BY DEF RollbackTransaction
<1>3. try_commit(t)
  BY <1>1 DEF InOrder, Roles, CommitPcs
<1>4. t = <<p, CommitTask>> /\ p \in Thread
  BY <1>1, <1>3, AllEntries, Numbers
<1>5. from \in 0 .. CommitTask /\ from \in Nat /\ CommitTask \in Nat
  BY Numbers, Constants
<1>6. /\ gone \in SUBSET Task /\ t \in gone /\ \A u \in gone : u[1] = p
      /\ \A u \in Task : u \in gone <=> u[1] = p /\ from <= u[2]
  <2>1. \A k \in from .. CommitTask : k \in 0 .. CommitTask
    BY <1>5
  <2>2. \A u \in Task : u = <<u[1], u[2]>> /\ u[2] \in 0 .. CommitTask /\ u[1] \in Thread
    BY DEF Task, CommitTask
  <2>3. gone \in SUBSET Task /\ \A u \in gone : u[1] = p
    BY <1>4, <2>1 DEF Task, CommitTask
  <2>4. ASSUME NEW u \in Task PROVE u \in gone <=> u[1] = p /\ from <= u[2]
    <3>1. ASSUME u \in gone PROVE u[1] = p /\ from <= u[2]
      BY <3>1
    <3>2. ASSUME u[1] = p, from <= u[2] PROVE u \in gone
      <4>1. u[2] \in from .. CommitTask
        BY <1>5, <2>2, <3>2
      <4>2. QED BY <2>2, <3>2, <4>1
    <3>3. QED BY <3>1, <3>2
  <2>5. t[2] = CommitTask
    BY <1>3 DEF try_commit
  <2>6. t \in gone
    BY <1>5, <2>4, <2>5
  <2>7. QED BY <2>3, <2>4, <2>6
<1> HIDE DEF gone
<1>7. /\ r.pc = "rollback_clear" /\ r.write_log = 0 /\ r.serial = tx[t].serial
  <2> HIDE DEF from
  <2>1. QED BY <1>1 DEF TaskState
<1>8. done.last_completed_task = before /\ done.last_completed_writer = before
  <2> HIDE DEF before
  <2>1. QED BY <1>1 DEF ThreadState
<1> HIDE DEF r, done
<1>9. ASSUME NEW u \in Task
      PROVE  /\ u = t => tx'[u] = r
             /\ u # t => /\ tx'[u].pc = tx[u].pc /\ tx'[u].serial = tx[u].serial
                         /\ tx'[u].read_only = tx[u].read_only
                         /\ u \in gone => tx'[u].write_log = 0
                         /\ u \notin gone => tx'[u] = tx[u]
  <2>1. tx'[u] = IF u = t THEN r
                 ELSE IF u \in gone THEN [tx[u] EXCEPT !.write_log = 0] ELSE tx[u]
    BY <1>2
  <2>2. tx[u] \in TaskState
    BY TaskTyped
  <2>3. LET q == [tx[u] EXCEPT !.write_log = 0]
        IN q.pc = tx[u].pc /\ q.serial = tx[u].serial /\ q.read_only = tx[u].read_only /\ q.write_log = 0
    BY <2>2 DEF TaskState
  <2>4. QED BY <2>1, <2>3
<1>10. \A u \in Task : /\ tx'[u].serial = tx[u].serial
                       /\ start_serial(u)' = start_serial(u) /\ commit_serial(u)' = commit_serial(u)
  BY <1>7, <1>9 DEF start_serial, commit_serial
<1>11. \A u \in Task : /\ u[1] # p => PT(u)' = PT(u) /\ last(u)' = last(u)
                       /\ u[1] = p => PT(u)'.last_completed_writer = before /\ last(u)' = before
  BY <1>1, <1>2, <1>4, <1>8, Numbers DEF UpdatePT, PT, TypeOK, last
\* The tasks of the thread are of this transaction.
<1>12. ASSUME NEW u \in Task, u[1] = p
       PROVE  /\ start_serial(u) = start_serial(t) /\ start_serial(t) \in Int
              /\ tx[u].serial = start_serial(t) + u[2] /\ u[2] \in Nat
              /\ commit_serial(u) = start_serial(t) + CommitTask /\ Open(u)
              /\ u # t => tx[u].pc \in Waiting
  <2>1. start_serial(t) \in Int /\ u[2] \in Nat
    BY Numbers DEF start_serial
  <2>2. QED BY <1>1, <1>3, <1>12, <2>1, CommitTurnOpen DEF commit_serial
<1>13. \A u \in Task : Open(u)' <=> Open(u)
  <2>1. ASSUME NEW u \in Task, u[1] = p PROVE Open(u)'
    <3>1. before < start_serial(t) + CommitTask
      BY <1>5, <1>12, <2>1
    <3>2. QED BY <1>10, <1>11, <1>12, <2>1, <3>1 DEF Open
  <2>2. \A u \in Task : u[1] # p => (Open(u)' <=> Open(u))
    BY <1>10, <1>11 DEF Open
  <2>3. QED BY <1>12, <2>1, <2>2
<1>14. \A u \in Task : Logged(u)' = IF u \in gone THEN {} ELSE Logged(u)
  <2>1. ASSUME NEW u \in gone PROVE Logged(u)' = {}
    <3>1. u \in Task /\ tx'[u].write_log = 0
      BY <1>6, <1>7, <1>9
    <3>2. QED BY <3>1 DEF Logged, LiveEntries
  <2>2. ASSUME NEW u \in Task, u \notin gone PROVE Logged(u)' = Logged(u)
    <3>1. tx'[u] = tx[u]
      BY <1>6, <1>9, <2>2
    <3>2. QED BY <1>13, <3>1 DEF Logged, LiveEntries
  <2>3. QED BY <2>1, <2>2
<1>15. ASSUME NEW u \in Task, u[1] # p PROVE tx'[u] = tx[u]
  BY <1>6, <1>9, <1>15
<1>16. ASSUME NEW f \in Ptr PROVE (Due(f)' <=> Due(f)) /\ (f[1][1] = p => Due(f))
  <2>1. Committer(f[1]) \in Task /\ (Committer(f[1]) = t <=> f[1][1] = p)
        /\ Committer(f[1])[1] = f[1][1]
    BY <1>4, Numbers DEF Ptr, Committer
  <2>2. CASE f[1][1] = p
    BY <1>1, <1>7, <1>9, <2>1, <2>2 DEF Due, Committer
  <2>3. CASE f[1][1] # p
    BY <1>15, <2>1, <2>3 DEF Due, Committer
  <2>4. QED BY <2>2, <2>3
<1>17. ASSUME NEW u \in Task, u \notin gone, tx[u].serial <= last(u)
       PROVE  tx[u].serial <= last(u)'
  <2>1. CASE u[1] = p
    <3>1. u[2] < from
      BY <1>5, <1>6, <1>12, <1>17, <2>1
    <3>2. start_serial(t) + u[2] <= before
      BY <1>5, <1>12, <2>1, <3>1
    <3>3. QED BY <1>11, <1>12, <2>1, <3>2
  <2>2. CASE u[1] # p
    BY <1>11, <1>17, <2>2
  <2>3. QED BY <2>1, <2>2
<1>18. ASSUME NEW u \in gone, NEW e \in Logged(u), NEW v \in Task, NEW f \in Logged(v),
              SameStripe(e, f), u[2] <= v[2]
       PROVE  v \in gone
  <2>1. u \in Task /\ e[1] = u /\ f[1] = v /\ u[1] = p /\ from <= u[2]
    BY <1>6, Entries
  <2>2. v[1] = p
    BY <1>18, <2>1 DEF SameStripe
  <2>3. from <= v[2]
    BY <1>5, <1>18, <2>1, Numbers
  <2>4. QED BY <1>6, <2>2, <2>3
<1>19. ASSUME NEW s \in Stripe
       PROVE  \/ Dropped(gone, s) = {} /\ write_lock'[s] = write_lock[s]
              \/ \E f \in Dropped(gone, s) : /\ \A h \in Dropped(gone, s) : f[1][2] <= h[1][2]
                                             /\ write_lock'[s] = Under(f)
  <2> DEFINE mine == Under_(s)
  <2>1. mine = Dropped(gone, s) /\ mine \in SUBSET Ptr
    <3>1. ASSUME NEW e PROVE e \in mine <=> e \in Dropped(gone, s)
      <4>1. e \in mine <=> (\E u \in gone : e \in LiveEntries(u)) /\ Deref(e).stripe = s
        BY DEF On
      <4>2. e \in Dropped(gone, s) <=> e \in Ptr /\ e[1] \in gone /\ e \in Logged(e[1])
                                       /\ Deref(e).stripe = s
        BY DEF Dropped
      <4>3. ASSUME NEW u \in gone, e \in LiveEntries(u)
            PROVE  e \in Ptr /\ e[1] \in gone /\ e \in Logged(e[1])
        <5>1. u \in Task /\ u[1] = p
          BY <1>6
        <5>2. QED BY <1>12, <4>3, <5>1, Entries
      <4>4. ASSUME e[1] \in gone, e \in Logged(e[1]) PROVE \E u \in gone : e \in LiveEntries(u)
        BY <4>4 DEF Logged
      <4>5. QED BY <4>1, <4>2, <4>3, <4>4
    <3>2. QED BY <3>1 DEF Dropped
  <2>2. write_lock'[s] = IF mine = {} THEN write_lock[s] ELSE Deref(FirstOf(mine)).old_entry
    BY <1>2
  <2> HIDE DEF mine
  <2>3. CASE mine = {}
    BY <2>1, <2>2, <2>3
  <2>4. CASE mine # {}
    <3>1. PICK f \in mine : f = FirstOf(mine) /\ \A h \in mine : Before(f, h)
      BY <2>1, <2>4, FirstLast
    <3>2. write_lock'[s] = Under(f)
      BY <2>2, <2>4, <3>1 DEF Under
    <3>3. \A h \in mine : f[1][2] <= h[1][2]
      <4>1. \A h \in mine : h[1] \in Task
        BY <2>1 DEF Ptr
      <4>2. QED BY <3>1, <4>1, Numbers DEF Before
    <3>4. QED BY <2>1, <3>2, <3>3
  <2>5. QED BY <2>3, <2>4
<1>20. ASSUME NEW q \in Thread, tx[<<q, CommitTask>>].pc \in Deciding
       PROVE  q # p /\ tx'[<<q, CommitTask>>].pc \in Deciding
  <2>1. <<q, CommitTask>> \in Task /\ <<q, CommitTask>> # t
    BY <1>1, <1>20, Constants DEF Task, CommitTask, Deciding
  <2>2. q # p
    BY <1>4, <2>1
  <2>3. QED BY <1>15, <1>20, <2>1, <2>2
<1>21. (\A u \in Task : Chained(u)') /\ Topmost' /\ ReadLocksHeld'
  <2> HIDE DEF p, from
  <2>1. \A u \in Task : tx'[u].serial = tx[u].serial
    BY <1>10
  <2>2. \A u \in Task : u \notin gone /\ Logged(u) # {} /\ tx[u].serial <= last(u)
                          => tx[u].serial <= last(u)'
    BY <1>17
  <2>3. \A u \in gone : \A e \in Logged(u) : \A v \in Task : \A f \in Logged(v) :
          SameStripe(e, f) /\ u[2] <= v[2] => v \in gone
    BY <1>18
  <2>4. \A f \in Ptr : (Due(f)' <=> Due(f)) /\ (f[1][1] = p => Due(f))
    BY <1>16
  <2>5. gone \in SUBSET Task /\ (\A u \in gone : u[1] = p) /\ p \in Thread
    BY <1>4, <1>6
  <2>6. UNCHANGED <<entry, read_lock>>
    BY <1>1
  <2>7. QED BY <1>14, <1>19, <1>20, <2>1, <2>2, <2>3, <2>4, <2>5, <2>6, DropKeeps
<1>22. ASSUME NEW u \in Task PROVE Aimed(u)' /\ Writers(u)' /\ Versions(u)' /\ Writing(u)'
  <2>1. Logged(u)' \subseteq Logged(u) /\ last(u) \in Nat
    BY <1>14, Numbers DEF last
  <2>2. CASE u[1] # p
    <3>1. tx'[u] = tx[u] /\ last(u)' = last(u) /\ PT(u)' = PT(u)
      BY <1>11, <1>15, <2>2
    <3>2. last(u)' \in Nat /\ last(u)' >= last(u)
      BY <2>1, <3>1
    <3>3. Aimed(u)' /\ Versions(u)' /\ Writing(u)'
      BY <1>1, <1>10, <2>1, <3>1, <3>2, OthersKeep
    <3>4. Writers(u)'
      BY <3>1, WritersKept DEF LogsInv
    <3>5. QED BY <3>3, <3>4
  <2>3. CASE u[1] = p
    <3>1. tx'[u].pc \in Waiting \cup {"rollback_clear"} /\ tx[u].pc \notin {"write_extend", "restart"}
      BY <1>1, <1>7, <1>9, <1>12, <2>3 DEF Waiting
    <3>2. Aimed(u)' /\ Writing(u)'
      BY <3>1 DEF Aimed, Writing, Waiting
    <3>3. Versions(u)'
      <4>1. \A e \in Logged(u)' : Deref(e)'.old_version # READ_LOCK_SET
        BY <1>1, <2>1, <3>1 DEF LogsInv, Versions, Deref
      <4>2. QED BY <3>1, <4>1 DEF Versions, Waiting
    <3>4. Writers(u)'
      <4>1. CASE u = t
        BY <1>7, <1>9, <4>1 DEF Writers, Committing
      <4>2. CASE u # t
        <5>1. /\ tx'[u].pc = tx[u].pc /\ tx'[u].read_only = tx[u].read_only
              /\ u \in gone => tx'[u].write_log = 0
              /\ u \notin gone => tx'[u].write_log = tx[u].write_log
          BY <1>9, <4>2
        <5>2. tx'[u].pc \in Committing /\ tx'[u].read_only => tx'[u].write_log = 0
          BY <5>1 DEF LogsInv, Writers
        <5>3. tx'[u].write_log # 0 => PT(u)'.last_completed_writer >= start_serial(u)'
          <6>1. SUFFICES ASSUME u \notin gone PROVE before >= start_serial(t)
            BY <1>10, <1>11, <1>12, <2>3, <5>1
          <6>2. u[2] < from
            BY <1>5, <1>6, <1>12, <2>3, <6>1
          <6>3. QED BY <1>5, <1>12, <2>3, <6>2
        <5>4. QED BY <5>2, <5>3 DEF Writers
      <4>3. QED BY <4>1, <4>2
    <3>5. QED BY <3>2, <3>3, <3>4
  <2>4. QED BY <2>2, <2>3
<1>23. QED BY <1>21, <1>22 DEF LogsInv

----------------------------------------------------------------------------
(***************************************************************************)
(* Requests to abort: what a commit task knows of the tasks that wait.     *)
(***************************************************************************)

AllBacked == \A u \in Task : Backed(u)

\* A step of t outside a rollback that makes no task wait to abort.
LEMMA PlainBacked ==
  ASSUME TypeOK, AllBacked, NEW t \in Task, SameOthers(t),
         tx[t].pc \notin RollingBack, tx'[t].pc \notin RollingBack,
         try_commit(t) => tx'[t].aborting_transaction = tx[t].aborting_transaction,
         AwaitsAbort(t)' => AwaitsAbort(t),
         Settled(t)' => Settled(t) \/ ~ tx[t].aborting_transaction
  PROVE  AllBacked'
<1>1. \A u \in Task : u # t => SameTask(u)
  BY DEF SameOthers
<1>2. ASSUME NEW u \in Task PROVE Held(u)' <=> Held(u)
  <2>1. CASE Committer(u) = t
    BY <2>1 DEF Held, Committer
  <2>2. CASE Committer(u) # t
    BY <1>1, <2>2, Numbers DEF Held, SameTask, Committer, try_commit
  <2>3. QED BY <2>1, <2>2
<1>3. ASSUME NEW u \in Task, AwaitsAbort(u)' PROVE AwaitsAbort(u)
  <2>1. CASE u # t
    BY <1>1, <1>2, <1>3, <2>1 DEF AwaitsAbort, SameTask, try_commit
  <2>2. QED BY <1>3, <2>1
<1>4. ASSUME NEW u \in Task PROVE Backed(u)'
  <2>1. Backed(u)
    BY DEF AllBacked
  <2>2. AwaitsAbort(u)' => tx'[Committer(u)].aborting_transaction
    <3>1. AwaitsAbort(u)' => tx[Committer(u)].aborting_transaction
      BY <1>3, <2>1 DEF Backed
    <3>2. CASE Committer(u) = t
      BY <3>1, <3>2, Numbers
    <3>3. CASE Committer(u) # t
      BY <1>1, <3>1, <3>3, Numbers DEF SameTask
    <3>4. QED BY <3>2, <3>3
  <2>3. Settled(u)' => ~ tx'[u].aborting_transaction
    <3>1. CASE u = t
      BY <2>1, <3>1 DEF Backed, Settled, try_commit
    <3>2. CASE u # t
      BY <1>1, <2>1, <3>2 DEF Backed, Settled, SameTask, try_commit
    <3>3. QED BY <3>1, <3>2
  <2>4. tx'[u].pc = "rollback_valid" => tx'[u].i = tx'[u].from
    <3>1. CASE u = t
      BY <3>1 DEF RollingBack
    <3>2. CASE u # t
      BY <1>1, <2>1, <3>2 DEF Backed, SameTask
    <3>3. QED BY <3>1, <3>2
  <2>5. QED BY <2>2, <2>3, <2>4 DEF Backed, Committer
<1>5. QED BY <1>4 DEF AllBacked

LEMMA QuietBacked ==
  ASSUME TypeOK, AllBacked, NEW t \in Task, QuietStep(t),
         \/ tx'[t].pc \notin Agreed \cup {"rollback"} \/ tx[t].pc \in Agreed
         \/ ~ try_commit(t) \/ ~ tx[t].aborting_transaction
         \/ tx'[t].pc = "rollback" /\ tx'[t].from = 0
  PROVE  AllBacked'
<1>1. /\ tx[t].pc \notin RollingBack /\ tx'[t].pc \notin RollingBack /\ ~ AwaitsAbort(t)'
      /\ tx'[t].aborting_transaction = tx[t].aborting_transaction /\ SameOthers(t)
  BY DEF QuietStep, Special, Parked, AwaitsAbort
<1>2. Settled(t)' => Settled(t) \/ ~ tx[t].aborting_transaction
  BY DEF Settled, try_commit, Agreed
<1>3. QED BY <1>1, <1>2, PlainBacked

LEMMA Becomes ==
  ASSUME TypeOK, NEW t \in Task, NEW r, Become(t, r)
  PROVE  tx'[t] = r /\ SameOthers(t)
BY DEF Become, TypeOK, SameOthers, SameTask

LEMMA Goes ==
  ASSUME TypeOK, NEW t \in Task, NEW pc, Goto(t, pc)
  PROVE  /\ tx'[t].pc = pc /\ SameOthers(t)
         /\ tx'[t].aborting_transaction = tx[t].aborting_transaction
<1> DEFINE r == [tx[t] EXCEPT !.pc = pc]
<1>1. Become(t, r) /\ tx[t] \in TaskState
  BY TaskTyped DEF Goto
<1>2. r.pc = pc /\ r.aborting_transaction = tx[t].aborting_transaction
  BY <1>1 DEF TaskState
<1> HIDE DEF r
<1>3. QED BY <1>1, <1>2, Becomes

\* A task that runs the program, reads or writes is not near the decision.
LEMMA WorkBacked ==
  ASSUME TypeOK, InOrder, LogsInv, AllBacked, NEW t \in Task,
         TxStart(t) \/ Skip(t) \/ Reads(t) \/ Writes(t) \/ TxCommit(t)
  PROVE  AllBacked'
<1>1. QuietStep(t)
  BY StartQuiet, ReadsQuiet, WritesQuiet, TxCommitQuiet
<1>2. CASE WriteCas(t)
  <2> DEFINE won == write_lock[StripeOf[Op(t).addr]] = tx[t].ptr
             wl == IF won THEN tx[t].write_log + 1 ELSE tx[t].write_log
             pc == IF won THEN "write_extend" ELSE "write_load"
             r == [tx[t] EXCEPT !.write_log = wl, !.ptr = NULL, !.pc = pc]
  <2>1. Become(t, r) /\ tx[t] \in TaskState
    BY <1>2, TaskTyped DEF WriteCas
  <2>2. pc \notin Agreed \cup {"rollback"}
    BY DEF Agreed
  <2> HIDE DEF wl, pc
  <2>3. r.pc = pc
    BY <2>1 DEF TaskState
  <2> HIDE DEF r
  <2>4. tx'[t].pc \notin Agreed \cup {"rollback"}
    BY <2>1, <2>2, <2>3, Becomes
  <2>5. QED BY <1>1, <2>4, QuietBacked
<1>3. CASE WriteExtend(t)
  <2> DEFINE lw == PT(t).last_completed_writer
             lw2 == IF lw > tx[t].last_writer THEN lw ELSE tx[t].last_writer
             noted == [tx[t] EXCEPT !.last_writer = lw2]
  <2>1. (Goto(t, "restart") \/ Become(t, NextOp(noted))) /\ tx[t] \in TaskState
    BY <1>3, TaskTyped DEF WriteExtend
  <2> HIDE DEF lw2
  <2>2. NextOp(noted).pc = "run"
    BY <2>1 DEF NextOp, TaskState
  <2> HIDE DEF noted
  <2>3. tx'[t].pc \in {"restart", "run"}
    BY <2>1, <2>2, Goes, Becomes
  <2>4. tx'[t].pc \notin Agreed \cup {"rollback"}
    BY <2>3 DEF Agreed
  <2>5. QED BY <1>1, <2>4, QuietBacked
<1>4. CASE ~ WriteCas(t) /\ ~ WriteExtend(t)
  <2>1. Move(t)
    BY <1>4, StartMove, ReadsMove, WritesMove, TxCommitMove
  <2>2. tx[t].pc \notin Committing \cup {"rollback_turn"}
    <3>1. tx[t].pc \in {"start", "run"} \cup Accessing \cup {"abort_self", "abort_decided"}
      BY DEF TxStart, Skip, Reads, ReadWord, Doing, ReadTaskAbort, ReadTask, ReadVersion,
             ReadValue, ReadLog, ReadExtend, Writes, WriteWord, WriteLoad, WriteConflict,
             SignalAbort, AbortDecided, WriteAfterTask, WriteBeforeTask, WriteCas, WriteExtend,
             TxCommit, At, Accessing
    <3>2. QED BY <3>1 DEF Committing, Accessing
  <2>3. tx'[t].pc \notin Agreed \cup {"rollback"}
    BY <2>1, <2>2 DEF Move, Follows
  <2>4. QED BY <1>1, <2>3, QuietBacked
<1>5. QED BY <1>2, <1>3, <1>4

\* A commit task that goes on has looked for a request in its turn.
LEMMA LooksBacked ==
  ASSUME TypeOK, InOrder, AllBacked, NEW t \in Task,
         \/ CommitTaskAborted(t) \/ CommitTurn(t) \/ AwaitAbort(t) \/ AwaitRequest(t)
         \/ AwaitValidated(t) \/ CheckAbort(t) \/ CheckTasks(t)
  PROVE  AllBacked'
<1>1. QuietStep(t)
  BY LooksQuiet
<1>2. CASE CommitTaskAborted(t)
  <2>1. PICK pc \in {"restart", "turn"} : Goto(t, pc)
    BY <1>2 DEF CommitTaskAborted
  <2>2. tx'[t].pc \notin Agreed \cup {"rollback"}
    BY <2>1, Goes DEF Agreed
  <2>3. QED BY <1>1, <2>2, QuietBacked
<1>3. CASE CommitTurn(t)
  <2>1. PICK pc \in {"turn_writer", "await_abort", "check_abort"} :
           Goto(t, pc) /\ (pc = "check_abort" => ~ try_commit(t))
    BY <1>3 DEF CommitTurn
  <2>2. tx'[t].pc = pc
    BY <2>1, Goes
  <2>3. tx'[t].pc \notin Agreed \cup {"rollback"} \/ ~ try_commit(t)
    BY <2>1, <2>2 DEF Agreed
  <2>4. QED BY <1>1, <2>3, QuietBacked
<1>4. CASE AwaitAbort(t)
  <2>1. CASE tx[t].aborting_transaction
    <3>1. Goto(t, "rollback_turn")
      BY <1>4, <2>1 DEF AwaitAbort
    <3>2. tx'[t].pc \notin Agreed \cup {"rollback"}
      BY <3>1, Goes DEF Agreed
    <3>3. QED BY <1>1, <3>2, QuietBacked
  <2>2. CASE ~ tx[t].aborting_transaction
    BY <1>1, <2>2, QuietBacked
  <2>3. QED BY <2>1, <2>2
<1>5. CASE AwaitRequest(t) \/ AwaitValidated(t) \/ CheckAbort(t) \/ CheckTasks(t)
  <2>1. tx[t].pc \in Agreed
    BY <1>5 DEF AwaitRequest, AwaitValidated, CheckAbort, CheckTasks, At, Agreed
  <2>2. QED BY <1>1, <2>1, QuietBacked
<1>6. QED BY <1>2, <1>3, <1>4, <1>5

LEMMA CommittingBacked ==
  ASSUME TypeOK, InOrder, AllBacked, NEW t \in Task,
         \/ LockReads(t) \/ IncrementCommitTs(t) \/ ValidateCommit(t) \/ WriteBack(t)
         \/ WrittenBack(t) \/ RollbackTurn(t) \/ TxRestart(t)
  PROVE  AllBacked'
<1>1. QuietStep(t) /\ tx[t] \in TaskState
  BY CommittingQuiet, TxRestartQuiet, TaskTyped
<1>2. CASE LockReads(t) \/ IncrementCommitTs(t) \/ ValidateCommit(t)
  <2>1. tx[t].pc \in Agreed
    BY <1>2 DEF LockReads, IncrementCommitTs, ValidateCommit, At, Agreed
  <2>2. QED BY <1>1, <2>1, QuietBacked
<1>3. CASE WriteBack(t)
  <2> DEFINE e == FirstOf(tx[t].todo)
             r == [tx[t] EXCEPT !.todo = @ \ {e}]
  <2>1. Become(t, r) /\ tx[t].pc = "write_back"
    BY <1>3 DEF WriteBack, At
  <2> HIDE DEF e
  <2>2. r.pc = "write_back"
    BY <1>1, <2>1 DEF TaskState
  <2> HIDE DEF r
  <2>3. tx'[t].pc \notin Agreed \cup {"rollback"}
    BY <2>1, <2>2, Becomes DEF Agreed
  <2>4. QED BY <1>1, <2>3, QuietBacked
<1>4. CASE WrittenBack(t)
  <2> DEFINE r == [tx[t] EXCEPT !.pc = "commit_done", !.version = 0]
  <2>1. Become(t, r)
    BY <1>4 DEF WrittenBack
  <2>2. r.pc = "commit_done"
    BY <1>1 DEF TaskState
  <2> HIDE DEF r
  <2>3. tx'[t].pc \notin Agreed \cup {"rollback"}
    BY <2>1, <2>2, Becomes DEF Agreed
  <2>4. QED BY <1>1, <2>3, QuietBacked
<1>5. CASE RollbackTurn(t)
  <2> DEFINE r == [tx[t] EXCEPT !.pc = "rollback", !.from = 0]
  <2>1. Become(t, r)
    BY <1>5 DEF RollbackTurn
  <2>2. r.pc = "rollback" /\ r.from = 0
    BY <1>1 DEF TaskState
  <2> HIDE DEF r
  <2>3. tx'[t].pc = "rollback" /\ tx'[t].from = 0
    BY <2>1, <2>2, Becomes
  <2>4. QED BY <1>1, <2>3, QuietBacked
<1>6. CASE TxRestart(t)
  <2> DEFINE r == [Cleared(tx[t]) EXCEPT !.write_log = 0]
  <2>1. Become(t, r)
    BY <1>6 DEF TxRestart
  <2>2. r.pc = "start"
    BY <1>1 DEF Cleared, TaskState
  <2> HIDE DEF r
  <2>3. tx'[t].pc \notin Agreed \cup {"rollback"}
    BY <2>1, <2>2, Becomes DEF Agreed
  <2>4. QED BY <1>1, <2>3, QuietBacked
<1>7. QED BY <1>2, <1>3, <1>4, <1>5, <1>6

\* The steps of the last completed task and the ends of the waits.
LEMMA TurnBacked ==
  ASSUME TypeOK, InOrder, AllBacked, NEW t \in Task,
         \/ Complete(t) \/ ReadyTurn(t) \/ Progress(t) \/ AwaitCommit(t) \/ ReadyWait(t)
         \/ CommitDone(t) \/ TxCommitted(t)
  PROVE  AllBacked'
<1> DEFINE ends == {"progress", "await_commit", "committed", "restart", "start", "ready_wait"}
<1>1. /\ tx[t].pc \notin RollingBack /\ tx[t] \in TaskState
      /\ Roles(t) /\ HeldWaits(t)
  BY TaskTyped DEF Complete, ReadyTurn, Progress, AwaitCommit, ReadyWait, CommitDone, TxCommitted,
                   At, RollingBack, InOrder
<1>2. /\ tx'[t].pc \in ends /\ SameOthers(t)
      /\ try_commit(t) => tx'[t].aborting_transaction = tx[t].aborting_transaction
      /\ tx'[t].pc = "ready_wait" => tx[t].pc = "ready_turn"
  <2>1. CASE Complete(t) \/ ReadyTurn(t) \/ Progress(t) \/ CommitDone(t)
    <3>1. PICK pc \in ends : Goto(t, pc) /\ (pc = "ready_wait" => tx[t].pc = "ready_turn")
      BY <2>1 DEF Complete, ReadyTurn, Progress, CommitDone, At
    <3>2. QED BY <3>1, Goes
  <2>2. CASE AwaitCommit(t) \/ ReadyWait(t)
    <3> DEFINE r == [tx[t] EXCEPT !.pc = "restart", !.aborting_transaction = FALSE]
    <3>1. ~ try_commit(t)
      BY <1>1, <2>2 DEF AwaitCommit, ReadyWait, At, Roles, EarlierPcs, Waiting
    <3>2. Goto(t, "committed") \/ Become(t, r)
      BY <2>2 DEF AwaitCommit, ReadyWait
    <3>3. r.pc = "restart"
      BY <1>1 DEF TaskState
    <3> HIDE DEF r
    <3>4. QED BY <3>1, <3>2, <3>3, Goes, Becomes
  <2>3. CASE TxCommitted(t)
    <3> DEFINE c == Cleared(tx[t])
               n == c.serial + SpecDepth
               log == IF tx[t].read_only THEN c.write_log ELSE 0
               r == [c EXCEPT !.serial = n, !.write_log = log]
    <3>1. Become(t, r)
      BY <2>3 DEF TxCommitted
    <3> HIDE DEF n, log
    <3>2. r.pc = "start" /\ r.aborting_transaction = tx[t].aborting_transaction
      BY <1>1 DEF Cleared, TaskState
    <3> HIDE DEF r
    <3>3. QED BY <3>1, <3>2, Becomes
  <2>4. QED BY <2>1, <2>2, <2>3
<1>3. tx'[t].pc \notin RollingBack /\ ~ Settled(t)'
  BY <1>2 DEF RollingBack, Settled, Agreed
<1>4. AwaitsAbort(t)' => AwaitsAbort(t)
  <2>1. SUFFICES ASSUME AwaitsAbort(t)' PROVE AwaitsAbort(t)
    OBVIOUS
  <2>2. tx[t].pc = "ready_turn" /\ ~ try_commit(t)
    BY <1>2, <2>1 DEF AwaitsAbort, try_commit
  <2>3. ~ Held(t)
    BY <1>1, <2>2 DEF HeldWaits, Waiting
  <2>4. QED BY <2>2, <2>3 DEF AwaitsAbort
<1>5. QED BY <1>1, <1>2, <1>3, <1>4, PlainBacked

LEMMA ReadyBacked ==
  ASSUME TypeOK, InOrder, AllBacked, NEW t \in Task, Ready(t) PROVE AllBacked'
<1> DEFINE c == Committer(t)
           f == [tx EXCEPT ![c].aborting_transaction = TRUE]
<1>1. tx[t].pc = "ready" /\ c \in Task /\ try_commit(c) /\ c[1] = t[1]
  BY Numbers DEF Ready, At
<1>2. ~ try_commit(t) /\ c # t
  <2>1. ~ try_commit(t)
    BY <1>1 DEF InOrder, Roles, EarlierPcs
  <2>2. QED BY <2>1, Numbers
<1>3. \A u \in Task : tx'[u] = IF u = t THEN [tx[u] EXCEPT !.pc = "ready_turn"]
                               ELSE IF u = c THEN [tx[u] EXCEPT !.aborting_transaction = TRUE]
                               ELSE tx[u]
  <2>1. tx' = [tx EXCEPT ![c].aborting_transaction = TRUE, ![t].pc = "ready_turn"]
    BY DEF Ready, Committer
  <2>2. tx' = [f EXCEPT ![t].pc = "ready_turn"]
    BY <2>1, Zenon
  <2> HIDE DEF c
  <2>3. QED BY <1>1, <1>2, <2>2 DEF TypeOK
<1>4. \A u \in Task : /\ tx'[u].from = tx[u].from /\ tx'[u].i = tx[u].i
                      /\ u # t => tx'[u].pc = tx[u].pc
                      /\ u # c => tx'[u].aborting_transaction = tx[u].aborting_transaction
  <2> HIDE DEF c
  <2>1. \A u \in Task : /\ tx[u] \in TaskState
                        /\ tx'[u] \in {tx[u], [tx[u] EXCEPT !.pc = "ready_turn"],
                                       [tx[u] EXCEPT !.aborting_transaction = TRUE]}
                        /\ u # t => tx'[u] \in {tx[u], [tx[u] EXCEPT !.aborting_transaction = TRUE]}
                        /\ u # c => tx'[u] \in {tx[u], [tx[u] EXCEPT !.pc = "ready_turn"]}
    BY <1>3, TaskTyped
  <2>2. QED BY <2>1 DEF TaskState
<1>5. tx'[t].pc = "ready_turn"
  BY <1>3, TaskTyped DEF TaskState
<1>6. tx'[c].aborting_transaction
  <2>1. tx'[c] = [tx[c] EXCEPT !.aborting_transaction = TRUE] /\ tx[c] \in TaskState
    BY <1>1, <1>2, <1>3, TaskTyped
  <2>2. QED BY <2>1 DEF TaskState
<1>7. \A u \in Task : Committer(u) \in Task /\ Committer(u) # t
  BY <1>2, Numbers DEF try_commit
<1>8. \A u \in Task : Held(u)' <=> Held(u)
  BY <1>4, <1>7 DEF Held, Committer, try_commit
<1>9. ~ Settled(c)
  <2>1. SUFFICES ASSUME Settled(c) PROVE FALSE
    OBVIOUS
  <2>2. tx[c].pc \in Turn
    BY <2>1 DEF Settled, Agreed, Turn
  <2>3. tx[t].pc \in Waiting
    BY <1>1, <1>2, <2>2, CommitTurnAlone
  <2>4. QED BY <1>1, <2>3 DEF Waiting
<1>10. ASSUME NEW u \in Task PROVE Backed(u)'
  <2>1. Backed(u)
    BY DEF AllBacked
  <2>2. AwaitsAbort(u)' => tx'[Committer(u)].aborting_transaction
    <3>1. CASE Committer(u) = c
      BY <1>6, <3>1
    <3>2. CASE Committer(u) # c
      <4>1. u # t /\ (AwaitsAbort(u)' => AwaitsAbort(u))
        BY <1>1, <1>4, <1>8, <3>2 DEF AwaitsAbort, try_commit
      <4>2. QED BY <1>4, <1>7, <2>1, <3>2, <4>1 DEF Backed
    <3>3. QED BY <3>1, <3>2
  <2>3. Settled(u)' => ~ tx'[u].aborting_transaction
    <3>1. Settled(u)' => u # t /\ Settled(u)
      BY <1>2, <1>4 DEF Settled, try_commit
    <3>2. QED BY <1>4, <1>9, <2>1, <3>1 DEF Backed
  <2>4. tx'[u].pc = "rollback_valid" => tx'[u].i = tx'[u].from
    BY <1>4, <1>5, <2>1 DEF Backed
  <2>5. QED BY <2>2, <2>3, <2>4 DEF Backed, Committer
<1>11. QED BY <1>10 DEF AllBacked

\* A rollback from the first task on withdraws the requests of all tasks it
\* undoes; one from a later task follows a look that found no request.
LEMMA RollbackBacked ==
  ASSUME TypeOK, InOrder, AllBacked, NEW t \in Task, RollbackTransaction(t) PROVE AllBacked'
<1> DEFINE undone == {<<t[1], k>> : k \in tx[t].from .. CommitTask}
           from == tx[t].from
           r == [tx[t] EXCEPT !.write_log = 0, !.aborting_transaction = FALSE,
                   !.i = from, !.pc = "rollback_clear"]
<1>1. /\ tx[t].pc = "rollback"
      /\ tx' = [u \in Task |-> IF u = t THEN r
                               ELSE IF u \in undone THEN [tx[u] EXCEPT !.write_log = 0] ELSE tx[u]]
  BY DEF RollbackTransaction, At
<1>2. try_commit(t)
  BY <1>1 DEF InOrder, Roles, CommitPcs
<1>3. /\ r.pc = "rollback_clear" /\ ~ r.aborting_transaction /\ r.from = from
  <2>1. tx[t] \in TaskState
    BY TaskTyped
  <2> DEFINE k == from
  <2>2. tx[t].from = k
    OBVIOUS
  <2>3. QED BY <2>1, <2>2 DEF TaskState
<1> HIDE DEF r, undone
<1>4. tx'[t] = r
  BY <1>1
<1>5. \A u \in Task : u # t => SameTask(u)
  <2>1. ASSUME NEW u \in Task, u # t PROVE SameTask(u)
    <3>1. tx'[u] \in {tx[u], [tx[u] EXCEPT !.write_log = 0]} /\ tx[u] \in TaskState
      BY <1>1, <2>1, TaskTyped
    <3>2. QED BY <3>1 DEF SameTask, TaskState
  <2>2. QED BY <2>1
<1>6. ASSUME NEW u \in Task, AwaitsAbort(u)'
      PROVE  AwaitsAbort(u) /\ Committer(u) # t
  <2>1. ~ try_commit(u) /\ u # t /\ SameTask(u)
    BY <1>2, <1>5, <1>6 DEF AwaitsAbort, try_commit
  <2>2. CASE Committer(u) = t
    <3>1. ~ Held(u) /\ AwaitsAbort(u)
      BY <1>1, <1>6, <2>1, <2>2 DEF AwaitsAbort, Held, SameTask, RollingBack, try_commit
    <3>2. tx[t].aborting_transaction
      BY <2>2, <3>1 DEF AllBacked, Backed
    <3>3. ~ (from <= u[2])
      <4>1. tx'[t].pc \in RollingBack /\ tx'[t].pc # "rollback_signal" /\ tx'[t].from = from
        BY <1>3, <1>4 DEF RollingBack
      <4>2. ~ Held(u)'
        BY <1>6 DEF AwaitsAbort
      <4>3. QED BY <2>1, <2>2, <4>1, <4>2 DEF Held, Committer, try_commit
    <3>4. from # 0
      BY <3>3, Numbers
    <3>5. Settled(t)
      BY <1>1, <1>2, <3>4 DEF Settled
    <3>6. QED BY <3>2, <3>5 DEF AllBacked, Backed
  <2>3. CASE Committer(u) # t
    <3>1. SameTask(Committer(u))
      BY <1>5, <2>3, Numbers
    <3>2. QED BY <1>6, <2>1, <2>3, <3>1 DEF AwaitsAbort, Held, SameTask, Committer, try_commit
  <2>4. QED BY <2>2, <2>3
<1>7. ASSUME NEW u \in Task PROVE Backed(u)'
  <2>1. Backed(u)
    BY DEF AllBacked
  <2>2. AwaitsAbort(u)' => tx'[Committer(u)].aborting_transaction
    BY <1>5, <1>6, <2>1, Numbers DEF Backed, SameTask
  <2>3. Settled(u)' => ~ tx'[u].aborting_transaction
    <3>1. CASE u = t
      BY <1>3, <1>4, <3>1
    <3>2. CASE u # t
      BY <1>5, <2>1, <3>2 DEF Backed, Settled, SameTask, try_commit
    <3>3. QED BY <3>1, <3>2
  <2>4. tx'[u].pc = "rollback_valid" => tx'[u].i = tx'[u].from
    <3>1. CASE u = t
      BY <1>3, <1>4, <3>1
    <3>2. CASE u # t
      BY <1>5, <2>1, <3>2 DEF Backed, SameTask
    <3>3. QED BY <3>1, <3>2
  <2>5. QED BY <2>2, <2>3, <2>4 DEF Backed, Committer
<1>8. QED BY <1>7 DEF AllBacked

\* The steps after it.
LEMMA OnwardBacked ==
  ASSUME TypeOK, InOrder, AllBacked, NEW t \in Task, tx[t].pc \in RollingBack,
         tx'[t].pc \in RollingBack \cup {"restart"},
         \A u \in Task : /\ u # t => /\ tx'[u].pc = tx[u].pc /\ tx'[u].from = tx[u].from
                                     /\ tx'[u].i = tx[u].i
                         /\ \/ tx'[u].aborting_transaction = tx[u].aborting_transaction
                            \/ tx'[u].aborting_transaction /\ ~ try_commit(u),
         \A u \in Task : Committer(u) = t /\ Held(u) /\ tx[u].pc = "ready_wait"
                         => Held(u)' \/ tx'[u].aborting_transaction,
         tx'[t].pc = "rollback_valid" => tx'[t].i = tx'[t].from
  PROVE  AllBacked'
<1>1. try_commit(t) /\ tx[t].pc \notin Agreed \cup {"rollback"} /\ tx'[t].pc \notin Agreed \cup {"rollback"}
  BY DEF InOrder, Roles, CommitPcs, RollingBack, Agreed
<1>2. ASSUME NEW u \in Task, AwaitsAbort(u)' PROVE AwaitsAbort(u)
  <2>1. u # t /\ ~ try_commit(u) /\ tx'[u].pc = tx[u].pc
    BY <1>1, <1>2 DEF AwaitsAbort, try_commit
  <2>2. ~ Held(u)
    <3>1. SUFFICES ASSUME Held(u) PROVE FALSE
      OBVIOUS
    <3>2. tx[u].pc = "ready_wait"
      BY <1>2, <2>1, <3>1 DEF AwaitsAbort, InOrder, HeldWaits, Waiting
    <3>3. ~ Held(u)' /\ ~ tx'[u].aborting_transaction
      BY <1>2, <2>1, <3>2 DEF AwaitsAbort
    <3>4. CASE Committer(u) = t
      BY <3>1, <3>2, <3>3, <3>4
    <3>5. CASE Committer(u) # t
      BY <2>1, <3>1, <3>3, <3>5, Numbers DEF Held, Committer, try_commit
    <3>6. QED BY <3>4, <3>5
  <2>3. tx[u].pc = "ready_turn" \/ (tx[u].pc = "ready_wait" /\ ~ tx'[u].aborting_transaction)
    BY <1>2, <2>1 DEF AwaitsAbort
  <2>4. ~ tx'[u].aborting_transaction => ~ tx[u].aborting_transaction
    OBVIOUS
  <2>5. QED BY <2>1, <2>2, <2>3, <2>4 DEF AwaitsAbort
<1>3. ASSUME NEW u \in Task PROVE Backed(u)'
  <2>1. Backed(u)
    BY DEF AllBacked
  <2>2. AwaitsAbort(u)' => tx'[Committer(u)].aborting_transaction
    <3>1. AwaitsAbort(u)' => tx[Committer(u)].aborting_transaction
      BY <1>2, <2>1 DEF Backed
    <3>2. QED BY <3>1, Numbers
  <2>3. Settled(u)' => ~ tx'[u].aborting_transaction
    <3>1. CASE u = t
      BY <1>1, <3>1 DEF Settled
    <3>2. CASE u # t
      BY <2>1, <3>2 DEF Backed, Settled, try_commit
    <3>3. QED BY <3>1, <3>2
  <2>4. tx'[u].pc = "rollback_valid" => tx'[u].i = tx'[u].from
    BY <2>1 DEF Backed
  <2>5. QED BY <2>2, <2>3, <2>4 DEF Backed, Committer
<1>4. QED BY <1>3 DEF AllBacked

LEMMA RollbackClearBacked ==
  ASSUME TypeOK, InOrder, AllBacked, NEW t \in Task, RollbackClear(t) PROVE AllBacked'
<1> DEFINE f == [tx EXCEPT ![<<t[1], tx[t].i>>].abort_transaction = FALSE]
           i2 == IF f[t].i = CommitTask THEN tx[t].from ELSE f[t].i + 1
           pc2 == IF tx[t].i = CommitTask THEN "rollback_valid" ELSE f[t].pc
           r == [f[t] EXCEPT !.i = i2, !.pc = pc2]
<1>1. tx[t].pc = "rollback_clear" /\ tx' = [f EXCEPT ![t] = r]
  BY DEF RollbackClear, At
<1>2. \A u \in Task : /\ f[u] \in TaskState /\ f[u].pc = tx[u].pc /\ f[u].serial = tx[u].serial
                      /\ f[u].aborting_transaction = tx[u].aborting_transaction
                      /\ f[u].from = tx[u].from /\ f[u].i = tx[u].i
  BY FlagSame
<1>3. DOMAIN f = Task
  <2>1. DOMAIN tx = Task
    BY DEF TypeOK
  <2>2. QED BY <2>1
<1>4. /\ pc2 \in {"rollback_clear", "rollback_valid"}
      /\ pc2 = "rollback_valid" => i2 = tx[t].from
  BY <1>1, <1>2
<1> HIDE DEF f, i2, pc2
<1>5. /\ r.pc = pc2 /\ r.i = i2 /\ r.from = tx[t].from
      /\ r.aborting_transaction = tx[t].aborting_transaction
  BY <1>2 DEF TaskState
<1> HIDE DEF r
<1>6. tx'[t] = r /\ \A u \in Task : u # t => tx'[u] = f[u]
  BY <1>1, <1>3
<1>7. \A u \in Task : /\ u # t => /\ tx'[u].pc = tx[u].pc /\ tx'[u].from = tx[u].from
                                  /\ tx'[u].i = tx[u].i
                      /\ \/ tx'[u].aborting_transaction = tx[u].aborting_transaction
                         \/ tx'[u].aborting_transaction /\ ~ try_commit(u)
  BY <1>2, <1>5, <1>6
<1>8. tx[t].pc \in RollingBack /\ tx'[t].pc \in RollingBack \cup {"restart"}
  BY <1>1, <1>4, <1>5, <1>6 DEF RollingBack
<1>9. ASSUME NEW u \in Task, Committer(u) = t, Held(u) PROVE Held(u)'
  <2>1. ~ try_commit(u) /\ tx[t].from <= u[2]
    BY <1>9 DEF Held
  <2>2. tx'[t].pc \in RollingBack /\ tx'[t].pc # "rollback_signal" /\ tx'[t].from = tx[t].from
    BY <1>4, <1>5, <1>6 DEF RollingBack
  <2>3. QED BY <1>9, <2>1, <2>2 DEF Held, Committer, try_commit
<1>10. tx'[t].pc = "rollback_valid" => tx'[t].i = tx'[t].from
  BY <1>4, <1>5, <1>6
<1>11. \A u \in Task : Committer(u) = t /\ Held(u) /\ tx[u].pc = "ready_wait"
                       => Held(u)' \/ tx'[u].aborting_transaction
  BY <1>9
<1>12. QED BY <1>7, <1>8, <1>10, <1>11, OnwardBacked

LEMMA RollbackValidBacked ==
  ASSUME TypeOK, InOrder, AllBacked, NEW t \in Task, RollbackValid(t) PROVE AllBacked'
<1> DEFINE r == [tx[t] EXCEPT !.pc = "rollback_signal"]
<1>1. Become(t, r) /\ tx[t].pc = "rollback_valid"
  BY DEF RollbackValid, Goto, At
<1>2. /\ r.pc = "rollback_signal" /\ r.from = tx[t].from /\ r.i = tx[t].i
      /\ r.aborting_transaction = tx[t].aborting_transaction
  BY TaskTyped DEF TaskState
<1> HIDE DEF r
<1>3. tx'[t] = r /\ \A u \in Task : u # t => tx'[u] = tx[u]
  BY <1>1 DEF Become, TypeOK
<1>4. tx[t].i = tx[t].from
  BY <1>1 DEF AllBacked, Backed
<1>5. \A u \in Task : /\ u # t => /\ tx'[u].pc = tx[u].pc /\ tx'[u].from = tx[u].from
                                  /\ tx'[u].i = tx[u].i
                      /\ \/ tx'[u].aborting_transaction = tx[u].aborting_transaction
                         \/ tx'[u].aborting_transaction /\ ~ try_commit(u)
  BY <1>2, <1>3
<1>6. tx[t].pc \in RollingBack /\ tx'[t].pc \in RollingBack \cup {"restart"}
  BY <1>1, <1>2, <1>3 DEF RollingBack
<1>7. ASSUME NEW u \in Task, Committer(u) = t, Held(u) PROVE Held(u)'
  <2>1. ~ try_commit(u) /\ tx[t].from <= u[2]
    BY <1>7 DEF Held
  <2>2. tx'[t].pc \in RollingBack /\ tx'[t].from <= u[2] /\ tx'[t].i <= u[2]
    BY <1>2, <1>3, <1>4, <2>1 DEF RollingBack
  <2>3. QED BY <1>7, <2>1, <2>2 DEF Held, Committer, try_commit
<1>8. tx'[t].pc = "rollback_valid" => tx'[t].i = tx'[t].from
  BY <1>2, <1>3
<1>9. \A u \in Task : Committer(u) = t /\ Held(u) /\ tx[u].pc = "ready_wait"
                      => Held(u)' \/ tx'[u].aborting_transaction
  BY <1>7
<1>10. QED BY <1>5, <1>6, <1>8, <1>9, OnwardBacked

LEMMA RollbackSignalBacked ==
  ASSUME TypeOK, InOrder, AllBacked, NEW t \in Task, RollbackSignal(t) PROVE AllBacked'
<1> DEFINE i == tx[t].i
           done == [tx[t] EXCEPT !.pc = "restart", !.i = 0, !.from = 0]
           f == [tx EXCEPT ![<<t[1], i>>].aborting_transaction = TRUE]
           i2 == i + 1
           r == [tx[t] EXCEPT !.i = i2]
<1>1. tx[t].pc = "rollback_signal" /\ tx[t] \in TaskState /\ tx[t].pc \in RollingBack
  BY TaskTyped DEF RollbackSignal, At, RollingBack
<1>2. try_commit(t) /\ tx[t].from <= i
  BY <1>1 DEF InOrder, Roles, CommitPcs, RollingBack
<1>3. CASE i = CommitTask
  <2>1. Become(t, done)
    BY <1>3 DEF RollbackSignal
  <2>2. done.pc = "restart" /\ done.aborting_transaction = tx[t].aborting_transaction
    BY <1>1 DEF TaskState
  <2> HIDE DEF done
  <2>3. tx'[t] = done /\ \A u \in Task : u # t => tx'[u] = tx[u]
    BY <2>1 DEF Become, TypeOK
  <2>4. \A u \in Task : /\ u # t => /\ tx'[u].pc = tx[u].pc /\ tx'[u].from = tx[u].from
                                    /\ tx'[u].i = tx[u].i
                        /\ \/ tx'[u].aborting_transaction = tx[u].aborting_transaction
                           \/ tx'[u].aborting_transaction /\ ~ try_commit(u)
    BY <2>2, <2>3
  <2>5. ASSUME NEW u \in Task, Committer(u) = t, Held(u) PROVE FALSE
    <3>1. CommitTask <= u[2] /\ u[2] # CommitTask
      BY <1>1, <1>3, <2>5 DEF Held, try_commit
    <3>2. QED BY <3>1, Numbers, Constants
  <2>6. tx'[t].pc \in RollingBack \cup {"restart"} /\ tx'[t].pc # "rollback_valid"
    BY <2>2, <2>3
  <2>7. QED BY <1>1, <2>4, <2>5, <2>6, OnwardBacked
<1>4. CASE i # CommitTask
  <2>1. PICK v \in Task : /\ v = <<t[1], i>> /\ v # t /\ ~ try_commit(v)
    <3>1. t[1] \in Thread /\ i \in 0 .. SpecDepth - 1 /\ t = <<t[1], t[2]>> /\ t[2] = CommitTask
      BY <1>2, Numbers, Constants DEF Task, try_commit
    <3>2. <<t[1], i>> \in Task /\ <<t[1], i>> # t
      BY <1>4, <3>1 DEF Task
    <3>3. ~ try_commit(<<t[1], i>>)
      BY <1>4, <3>1 DEF try_commit
    <3>4. QED BY <3>2, <3>3
  <2>2. tx' = [f EXCEPT ![t].i = i2]
    <3>1. f[t].i = i
      BY <2>1 DEF TypeOK
    <3>2. tx' = [tx EXCEPT ![<<t[1], i>>].aborting_transaction = TRUE, ![t].i = @ + 1]
      BY <1>4 DEF RollbackSignal
    <3>3. tx' = [f EXCEPT ![t].i = f[t].i + 1]
      BY <3>2, Zenon
    <3>4. QED BY <3>1, <3>3
  <2>3. \A u \in Task : tx'[u] = IF u = t THEN r
                                 ELSE IF u = v THEN [tx[u] EXCEPT !.aborting_transaction = TRUE]
                                 ELSE tx[u]
    BY <2>1, <2>2 DEF TypeOK
  <2> HIDE DEF f
  <2>4. /\ r.pc = "rollback_signal" /\ r.from = tx[t].from /\ r.i = i2
        /\ r.aborting_transaction = tx[t].aborting_transaction
    <3> HIDE DEF i2
    <3>1. QED BY <1>1 DEF TaskState
  <2>5. tx'[t] = r
    BY <2>3
  <2> HIDE DEF r
  <2>6. \A u \in Task : u # t => /\ tx'[u].pc = tx[u].pc
                                 /\ tx'[u].from = tx[u].from /\ tx'[u].i = tx[u].i
                                 /\ (u # v => tx'[u] = tx[u])
    <3>1. \A u \in Task : u # t => tx'[u] \in {tx[u], [tx[u] EXCEPT !.aborting_transaction = TRUE]}
                                   /\ tx[u] \in TaskState /\ (u # v => tx'[u] = tx[u])
      BY <2>3, TaskTyped
    <3>2. QED BY <3>1 DEF TaskState
  <2>7. tx'[v].aborting_transaction
    <3>1. tx'[v] = [tx[v] EXCEPT !.aborting_transaction = TRUE] /\ tx[v] \in TaskState
      BY <2>1, <2>3, TaskTyped
    <3>2. QED BY <3>1 DEF TaskState
  <2>8. ASSUME NEW u \in Task, Committer(u) = t, Held(u)
        PROVE  Held(u)' \/ tx'[u].aborting_transaction
    <3>1. CASE u = v
      BY <2>7, <3>1
    <3>2. CASE u # v
      <4>1. tx[t].from <= u[2] /\ i <= u[2] /\ ~ try_commit(u)
        BY <1>1, <2>8 DEF Held, Committer, try_commit
      <4>2. u[2] # i
        BY <2>1, <2>8, <3>2, Numbers DEF Task, Committer
      <4>3. i2 <= u[2]
        BY <4>1, <4>2, Numbers
      <4>4. tx'[t].pc \in RollingBack /\ tx'[t].from <= u[2] /\ tx'[t].i <= u[2]
        BY <1>1, <2>4, <2>5, <4>1, <4>3 DEF RollingBack
      <4>5. QED BY <2>8, <4>1, <4>4 DEF Held, Committer, try_commit
    <3>3. QED BY <3>1, <3>2
  <2>9. tx'[t].pc \in RollingBack \cup {"restart"} /\ tx'[t].pc # "rollback_valid"
    BY <2>4, <2>5 DEF RollingBack
  <2>10. \A u \in Task : /\ u # t => /\ tx'[u].pc = tx[u].pc /\ tx'[u].from = tx[u].from
                                     /\ tx'[u].i = tx[u].i
                         /\ \/ tx'[u].aborting_transaction = tx[u].aborting_transaction
                            \/ tx'[u].aborting_transaction /\ ~ try_commit(u)
    BY <2>1, <2>4, <2>5, <2>6, <2>7
  <2>11. \A u \in Task : Committer(u) = t /\ Held(u) /\ tx[u].pc = "ready_wait"
                         => Held(u)' \/ tx'[u].aborting_transaction
    BY <2>8
  <2>12. QED BY <1>1, <2>9, <2>10, <2>11, OnwardBacked
<1>5. QED BY <1>3, <1>4

\* The validators and a stutter leave all of it alone.
LEMMA StillBacked == ASSUME TypeOK, AllBacked, \A u \in Task : SameTask(u) PROVE AllBacked'
<1>1. \A u \in Task : SameTask(u) /\ SameTask(Committer(u))
  BY Numbers
<1>2. \A u \in Task : /\ (AwaitsAbort(u)' <=> AwaitsAbort(u)) /\ (Settled(u)' <=> Settled(u))
  BY <1>1 DEF AwaitsAbort, Held, Settled, SameTask, Committer, try_commit
<1>3. ASSUME NEW u \in Task PROVE Backed(u)'
  BY <1>1, <1>2 DEF AllBacked, Backed, SameTask, Committer
<1>4. QED BY <1>3 DEF AllBacked

LEMMA ValidatorBacked ==
  ASSUME TypeOK, AllBacked, NEW p \in Thread, ValidatorStep(p) PROVE AllBacked'
<1>1. \A u \in Task : SameTask(u)
  <2>1. CASE UNCHANGED tx
    BY <2>1 DEF SameTask
  <2>2. CASE tx' = [tx EXCEPT ![<<p, validator[p].i>>].abort_transaction = TRUE]
    BY <2>2, FlagSame DEF SameTask
  <2>3. QED BY <2>1, <2>2 DEF ValidatorStep, ValidatorWakes, ValidatorBegins, ValidatorClears,
               ValidatorReadsTs, ExtendTx, ValidatorAborts, ValidatorDone
<1>2. QED BY <1>1, StillBacked

LEMMA TaskLocks ==
  ASSUME TypeOK, InOrder, LogsInv, AllBacked, NEW t \in Task, TaskStep(t)
  PROVE  LogsInv' /\ AllBacked'
<1>1. AllBacked'
  <2>1. CASE TxStart(t) \/ Skip(t) \/ Reads(t) \/ Writes(t)
    BY <2>1, WorkBacked
  <2>2. CASE Commits(t)
    BY <2>2, WorkBacked, LooksBacked, CommittingBacked, TurnBacked DEF Commits
  <2>3. CASE Aborts(t)
    BY <2>3, CommittingBacked, TurnBacked, RollbackBacked, RollbackClearBacked,
       RollbackValidBacked, RollbackSignalBacked, ReadyBacked DEF Aborts
  <2>4. QED BY <2>1, <2>2, <2>3 DEF TaskStep
<1>2. LogsInv'
  <2>1. CASE Quiet(t)
    BY <2>1, QuietMoves
  <2>2. CASE WriteCas(t) \/ WriteExtend(t)
    BY <2>2, WriteCasKeeps, WriteExtendKeeps
  <2>3. CASE CheckTasks(t) /\ tx'[t].pc = "commit_done"
    BY <2>3, CheckTasksKeeps DEF AllBacked
  <2>4. CASE \/ Complete(t) \/ LockReads(t) \/ ValidateCommit(t) \/ WriteBack(t) \/ WrittenBack(t)
             \/ CommitDone(t) \/ TxCommitted(t)
    BY <2>4, CompleteKeeps, LockReadsKeeps, ValidateCommitKeeps, WriteBackKeeps,
       WrittenBackKeeps, CommitDoneKeeps, TxCommittedKeeps
  <2>5. CASE RollbackTransaction(t) \/ ReadyTurn(t) \/ TxRestart(t)
    BY <2>5, RollbackKeeps, CompleteKeeps, TxRestartKeeps
  <2>6. CASE TxStart(t) \/ Skip(t) \/ Reads(t) \/ Writes(t)
    BY <2>1, <2>2, <2>6 DEF Quiet
  <2>7. CASE Commits(t)
    BY <2>1, <2>3, <2>4, <2>7 DEF Commits, Quiet
  <2>8. CASE Aborts(t)
    BY <2>1, <2>5, <2>8 DEF Aborts, Quiet
  <2>9. QED BY <2>6, <2>7, <2>8 DEF TaskStep
<1>3. QED BY <1>1, <1>2

LEMMA LocksParts == LocksInv <=> LogsInv /\ AllBacked
BY DEF LocksInv, LogsInv, AllBacked

LEMMA StepLocks == TypeOK /\ InOrder /\ LocksInv /\ [Next]_vars => LocksInv'
<1>1. ASSUME TypeOK, InOrder, LogsInv, AllBacked, [Next]_vars PROVE LogsInv' /\ AllBacked'
  <2>1. CASE UNCHANGED vars
    <3>1. \A u \in Task : SameTask(u)
      BY <2>1 DEF vars, SameTask
    <3>2. QED BY <1>1, <2>1, <3>1, StutterMoves, StillBacked
  <2>2. ASSUME NEW t \in Task, TaskStep(t) PROVE LogsInv' /\ AllBacked'
    BY <1>1, <2>2, TaskLocks
  <2>3. ASSUME NEW p \in Thread, ValidatorStep(p) PROVE LogsInv' /\ AllBacked'
    BY <1>1, <2>3, ValidatorMoves, ValidatorBacked
  <2>4. QED BY <1>1, <2>1, <2>2, <2>3 DEF Next
<1>2. LocksInv' <=> LogsInv' /\ AllBacked'
  BY LocksParts, PTL
<1>3. QED BY <1>1, <1>2, LocksParts

LEMMA InitLocks == Init => LocksInv
<1> SUFFICES ASSUME Init PROVE LocksInv
  OBVIOUS
<1>1. \A t \in Task : tx[t].pc = "start" /\ tx[t].write_log = 0 /\ tx[t].ptr = NULL
  BY DEF Init
<1>2. \A t \in Task : Logged(t) = {}
  BY <1>1 DEF Logged, LiveEntries
<1>3. \A t \in Task : Committer(t) \in Task
  BY InitTyped, Numbers
<1>4. Topmost
  <2>1. \A s \in Stripe : write_lock[s] = NULL /\ NULL \notin Ptr
    BY Constants DEF Init
  <2>2. QED BY <1>2, <2>1 DEF Topmost
<1>5. ReadLocksHeld
  BY DEF Init, ReadLocksHeld, READ_LOCK_SET
<1>6. ASSUME NEW t \in Task
      PROVE  Chained(t) /\ Aimed(t) /\ Writers(t) /\ Backed(t) /\ Versions(t) /\ Writing(t)
  <2>1. Chained(t) /\ Aimed(t) /\ Writers(t)
    BY <1>1, <1>2 DEF Chained, Aimed, Writers, Committing
  <2>2. ~ AwaitsAbort(t) /\ ~ Settled(t)
    BY <1>1 DEF AwaitsAbort, Settled, Agreed
  <2>3. Backed(t)
    BY <1>1, <2>2 DEF Backed
  <2>4. Versions(t) /\ Writing(t)
    BY <1>1, <1>2 DEF Versions, Writing
  <2>5. QED BY <2>1, <2>3, <2>4
<1>7. QED BY <1>4, <1>5, <1>6 DEF LocksInv

----------------------------------------------------------------------------
(***************************************************************************)
(* The theorems.                                                           *)
(***************************************************************************)

\* The chains are those of open transactions, a write lock is on top of the
\* chain of its stripe, and no read lock is taken for a commit that is over.
THEOREM Locked == Spec => []LocksInv
<1>1. Init => TypeOK /\ InOrder /\ LocksInv
  BY InitTyped, InitOrder, InitLocks
<1>2. TypeOK /\ InOrder /\ LocksInv /\ [Next]_vars => TypeOK' /\ InOrder' /\ LocksInv'
  BY StepTyped, StepOrder, StepLocks
<1>3. QED BY <1>1, <1>2, PTL DEF Spec

\* The entries of a transaction that has not begun to release its locks.
LEMMA Unreleased ==
  ASSUME TypeOK, NEW t \in Task, ~ Released(t), NEW e \in LiveEntries(t)
  PROVE  e \in Logged(t) /\ Due(e)
<1>1. /\ last(t) \in Nat /\ tx[t].serial \in Nat /\ t[2] \in Nat
      /\ commit_serial(t) = tx[t].serial - t[2] + CommitTask /\ CommitTask \in Nat
  BY Numbers, Constants DEF last, commit_serial, start_serial
<1>2. Open(t)
  BY <1>1 DEF Released, Open, last
<1>3. e[1] = t
  BY Entries
<1>4. Due(e)
  BY <1>3 DEF Released, Due, Committer
<1>5. QED BY <1>2, <1>4 DEF Logged

\* An entry that is not on top has the entry of the next task above it.
LEMMA NextAbove ==
  ASSUME TypeOK, NEW t \in Task, NEW e \in Logged(t), \A u \in Task : Chained(u),
         NEW top \in Ptr, top \in Logged(top[1]), SameStripe(e, top), t[2] < top[1][2]
  PROVE  \E f \in Ptr : f \in Logged(f[1]) /\ f[1][1] = t[1] /\ Under(f) = e
                        /\ Deref(f).stripe = Deref(e).stripe
<1> DEFINE S == {f \in Ptr : f \in Logged(f[1]) /\ SameStripe(e, f) /\ t[2] < f[1][2]}
<1>1. e[1] = t /\ \A f \in Ptr : f[1] \in Task /\ f[1][2] \in Nat /\ f[2] \in Nat
  BY Entries, Numbers, Constants DEF Ptr
<1>2. PICK f \in S : \A g \in S : Before(f, g)
  <2>1. top \in S /\ S \in SUBSET Ptr /\ S # {}
    OBVIOUS
  <2> HIDE DEF S
  <2>2. QED BY <2>1, FirstLast
<1>3. f \in Ptr /\ f \in Logged(f[1]) /\ SameStripe(e, f) /\ t[2] < f[1][2] /\ f[1] \in Task
  BY <1>1, <1>2
<1>4. SameStripe(f, e)
  BY <1>3 DEF SameStripe
<1>5. PICK b \in Ptr : Under(f) = b /\ t[2] <= b[1][2]
  BY <1>3, <1>4 DEF Chained
<1>6. b \in Logged(b[1]) /\ SameStripe(f, b) /\ b[1][2] < f[1][2]
  BY <1>3, <1>5 DEF Chained
<1>7. SameStripe(e, b)
  BY <1>3, <1>6 DEF SameStripe
<1>8. ~ Before(f, b)
  BY <1>1, <1>3, <1>5, <1>6 DEF Before
<1>9. ~ (t[2] < b[1][2])
  BY <1>2, <1>5, <1>6, <1>7, <1>8
<1>10. b[1] = t
  <2>1. b[1][2] = t[2]
    BY <1>1, <1>5, <1>9, Numbers
  <2>2. b[1][1] = t[1]
    BY <1>1, <1>7 DEF SameStripe
  <2>3. QED BY <1>1, <2>1, <2>2 DEF Task
<1>11. b = e
  BY <1>6, <1>7, <1>10 DEF Chained
<1>12. QED BY <1>1, <1>3, <1>5, <1>11 DEF SameStripe

\* A write lock leads only to live entries of one thread, later tasks first, and
\* every entry of an unreleased transaction is on the chain of its stripe.
THEOREM LocksChain == Spec => []LockChains
<1>1. TypeOK /\ InOrder /\ LocksInv => LockChains
  <2> SUFFICES ASSUME TypeOK, LocksInv PROVE LockChains
    OBVIOUS
  <2>1. ASSUME NEW s \in Stripe, write_lock[s] # NULL
        PROVE  /\ Deref(write_lock[s]).stripe = s
               /\ write_lock[s][2] <= tx[write_lock[s][1]].write_log
    <3>1. PICK e \in Ptr : write_lock[s] = e
      BY <2>1 DEF TypeOK
    <3>2. e \in Logged(e[1]) /\ Deref(e).stripe = s /\ e[1] \in Task
      BY <3>1 DEF LocksInv, Topmost, Ptr
    <3>3. e[2] <= tx[e[1]].write_log
      BY <3>2, Entries
    <3>4. QED BY <3>1, <3>2, <3>3
  <2>2. ASSUME NEW t \in Task, ~ Released(t), NEW e \in LiveEntries(t)
        PROVE  /\ Deref(e).serial = tx[t].serial
               /\ Under(e) # NULL =>
                    /\ PtidOf(Under(e)) = t[1] /\ Under(e)[1][2] < t[2]
                    /\ Under(e) \in LiveEntries(Under(e)[1])
                    /\ Deref(Under(e)).stripe = Deref(e).stripe
               /\ \/ write_lock[Deref(e).stripe] = e
                  \/ \E u \in Task : \E f \in LiveEntries(u) :
                       u[1] = t[1] /\ Deref(f).stripe = Deref(e).stripe /\ Deref(f).old_entry = e
    <3>1. e \in Logged(t) /\ Due(e) /\ e \in Ptr /\ e[1] = t
      BY <2>2, Unreleased, Entries
    <3>2. Chained(t) /\ Deref(e).serial = tx[t].serial
      BY <3>1 DEF LocksInv, Chained
    <3>3. ASSUME Under(e) # NULL
          PROVE  /\ PtidOf(Under(e)) = t[1] /\ Under(e)[1][2] < t[2]
                 /\ Under(e) \in LiveEntries(Under(e)[1])
                 /\ Deref(Under(e)).stripe = Deref(e).stripe
      <4>1. PICK b \in Ptr : Under(e) = b
        BY <3>1, <3>3, DerefTyped DEF Under, Entry
      <4>2. b \in Logged(b[1]) /\ SameStripe(e, b) /\ b[1][2] < t[2]
        BY <3>1, <3>2, <4>1 DEF Chained
      <4>3. QED BY <3>1, <4>1, <4>2 DEF Logged, SameStripe, PtidOf
    <3>4. PICK top \in Ptr : /\ write_lock[Deref(e).stripe] = top /\ top[1][1] = t[1]
                             /\ top # e => t[2] < top[1][2]
      BY <3>1 DEF LocksInv, Topmost
    <3>5. CASE top # e
      <4>1. top \in Logged(top[1]) /\ Deref(top).stripe = Deref(e).stripe
        BY <3>1, <3>2, <3>4 DEF LocksInv, Topmost, Chained
      <4>2. SameStripe(e, top)
        BY <3>1, <3>4, <4>1 DEF SameStripe
      <4>3. PICK f \in Ptr : f \in Logged(f[1]) /\ f[1][1] = t[1] /\ Under(f) = e
                             /\ Deref(f).stripe = Deref(e).stripe
        BY <3>1, <3>4, <3>5, <4>1, <4>2, NextAbove DEF LocksInv
      <4>4. f[1] \in Task /\ f \in LiveEntries(f[1])
        BY <4>3 DEF Ptr, Logged
      <4>5. QED BY <3>2, <3>3, <4>3, <4>4 DEF Under
    <3>6. QED BY <3>2, <3>3, <3>4, <3>5
  <2>3. QED BY <2>1, <2>2 DEF LockChains, Under
<1>2. QED BY <1>1, Typed, Ordered, Locked, PTL

\* A read lock is taken only while the commit task of the one thread that wrote
\* the stripe decides, and is given back by whatever it decides.
THEOREM ReadLocksTaken == Spec => []ReadLocksHeld
<1>1. LocksInv => ReadLocksHeld
  BY DEF LocksInv
<1>2. QED BY <1>1, Locked, PTL
=============================================================================
