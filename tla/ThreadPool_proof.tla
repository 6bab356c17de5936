--------------------------- MODULE ThreadPool_proof ---------------------------
(***************************************************************************)
(* The ring of the thread pool, for any number of workers and tasks.       *)
(***************************************************************************)
EXTENDS ThreadPool, FiniteSetTheorems, TLAPS

Busy == {w \in Worker : worker[w] = "working"}

\* The tasks in the ring are the last num_ops_waiting that were dispatched, each
\* where dispatch puts it; the workers go on where the oldest of them is.
Ring ==
  /\ task_id \in Nat /\ num_ops_waiting \in 0 .. task_id
  /\ DOMAIN ops = Slot
  /\ \A k \in task_id - num_ops_waiting .. task_id - 1 : ops[k % arrsz] = k
  /\ next_op = (task_id - num_ops_waiting) % arrsz

\* num_ops_working counts them and those that run, and there is room for it.
Counted ==
  /\ worker \in [Worker -> {"idle", "asleep", "working"}]
  /\ DOMAIN myarg = Worker
  /\ num_ops_working = num_ops_waiting + Cardinality(Busy)
  /\ num_ops_working <= arrsz

PoolInv == Ring /\ Counted

----------------------------------------------------------------------------
(* Positions in the ring *)

LEMMA Place == ASSUME NEW n \in Nat \ {0}, NEW a \in Int PROVE a % n \in 0 .. n - 1
OBVIOUS

LEMMA Quotient ==
  ASSUME NEW n \in Nat \ {0}, NEW a \in Int
  PROVE  \E q \in Int : a = q * n + (a % n)
<1>1. PICK q \in Int : q = a \div n
  OBVIOUS
<1>2. a % n = a - q * n
  BY <1>1, SMTT(20)
<1>3. a = q * n + (a % n)
  BY <1>2, Place
<1>4. QED BY <1>3

\* Numbers less than n apart have places of their own.
LEMMA Apart ==
  ASSUME NEW n \in Nat \ {0}, NEW a \in Int, NEW b \in Int, a % n = b % n, a - b < n, b - a < n
  PROVE  a = b
<1>1. PICK q \in Int : a = q * n + (a % n)
  BY Quotient
<1>2. PICK r \in Int : b = r * n + (b % n)
  BY Quotient
<1>3. a % n \in Int
  BY Place
<1>4. a - b = (q - r) * n
  BY <1>1, <1>2, <1>3
<1>5. CASE q - r <= -1
  <2>1. (q - r + 1) * n <= 0
    BY <1>5
  <2>2. QED BY <2>1, <1>4
<1>6. CASE q - r >= 1
  <2>1. (q - r - 1) * n >= 0
    BY <1>6
  <2>2. QED BY <2>1, <1>4
<1>7. CASE q - r = 0
  BY <1>4, <1>7
<1>8. QED BY <1>5, <1>6, <1>7

LEMMA NextPlace ==
  ASSUME NEW n \in Nat \ {0}, NEW a \in Int
  PROVE  ((a % n) + 1) % n = (a + 1) % n
<1> DEFINE r == a % n
<1>1. PICK q \in Int : a = q * n + r
  BY Quotient
<1>2. r \in 0 .. n - 1
  BY Place
<1>3. r + 1 \in Int
  BY <1>2
<1>4. PICK k \in Int : r + 1 = k * n + ((r + 1) % n)
  BY Quotient, <1>3
<1>5. PICK j \in Int : a + 1 = j * n + ((a + 1) % n)
  <2>1. a + 1 \in Int
    OBVIOUS
  <2>2. QED BY <2>1, Quotient
<1> DEFINE x == (r + 1) % n
           y == (a + 1) % n
<1>6. x \in 0 .. n - 1 /\ y \in 0 .. n - 1
  <2>1. x \in 0 .. n - 1
    BY Place, <1>3
  <2>2. y \in 0 .. n - 1
    BY Place
  <2>3. QED BY <2>1, <2>2
<1> HIDE DEF r, x, y
<1>7. y - x = (q + k - j) * n
  <2>1. a = q * n + r /\ r + 1 = k * n + x /\ a + 1 = j * n + y
    BY <1>1, <1>4, <1>5 DEF x, y
  <2>2. q * n \in Int /\ k * n \in Int /\ j * n \in Int /\ r \in Int
    BY <1>2
  <2>3. y - x = q * n + k * n - j * n
    BY <2>1, <2>2, <1>6
  <2>4. QED BY <2>3
<1>8. CASE q + k - j <= -1
  <2>1. (q + k - j + 1) * n <= 0
    BY <1>8
  <2>2. QED BY <2>1, <1>6, <1>7
<1>9. CASE q + k - j >= 1
  <2>1. (q + k - j - 1) * n >= 0
    BY <1>9
  <2>2. QED BY <2>1, <1>6, <1>7
<1>10. CASE q + k - j = 0
  <2>1. y = x
    BY <1>6, <1>7, <1>10
  <2>2. QED BY <2>1 DEF x, y, r
<1>11. QED BY <1>8, <1>9, <1>10

----------------------------------------------------------------------------
(* The steps *)

\* A signal takes no worker from its task.
LEMMA Signalled ==
  ASSUME NEW ws \in [Worker -> {"idle", "asleep", "working"}], NEW vs \in Signal(ws)
  PROVE  /\ vs \in [Worker -> {"idle", "asleep", "working"}]
         /\ {w \in Worker : vs[w] = "working"} = {w \in Worker : ws[w] = "working"}
BY DEF Signal

LEMMA Room ==
  arrsz \in Nat \ {0}
BY PoolAssumption, FS_CardinalityType, FS_EmptySet DEF arrsz

LEMMA BusyAreCounted ==
  ASSUME NEW S \in SUBSET Worker
  PROVE  IsFiniteSet(S) /\ Cardinality(S) \in Nat
BY PoolAssumption, FS_Subset, FS_CardinalityType

LEMMA PoolInit ==
  ASSUME Init
  PROVE  PoolInv
<1>1. Cardinality(Busy) = 0
  <2>1. Busy = {}
    BY DEF Busy, Init
  <2>2. QED BY <2>1, FS_EmptySet
<1>2. 0 % arrsz = 0
  BY Room, SMTT(20)
<1>3. Counted
  BY <1>1, Room DEF Init, Counted
<1>4. Ring
  BY <1>2 DEF Init, Ring
<1>5. QED BY <1>3, <1>4 DEF PoolInv

LEMMA PoolStep ==
  ASSUME PoolInv, [Next]_vars
  PROVE  PoolInv'
<1> USE Room
<1>1. /\ Cardinality(Busy) \in Nat /\ IsFiniteSet(Busy)
      /\ num_ops_waiting \in Nat /\ num_ops_working \in Nat /\ task_id \in Nat
  BY BusyAreCounted DEF PoolInv, Counted, Ring, Busy
<1>2. ASSUME UNCHANGED <<ops, next_op, num_ops_waiting, num_ops_working, task_id>>,
             worker' \in [Worker -> {"idle", "asleep", "working"}], DOMAIN myarg' = Worker,
             \A w \in Worker : worker'[w] = "working" <=> worker[w] = "working"
      PROVE  PoolInv'
  <2>1. Busy' = Busy
    BY <1>2 DEF Busy
  <2>2. QED BY <1>2, <2>1 DEF PoolInv, Ring, Counted
<1>3. ASSUME NEW w \in Worker, Sleep(w) PROVE PoolInv'
  BY <1>2, <1>3 DEF Sleep, PoolInv, Counted
<1>4. CASE DispatchWait
  BY <1>2, <1>4, Signalled DEF DispatchWait, PoolInv, Counted
<1>5. CASE SpuriousWakeup
  BY <1>2, <1>5 DEF SpuriousWakeup, PoolInv, Counted
<1>6. CASE UNCHANGED vars
  BY <1>2, <1>6 DEF vars, PoolInv, Counted
<1>7. ASSUME NEW w \in Worker, Done(w) PROVE PoolInv'
  <2>1. Busy' = Busy \ {w} /\ w \in Busy
    BY <1>7 DEF Done, Busy, PoolInv, Counted
  <2>2. Cardinality(Busy') = Cardinality(Busy) - 1
    BY <1>1, <2>1, FS_RemoveElement
  <2>3. Counted'
    BY <1>1, <1>7, <2>2 DEF Done, PoolInv, Counted
  <2>4. Ring'
    BY <1>7 DEF Done, PoolInv, Ring
  <2>5. QED BY <2>3, <2>4 DEF PoolInv
<1>8. ASSUME NEW w \in Worker, Take(w) PROVE PoolInv'
  <2> DEFINE ws == [worker EXCEPT ![w] = "working"]
  <2>1. ws \in [Worker -> {"idle", "asleep", "working"}] /\ worker' \in Signal(ws)
    BY <1>8 DEF Take, PoolInv, Counted
  <2>2. {u \in Worker : ws[u] = "working"} = Busy \cup {w} /\ w \notin Busy
    BY <1>8 DEF Take, PoolInv, Counted, Busy
  <2> HIDE DEF ws
  <2>3. /\ worker' \in [Worker -> {"idle", "asleep", "working"}]
        /\ Busy' = Busy \cup {w}
    BY <2>1, <2>2, Signalled DEF Busy
  <2>4. Cardinality(Busy') = Cardinality(Busy) + 1
    BY <1>1, <2>2, <2>3, FS_AddElement
  <2>5. Counted'
    <3>1. DOMAIN myarg' = Worker /\ num_ops_working' = num_ops_working
      BY <1>8 DEF Take, PoolInv, Counted
    <3>2. num_ops_waiting' = num_ops_waiting - 1
      BY <1>8 DEF Take
    <3>3. num_ops_working' = num_ops_waiting' + Cardinality(Busy')
      BY <1>1, <2>4, <3>1, <3>2 DEF PoolInv, Counted
    <3>4. QED BY <2>3, <3>1, <3>3 DEF PoolInv, Counted
  <2> DEFINE k == task_id - num_ops_waiting
  <2>6. k \in Nat /\ next_op = k % arrsz /\ num_ops_waiting' = num_ops_waiting - 1
    BY <1>1, <1>8 DEF Take, PoolInv, Ring
  <2>7. next_op' = (k + 1) % arrsz
    BY <1>8, <2>6, NextPlace DEF Take
  <2>8. k + 1 = task_id - num_ops_waiting'
    BY <1>1, <2>6
  <2>9. Ring'
    BY <1>1, <1>8, <2>6, <2>7, <2>8 DEF Take, PoolInv, Ring
  <2>10. QED BY <2>5, <2>9 DEF PoolInv
<1>9. CASE Dispatch
  <2>1. /\ worker' \in [Worker -> {"idle", "asleep", "working"}]
        /\ Busy' = Busy
    BY <1>9, Signalled DEF Dispatch, Post, PoolInv, Counted, Busy
  <2>2. Counted'
    BY <1>1, <1>9, <2>1 DEF Dispatch, Post, PoolInv, Counted
  <2>3. num_ops_waiting < arrsz
    BY <1>1, <1>9 DEF Dispatch, PoolInv, Counted
  <2>4. task_id % arrsz \in Slot
    BY <1>1, Place DEF Slot
  <2>5. ASSUME NEW k \in (task_id - num_ops_waiting .. task_id - 1)' PROVE ops'[k % arrsz] = k
    <3>1. k \in Int /\ k <= task_id /\ task_id - num_ops_waiting <= k
      BY <1>1, <1>9 DEF Dispatch, Post
    <3>2. CASE k = task_id
      BY <1>9, <2>4, <3>2 DEF Dispatch, Post, PoolInv, Ring
    <3>3. CASE k # task_id
      <4>1. k % arrsz # task_id % arrsz
        <5>1. arrsz \in Nat \ {0} /\ task_id \in Int /\ k - task_id < arrsz /\ task_id - k < arrsz
          BY <1>1, <2>3, <3>1
        <5>2. QED BY <3>1, <3>3, <5>1, Apart
      <4>2. ops[k % arrsz] = k
        BY <1>1, <3>1, <3>3 DEF PoolInv, Ring
      <4>3. QED BY <1>9, <4>1, <4>2, <3>1, Place DEF Dispatch, Post, PoolInv, Ring, Slot
    <3>4. QED BY <3>2, <3>3
  <2>6. Ring'
    BY <1>1, <1>9, <2>5 DEF Dispatch, Post, PoolInv, Ring
  <2>7. QED BY <2>2, <2>6 DEF PoolInv
<1>10. QED BY <1>3, <1>4, <1>5, <1>6, <1>7, <1>8, <1>9 DEF Next, WorkerStep

\* A worker takes the oldest task nobody has taken (do_work), whatever signals and
\* spurious wakeups there are: no task is overwritten in the ring, lost or run twice.
THEOREM RingIsInOrder == Spec => OldestFirst
<1> DEFINE InTurn == \A w \in Worker : Take(w) => myarg'[w] = task_id - num_ops_waiting
<1>1. ASSUME PoolInv PROVE InTurn
  <2>1. ASSUME NEW w \in Worker, Take(w) PROVE myarg'[w] = task_id - num_ops_waiting
    <3>1. myarg'[w] = ops[next_op] /\ num_ops_waiting # 0
      BY <1>1, <2>1 DEF PoolInv, Counted, Take
    <3>2. task_id - num_ops_waiting \in task_id - num_ops_waiting .. task_id - 1
      BY <1>1, <3>1 DEF PoolInv, Ring
    <3>3. QED BY <1>1, <3>1, <3>2 DEF PoolInv, Ring
  <2>2. QED BY <2>1
<1>2. Init => PoolInv
  BY PoolInit
<1>3. PoolInv /\ [Next]_vars => PoolInv'
  BY PoolStep
<1>4. PoolInv /\ [Next]_vars => [InTurn]_vars
  BY <1>1
<1>5. QED BY <1>2, <1>3, <1>4, PTL DEF Spec, OldestFirst
=============================================================================
