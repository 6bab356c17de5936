------------------------ MODULE ThreadBarrier_proof ------------------------
(***************************************************************************)
(* The barrier of the benchmarks' parallel sections, for every number of   *)
(* threads that is a power of two.                                         *)
(***************************************************************************)
EXTENDS ThreadBarrier, WellFoundedInduction, TLAPS

----------------------------------------------------------------------------
(* The invariant *)

\* The levels of the barrier: the threads meet in blocks of i.
Levels == {i \in 1 .. numThread : numThread % i = 0}
Meeting == Levels \ {1}

Inside == {"up", "proceed", "proceed_all", "down"}
Outside == {"main", "started", "func", "ended", "exit", "join", "done"}
Record == [pc : Inside \cup Outside, i : Nat, then : {"main", "started", "ended", "join"}]

\* The size of the block that waits for a thread to come down, itself included.
Hold(r) == IF r.pc \notin Inside THEN 1 ELSE IF r.pc = "down" THEN r.i ELSE r.i \div 2
hold(t) == Hold(thread[t])

\* The barrier at the start of a section, or the one at its end.
TagOf(r) == IF r.then = "join" THEN "started" ELSE IF r.then = "main" THEN "ended" ELSE r.then
Tag(t) == TagOf(thread[t])

\* On the way up or asleep; else released, and not yet at the next barrier.
Rising(t) == thread[t].pc \in {"up", "proceed"} \/ t \in asleep

Fits(t, r) ==
  /\ r \in Record
  /\ r.pc \in Inside => r.i \in Meeting /\ t % Hold(r) = 0 /\ r.then # "main"
  /\ r.pc \in {"proceed", "down"} => t % r.i = 0
  /\ r.pc = "proceed_all" => t % r.i # 0
  /\ r.pc \in {"started", "func", "exit"} => r.then = "started"
  /\ r.pc = "ended" => r.then = "ended"
  /\ r.pc = "main" => r.then = "main"
  /\ r.pc \in {"join", "done"} => r.then = "join"
  /\ r.then \in {"main", "join"} => t = 0

Local == /\ thread \in [Thread -> Record] /\ \A t \in Thread : Fits(t, thread[t])
         /\ asleep \subseteq {t \in Thread : At(t, "proceed_all")}

\* Those of a thread's block sleep, at the barrier that it is at.
Held == \A t, u \in Thread : t < u /\ u < t + hold(t) => u \in asleep /\ Tag(u) = Tag(t)

\* The winner of a thread that sleeps has come for it, or is still on its way up,
\* or has not come back from the barrier before.
Paired ==
  \A u \in asleep, t \in Thread : t = u - thread[u].i \div 2 /\ hold(t) < thread[u].i
                                    => (Rising(t) <=> Tag(t) = Tag(u))

\* A node counts who has come and is not released.
Come(t, i) == (At(t, "proceed") /\ thread[t].i = i) \/ hold(t) >= i
Node(i, t) == base(i) + t \div i
Counted ==
  /\ count \in [Index -> Nat]
  /\ \A i \in Meeting, t \in Thread : t % i = 0 =>
       count[Node(i, t)] = (IF Come(t, i) THEN 1 ELSE 0)
                           + (IF t + i \div 2 \in asleep /\ thread[t + i \div 2].i = i THEN 1 ELSE 0)

\* Those who are released come from one barrier, and leave there only sleepers;
\* and as long as there are some at each barrier, somebody is released.
ReleasedTogether ==
  \A t, u \in Thread : ~ Rising(t) =>
    /\ ~ Rising(u) => Tag(u) = Tag(t)
    /\ Rising(u) /\ Tag(u) = Tag(t) => u \in asleep
Mixed == \A t, u \in Thread : Tag(t) # Tag(u) => \E v \in Thread : ~ Rising(v)

ShutDown ==
  /\ global_doShutdown \in BOOLEAN
  /\ global_doShutdown => \A t \in Thread : ~ At(t, "func")
  /\ ~ global_doShutdown => \A t \in Thread : thread[t].then # "join"

BarrierInv == Local /\ Held /\ Paired /\ Counted /\ ReleasedTogether /\ Mixed /\ ShutDown

----------------------------------------------------------------------------
(* Multiples and levels *)

\* Every set of numbers has a least one.
LEMMA LeastOf == ASSUME NEW S, S \subseteq Nat, S # {} PROVE \E m \in S : \A n \in S : m <= n
<1> DEFINE R == {p \in Nat \X Nat : p[1] < p[2]}
<1>1. IsWellFoundedOn(R, Nat)
  BY NatLessThanWellFounded DEF OpToRel
<1>2. PICK m \in S : \A n \in S : <<n, m>> \notin R
  <2> HIDE DEF R
  <2>1. QED BY <1>1, WFMin
<1>3. ASSUME NEW n \in S PROVE m <= n
  <2>1. <<n, m>> \in Nat \X Nat => ~ (n < m)
    BY <1>2
  <2>2. m \in Nat /\ n \in Nat
    OBVIOUS
  <2>3. QED BY <2>1, <2>2
<1>4. QED BY <1>3

\* Who is a multiple.
LEMMA ModZero ==
  ASSUME NEW t \in Nat, NEW d \in Nat \ {0} PROVE t % d = 0 <=> \E q \in Nat : t = q * d
<1>1. ASSUME t % d = 0 PROVE \E q \in Nat : t = q * d
  <2>1. PICK q \in Int : q = t \div d
    OBVIOUS
  <2>2. t = q * d
    BY <1>1, <2>1
  <2>3. q \in Nat
    BY <2>2, SMTT(20)
  <2>4. QED BY <2>2, <2>3
<1>2. ASSUME NEW q \in Nat, t = q * d PROVE t % d = 0
  <2>1. PICK k \in Int, r \in Int : t = k * d + r /\ 0 <= r /\ r < d /\ r = t % d
    OBVIOUS
  <2>2. (q - k) * d = r
    BY <1>2, <2>1
  <2>3. q - k >= 1 => (q - k) * d >= d
    BY SMTT(20)
  <2>4. q - k <= -1 => (q - k) * d <= - d
    BY SMTT(20)
  <2>5. q = k
    BY <2>1, <2>2, <2>3, <2>4
  <2>6. QED BY <2>1, <2>2, <2>5
<1>3. QED BY <1>1, <1>2

\* A product is a multiple.
LEMMA Multiple == ASSUME NEW q \in Nat, NEW d \in Nat \ {0} PROVE q * d \in Nat /\ (q * d) % d = 0
<1>1. q * d \in Nat
  OBVIOUS
<1>2. QED BY <1>1, ModZero

\* Of multiples of h, the next is at least h further.
LEMMA Gap ==
  ASSUME NEW c \in Nat, NEW b \in Nat, NEW h \in Nat \ {0}, c % h = 0, b % h = 0, c < b
  PROVE  c + h <= b
<1>1. PICK p \in Nat : c = p * h
  BY ModZero
<1>2. PICK q \in Nat : b = q * h
  BY ModZero
<1>3. p < q
  BY <1>1, <1>2, SMTT(20)
<1>4. (q - p) * h >= h
  BY <1>3, SMTT(20)
<1>5. QED BY <1>1, <1>2, <1>4

\* A multiple of a multiple.
LEMMA Divides ==
  ASSUME NEW t \in Nat, NEW e \in Nat \ {0}, NEW d \in Nat \ {0}, t % e = 0, e % d = 0
  PROVE  t % d = 0
<1>1. PICK p \in Nat : t = p * e
  BY ModZero
<1>2. PICK q \in Nat : e = q * d
  BY ModZero
<1>3. t = (p * q) * d /\ p * q \in Nat
  BY <1>1, <1>2
<1>4. QED BY <1>3, ModZero

\* What the levels are.
LEMMA Levelled ==
  /\ numThread \in Nat /\ numThread >= 2
  /\ \A i \in Levels : i \in Nat \ {0} /\ i <= numThread /\ numThread % i = 0
  /\ 1 \in Levels /\ numThread \in Meeting
  /\ \A i \in Meeting : i \in Levels /\ i >= 2
<1>1. numThread \in Nat /\ numThread >= 2
  BY BarrierAssumption
<1>2. numThread % 1 = 0 /\ numThread % numThread = 0
  <2>1. numThread = numThread * 1 /\ numThread = 1 * numThread
    BY <1>1
  <2>2. QED BY <1>1, <2>1, ModZero
<1>3. QED BY <1>1, <1>2 DEF Levels, Meeting

\* Under a level where threads meet there is one of half the size (numThread is a
\* power of two).
LEMMA HalfLevel == ASSUME NEW i \in Meeting PROVE i % 2 = 0 /\ i = 2 * (i \div 2) /\ i \div 2 \in Levels
<1>1. i \in 2 .. numThread /\ numThread % i = 0
  BY Levelled
<1>2. i % 2 = 0
  BY <1>1, BarrierAssumption
<1>3. i = 2 * (i \div 2) /\ i \div 2 \in Nat \ {0} /\ i \div 2 <= i
  BY <1>1, <1>2
<1>4. PICK h \in Nat : h = i \div 2
  BY <1>3
<1>5. i = 2 * h /\ h # 0
  BY <1>3, <1>4
<1>6. i % h = 0
  BY <1>5, Multiple
<1>7. numThread % h = 0
  BY <1>1, <1>5, <1>6, Levelled, Divides
<1>8. QED BY <1>1, <1>2, <1>3, <1>4, <1>7, Levelled DEF Levels

\* That half, as a number.
LEMMA HalvesLess ==
  ASSUME NEW i \in Meeting
  PROVE  i \in Nat \ {0} /\ i = 2 * (i \div 2) /\ i \div 2 \in Nat \ {0} /\ i \div 2 < i
<1>1. i \in Nat /\ i >= 2
  BY Levelled
<1>2. i = 2 * (i \div 2)
  BY HalfLevel
<1>3. QED BY <1>1, <1>2

\* Above a level there is one of twice the size, up to numThread.
LEMMA DoubleLevel ==
  ASSUME NEW i \in Levels PROVE IF 2 * i <= numThread THEN 2 * i \in Meeting ELSE i = numThread
<1>1. i \in Nat \ {0} /\ numThread \in Nat \ {0} /\ numThread % i = 0 /\ i <= numThread
  BY Levelled
<1>2. PICK q \in Nat : numThread = q * i
  BY <1>1, ModZero
<1>3. q >= 1
  BY <1>1, <1>2
<1>4. CASE q = 1
  BY <1>1, <1>2, <1>4
<1>5. CASE q >= 2
  <2>1. 2 * i <= numThread
    BY <1>1, <1>2, <1>5, SMTT(20)
  <2>2. numThread % q = 0 /\ q <= numThread
    <3>1. numThread = i * q
      BY <1>1, <1>2
    <3>2. q <= i * q
      BY <1>1, <1>5, SMTT(20)
    <3>3. QED BY <1>1, <1>3, <3>1, <3>2, Multiple
  <2>3. q \in Meeting
    BY <1>1, <1>5, <2>2 DEF Levels, Meeting
  <2>4. PICK h \in Nat : q = 2 * h
    BY <2>3, HalfLevel, Levelled
  <2>5. PICK j \in Nat \ {0} : j = 2 * i
    BY <1>1
  <2>6. numThread = h * j
    BY <1>1, <1>2, <2>4, <2>5
  <2>7. numThread % j = 0
    BY <1>1, <2>6, Multiple
  <2>8. QED BY <1>1, <2>1, <2>5, <2>7 DEF Levels, Meeting
<1>6. QED BY <1>3, <1>4, <1>5

\* One level divides the next.
LEMMA NextLevel ==
  ASSUME NEW d \in Levels, NEW e \in Levels, d < e PROVE 2 * d <= e /\ e % d = 0
<1> DEFINE Bad == {n \in Levels : \E m \in Levels : n < m /\ ~ (2 * n <= m /\ m % n = 0)}
<1>1. SUFFICES ASSUME Bad # {} PROVE FALSE
  BY DEF Bad
<1>2. Bad \subseteq Nat
  BY Levelled
<1>3. PICK n \in Bad : \A k \in Bad : n <= k
  BY <1>1, <1>2, LeastOf
<1>4. PICK m \in Levels : n < m /\ ~ (2 * n <= m /\ m % n = 0)
  BY <1>3
<1>5. n \in Levels /\ n \in Nat \ {0} /\ m \in Nat \ {0}
  BY <1>3, Levelled
<1>6. n # 1
  <2> SUFFICES ASSUME n = 1 PROVE FALSE
    OBVIOUS
  <2>1. m = m * 1
    BY <1>5
  <2>2. m % 1 = 0
    BY <1>5, <2>1, Multiple
  <2>3. QED BY <1>4, <1>5, <2>2
<1>7. n \in Meeting /\ m \in Meeting
  BY <1>4, <1>5, <1>6 DEF Meeting
<1>8. PICK a \in Levels : n = 2 * a /\ a \in Nat \ {0}
  BY <1>7, HalfLevel, Levelled
<1>9. PICK b \in Levels : m = 2 * b /\ b \in Nat \ {0}
  BY <1>7, HalfLevel, Levelled
<1>10. a < b /\ a < n
  BY <1>4, <1>8, <1>9
<1>11. 2 * a <= b /\ b % a = 0
  <2>1. a \notin Bad
    BY <1>3, <1>8, <1>10, <1>5
  <2>2. QED BY <1>10, <2>1
<1>12. PICK q \in Nat : b = q * a
  BY <1>8, <1>9, <1>11, ModZero
<1>13. m = q * n
  BY <1>8, <1>9, <1>12
<1>14. m % n = 0
  BY <1>5, <1>13, Multiple
<1>15. QED BY <1>4, <1>8, <1>9, <1>11, <1>14

\* What a thread that loses at i, and one that wins there, has to do with the other.
LEMMA Lost ==
  ASSUME NEW i \in Meeting, NEW u \in Thread, u % (i \div 2) = 0, u % i # 0
  PROVE  /\ u - i \div 2 \in Thread /\ (u - i \div 2) % i = 0
         /\ u \div i = (u - i \div 2) \div i
<1>1. PICK h \in Nat \ {0} : h = i \div 2 /\ i = 2 * h /\ u % h = 0
  BY HalfLevel, Levelled
<1>2. u \in Nat /\ u < numThread /\ numThread \in Nat /\ i \in Nat \ {0}
  BY Levelled DEF Thread
<1>3. PICK q \in Nat : u = q * h
  BY <1>1, <1>2, ModZero
<1>4. PICK p \in Nat : q = 2 * p \/ q = 2 * p + 1
  <2>1. q \div 2 \in Nat /\ (q = 2 * (q \div 2) \/ q = 2 * (q \div 2) + 1)
    OBVIOUS
  <2>2. QED BY <2>1
<1>5. q # 2 * p
  <2> SUFFICES ASSUME q = 2 * p PROVE FALSE
    OBVIOUS
  <2>1. u = p * i
    BY <1>1, <1>3
  <2>2. QED BY <1>2, <2>1, Multiple
<1>6. u = p * i + h
  BY <1>1, <1>3, <1>4, <1>5
<1>7. p * i \in Nat /\ (p * i) % i = 0
  BY <1>2, Multiple
<1>8. u \div i = p /\ (p * i) \div i = p
  BY <1>1, <1>2, <1>6, SMTT(20)
<1>9. u - h = p * i
  BY <1>1, <1>6, <1>7
<1>10. QED BY <1>1, <1>2, <1>6, <1>7, <1>8, <1>9 DEF Thread

LEMMA Won ==
  ASSUME NEW i \in Meeting, NEW t \in Thread, t % i = 0
  PROVE  /\ t + i <= numThread /\ t + i \div 2 \in Thread
         /\ (t + i \div 2) % (i \div 2) = 0 /\ (t + i \div 2) % i # 0
         /\ (t + i \div 2) \div i = t \div i
         /\ \A u \in Thread : u % (i \div 2) = 0 /\ u % i # 0 /\ u \div i = t \div i => u = t + i \div 2
         /\ \A u \in Thread : u % i = 0 /\ u \div i = t \div i => u = t
<1>1. PICK h \in Nat \ {0} : h = i \div 2 /\ i = 2 * h
  BY HalfLevel, Levelled
<1>2. t \in Nat /\ t < numThread /\ numThread \in Nat /\ i \in Nat \ {0} /\ numThread % i = 0 /\ h < i
  BY <1>1, Levelled DEF Thread
<1>3. t + i <= numThread
  BY <1>2, Gap
<1>4. PICK p \in Nat : t = p * i
  BY <1>2, ModZero
<1>5. t + h = p * i + h /\ t + h = (2 * p + 1) * h
  BY <1>1, <1>4
<1>6. (t + h) \div i = p /\ t \div i = p /\ (t + h) % i = h
  <2>1. t + h = p * i + h /\ 0 <= h /\ h < i
    BY <1>1, <1>2, <1>4
  <2>2. (t + h) \div i = p
    BY <1>2, <2>1, SMTT(20)
  <2>3. (t + h) % i = h
    BY <1>2, <2>1, SMTT(20)
  <2>4. t \div i = p
    BY <1>2, <1>4, SMTT(20)
  <2>5. QED BY <2>2, <2>3, <2>4
<1>7. (t + h) % h = 0
  <2>1. PICK k \in Nat : k = 2 * p + 1
    OBVIOUS
  <2>2. t + h = k * h
    BY <1>5, <2>1
  <2>3. (k * h) % h = 0
    BY Multiple
  <2>4. QED BY <2>2, <2>3
<1>8. ASSUME NEW u \in Thread, u \div i = p
      PROVE  (u % i = 0 => u = t) /\ (u % h = 0 /\ u % i # 0 => u = t + h)
  <2>1. ASSUME NEW v \in Nat, v % i = 0, v \div i = p PROVE v = t
    <3>1. PICK k \in Nat : v = k * i
      BY <1>2, <2>1, ModZero
    <3>2. v \div i = k
      BY <1>2, <3>1, SMTT(20)
    <3>3. QED BY <1>4, <2>1, <3>1, <3>2
  <2>2. u \in Nat
    BY DEF Thread
  <2>3. ASSUME u % h = 0, u % i # 0 PROVE u = t + h
    <3>1. u - h \in Nat /\ (u - h) % i = 0 /\ u \div i = (u - h) \div i
      BY <1>1, <2>3, Lost DEF Thread
    <3>2. u - h = t
      BY <1>8, <2>1, <3>1
    <3>3. QED BY <1>1, <2>2, <3>2
  <2>4. QED BY <1>8, <2>1, <2>2, <2>3
<1>9. h < i /\ t + h \in Thread
  BY <1>1, <1>2, <1>3 DEF Thread
<1>10. QED BY <1>1, <1>2, <1>3, <1>6, <1>7, <1>8, <1>9

\* Every block has a node of its own.
LEMMA Nodes ==
  ASSUME NEW i \in Meeting, NEW t \in Thread
  PROVE  /\ Node(i, t) \in Index
         /\ \A j \in Meeting, u \in Thread : Node(i, t) = Node(j, u) => i = j /\ t \div i = u \div j
<1> DEFINE n == numThread
<1>1. n \in Nat /\ n >= 2
  BY Levelled
<1>2. ASSUME NEW j \in Meeting, NEW u \in Thread
      PROVE \E m \in Nat \ {0} : /\ n = m * j /\ base(j) = n - 2 * m
                                 /\ u \div j \in 0 .. m - 1
  <2>1. j \in Nat \ {0} /\ n % j = 0 /\ u \in Nat /\ u < n
    BY Levelled DEF Thread
  <2>2. PICK m \in Nat : n = m * j
    BY <1>1, <2>1, ModZero
  <2>3. m # 0
    <3>1. m = 0 => m * j = 0
      BY <2>1
    <3>2. QED BY <1>1, <2>2, <3>1
  <2>4. (2 * n) \div j = 2 * m
    <3>1. 2 * n = (2 * m) * j
      BY <2>1, <2>2
    <3>2. QED BY <2>1, <3>1, SMTT(20)
  <2>5. PICK q \in Int : q = u \div j
    BY <2>1
  <2>6. q * j <= u /\ u < (q + 1) * j
    BY <2>1, <2>5
  <2>7. q >= 0 /\ q < m
    <3>1. q <= -1 => (q + 1) * j <= 0
      BY <2>1, SMTT(20)
    <3>2. q >= m => q * j >= m * j
      BY <2>1, SMTT(20)
    <3>3. QED BY <2>1, <2>2, <2>6, <3>1, <3>2
  <2>8. QED BY <2>2, <2>3, <2>4, <2>5, <2>7 DEF base
<1>3. PICK m \in Nat \ {0} : n = m * i /\ base(i) = n - 2 * m /\ t \div i \in 0 .. m - 1
  BY <1>2
<1>4. i \in Nat /\ i >= 2
  BY Levelled
<1>5. 2 * m <= n
  BY <1>3, <1>4, SMTT(20)
<1>6. Node(i, t) \in Index
  BY <1>1, <1>3, <1>5 DEF Node, Index
<1>7. ASSUME NEW j \in Meeting, NEW u \in Thread, Node(i, t) = Node(j, u)
      PROVE  i = j /\ t \div i = u \div j
  <2>1. PICK k \in Nat \ {0} : n = k * j /\ base(j) = n - 2 * k /\ u \div j \in 0 .. k - 1
    BY <1>2
  <2>2. j \in Nat /\ j >= 2
    BY Levelled
  <2>3. ASSUME NEW a \in Nat \ {0}, NEW b \in Nat \ {0}, NEW c \in Nat, NEW d \in Nat,
               a * c = b * d, 2 * c <= d, c >= 1 PROVE 2 * b <= a
    <3>1. b * (2 * c) <= b * d
      BY <2>3, SMTT(20)
    <3>2. (2 * b) * c <= a * c
      BY <2>3, <3>1
    <3>3. a < 2 * b => a * c < (2 * b) * c
      BY <2>3, SMTT(20)
    <3>4. QED BY <3>2, <3>3
  <2>4. ~ (i < j)
    <3> SUFFICES ASSUME i < j PROVE FALSE
      OBVIOUS
    <3>1. 2 * i <= j
      BY NextLevel, Levelled
    <3>2. 2 * k <= m
      BY <1>3, <1>4, <2>1, <2>2, <2>3, <3>1
    <3>3. QED BY <1>1, <1>3, <1>7, <2>1, <3>2 DEF Node
  <2>5. ~ (j < i)
    <3> SUFFICES ASSUME j < i PROVE FALSE
      OBVIOUS
    <3>1. 2 * j <= i
      BY NextLevel, Levelled
    <3>2. 2 * m <= k
      BY <1>3, <1>4, <2>1, <2>2, <2>3, <3>1
    <3>3. QED BY <1>1, <1>3, <1>7, <2>1, <3>2 DEF Node
  <2>6. i = j
    BY <1>4, <2>2, <2>4, <2>5
  <2>7. QED BY <1>1, <1>3, <1>7, <2>1, <2>6 DEF Node
<1>8. QED BY <1>6, <1>7

----------------------------------------------------------------------------
(* What a step changes *)

\* What the invariant says of one thread.
LEMMA Holding ==
  ASSUME Local, NEW t \in Thread
  PROVE  /\ hold(t) \in Levels /\ hold(t) \in Nat \ {0} /\ t % hold(t) = 0 /\ t \in Nat
         /\ Tag(t) \in {"started", "ended"}
         /\ t \in asleep => /\ thread[t].i \in Meeting /\ hold(t) = thread[t].i \div 2
                            /\ t % (thread[t].i \div 2) = 0 /\ t % thread[t].i # 0
                            /\ t - thread[t].i \div 2 \in Thread
                            /\ (t - thread[t].i \div 2) % thread[t].i = 0
<1>1. Fits(t, thread[t]) /\ t \in Nat
  BY DEF Local, Thread
<1>2. 1 \in Levels /\ t % 1 = 0
  <2>1. t = t * 1
    BY <1>1
  <2>2. t % 1 = 0
    BY <1>1, <2>1, Multiple
  <2>3. QED BY <2>2, Levelled
<1>3. hold(t) \in Levels /\ t % hold(t) = 0
  <2>1. CASE thread[t].pc \notin Inside
    BY <1>2, <2>1 DEF hold, Hold
  <2>2. CASE thread[t].pc \in Inside
    <3>1. thread[t].i \in Meeting /\ t % hold(t) = 0
      BY <1>1, <2>2 DEF Fits, hold
    <3>2. hold(t) = thread[t].i \/ hold(t) = thread[t].i \div 2
      BY <2>2 DEF hold, Hold
    <3>3. QED BY <3>1, <3>2, HalfLevel DEF Meeting
  <2>3. QED BY <2>1, <2>2
<1>4. Tag(t) \in {"started", "ended"}
  BY <1>1 DEF Tag, TagOf, Fits, Record
<1>5. ASSUME t \in asleep
      PROVE  /\ thread[t].i \in Meeting /\ hold(t) = thread[t].i \div 2
             /\ t % (thread[t].i \div 2) = 0 /\ t % thread[t].i # 0
  <2>1. thread[t].pc = "proceed_all"
    BY <1>5 DEF Local, At
  <2>2. QED BY <1>1, <2>1 DEF Fits, hold, Hold, Inside
<1>6. t \in asleep => /\ t - thread[t].i \div 2 \in Thread
                      /\ (t - thread[t].i \div 2) % thread[t].i = 0
  BY <1>5, Lost
<1>7. QED BY <1>1, <1>3, <1>4, <1>5, <1>6, Levelled

\* A thread loses at one level.
LEMMA LostOnce ==
  ASSUME NEW u \in Nat, NEW i \in Meeting, NEW j \in Meeting,
         u % (i \div 2) = 0, u % i # 0, u % (j \div 2) = 0, u % j # 0
  PROVE  i = j
<1>1. ASSUME NEW a \in Meeting, NEW b \in Meeting, a < b, u % (b \div 2) = 0 PROVE u % a = 0
  <2>1. 2 * a <= b /\ a \in Levels /\ a \in Nat \ {0}
    BY <1>1, NextLevel, Levelled
  <2>2. PICK h \in Levels : h = b \div 2 /\ b = 2 * h /\ h \in Nat \ {0}
    BY HalfLevel, Levelled
  <2>3. a <= h
    BY <2>1, <2>2
  <2>4. CASE a = h
    BY <1>1, <2>2, <2>4
  <2>5. CASE a < h
    <3>1. h % a = 0
      BY <2>1, <2>2, <2>5, NextLevel
    <3>2. QED BY <1>1, <2>1, <2>2, <3>1, Divides
  <2>6. QED BY <2>1, <2>2, <2>3, <2>4, <2>5
<1>2. i \in Nat /\ j \in Nat
  BY Levelled
<1>3. QED BY <1>1, <1>2

\* A block does not begin inside another and end outside.
LEMMA Nest ==
  ASSUME NEW t \in Nat, NEW c \in Nat, NEW b \in Nat, NEW g \in Levels, NEW h \in Levels,
         t % g = 0, c % h = 0, b % g = 0, t < c, c < b, b <= t + g, b < c + h
  PROVE  FALSE
<1>1. g \in Nat \ {0} /\ h \in Nat \ {0}
  BY Levelled
<1>2. ASSUME h < g PROVE FALSE
  <2>1. g % h = 0
    BY <1>2, NextLevel
  <2>2. b % h = 0
    BY <1>1, <2>1, Divides
  <2>3. c + h <= b
    BY <1>1, <2>2, Gap
  <2>4. QED BY <1>1, <2>3
<1>3. ASSUME c % g = 0 PROVE FALSE
  <2>1. t + g <= c
    BY <1>1, <1>3, Gap
  <2>2. QED BY <1>1, <2>1
<1>4. ASSUME g < h PROVE FALSE
  <2>1. h % g = 0
    BY <1>4, NextLevel
  <2>2. c % g = 0
    BY <1>1, <2>1, Divides
  <2>3. QED BY <1>3, <2>2
<1>5. QED BY <1>1, <1>2, <1>3, <1>4

\* The record of t becomes r.
Moves(t, r) == thread' = [thread EXCEPT ![t] = r] /\ Fits(t, r)

\* The other threads stay where they are.
LEMMA Moved ==
  ASSUME Local, NEW t \in Thread, NEW r, Moves(t, r)
  PROVE  /\ thread'[t] = r /\ hold(t)' = Hold(r) /\ Tag(t)' = TagOf(r)
         /\ \A u \in Thread : u # t => thread'[u] = thread[u] /\ hold(u)' = hold(u) /\ Tag(u)' = Tag(u)
         /\ thread' \in [Thread -> Record] /\ \A u \in Thread : Fits(u, thread'[u])
<1>1. thread' = [thread EXCEPT ![t] = r] /\ Fits(t, r) /\ r \in Record /\ thread \in [Thread -> Record]
  BY DEF Moves, Fits, Local
<1>2. thread'[t] = r /\ \A u \in Thread : u # t => thread'[u] = thread[u]
  BY <1>1
<1>3. \A u \in Thread : Fits(u, thread'[u])
  BY <1>1, <1>2 DEF Local
<1>4. thread' \in [Thread -> Record]
  BY <1>1
<1>5. hold(t)' = Hold(r) /\ Tag(t)' = TagOf(r)
  BY <1>2 DEF hold, Tag
<1>6. \A u \in Thread : u # t => hold(u)' = hold(u) /\ Tag(u)' = Tag(u)
  BY <1>2 DEF hold, Tag
<1>7. QED BY <1>2, <1>3, <1>4, <1>5, <1>6

\* A step of t that neither releases anybody nor takes t to another barrier, and
\* after which t holds what it has held.
LEMMA Quiet ==
  ASSUME Local, Held, Paired, ReleasedTogether, Mixed, NEW t \in Thread, NEW r, Moves(t, r),
         Hold(r) = hold(t), TagOf(r) = Tag(t), t \notin asleep, asleep' = asleep,
         Rising(t)' = Rising(t)
  PROVE  Held' /\ Paired' /\ ReleasedTogether' /\ Mixed'
<1>1. \A u \in Thread : hold(u)' = hold(u) /\ Tag(u)' = Tag(u)
  BY Moved
<1>2. \A u \in Thread : Rising(u)' = Rising(u)
  BY Moved DEF Rising
<1>3. \A u \in asleep : u \in Thread /\ thread'[u].i = thread[u].i
  BY Moved DEF Local
<1>4. Held'
  BY <1>1 DEF Held
<1>5. Paired'
  <2> SUFFICES ASSUME NEW u \in asleep, NEW v \in Thread, v = u - thread'[u].i \div 2,
                      hold(v)' < thread'[u].i
               PROVE  Rising(v)' <=> Tag(v)' = Tag(u)'
    BY DEF Paired
  <2>1. v = u - thread[u].i \div 2 /\ hold(v) < thread[u].i
    BY <1>1, <1>3
  <2>2. Rising(v) <=> Tag(v) = Tag(u)
    BY <2>1 DEF Paired
  <2>3. QED BY <1>1, <1>2, <1>3, <2>2
<1>6. ReleasedTogether'
  BY <1>1, <1>2 DEF ReleasedTogether
<1>7. Mixed'
  BY <1>1, <1>2 DEF Mixed
<1>8. QED BY <1>4, <1>5, <1>6, <1>7

\* A thread comes as a loser, and sleeps.
LEMMA Sleeps ==
  ASSUME Local, Held, Paired, ReleasedTogether, Mixed, NEW t \in Thread, NEW r, Moves(t, r),
         At(t, "up"), r.pc = "proceed_all", r.i = thread[t].i, r.then = thread[t].then,
         asleep' = asleep \cup {t}
  PROVE  Held' /\ Paired' /\ ReleasedTogether' /\ Mixed'
<1>1. t \notin asleep /\ Rising(t)
  BY DEF Local, At, Rising
<1>2. Hold(r) = hold(t) /\ TagOf(r) = Tag(t)
  BY DEF At, hold, Hold, Tag, TagOf, Inside
<1>3. \A u \in Thread : hold(u)' = hold(u) /\ Tag(u)' = Tag(u)
  BY <1>2, Moved
<1>4. \A u \in Thread : Rising(u)' = Rising(u)
  <2>1. Rising(t)'
    BY DEF Rising
  <2>2. \A u \in Thread : u # t => Rising(u)' = Rising(u)
    BY Moved DEF Rising
  <2>3. Rising(t)' = Rising(t)
    BY <1>1, <2>1 DEF Rising
  <2>4. QED BY <2>2, <2>3
<1>5. \A u \in asleep : u \in Thread /\ thread'[u].i = thread[u].i
  BY <1>1, Moved DEF Local
<1>6. Held'
  BY <1>3 DEF Held
<1>7. thread'[t].i = thread[t].i /\ thread[t].i \in Meeting
      /\ t % (thread[t].i \div 2) = 0 /\ t % thread[t].i # 0
  <2>1. thread'[t] = r /\ Fits(t, r) /\ r.pc = "proceed_all"
    BY Moved
  <2>2. Hold(r) = r.i \div 2
    BY DEF Hold, Inside
  <2>3. QED BY <2>1, <2>2 DEF Fits, Inside
<1>8. ASSUME NEW v \in Thread, v = t - thread[t].i \div 2, hold(v) < thread[t].i
      PROVE  Rising(v) <=> Tag(v) = Tag(t)
  <2>1. v % thread[t].i = 0
    BY <1>7, <1>8, Lost
  <2>2. ASSUME Tag(v) = Tag(t) PROVE Rising(v)
    BY <1>1, <2>2 DEF ReleasedTogether
  <2>3. ASSUME Rising(v), Tag(v) # Tag(t) PROVE FALSE
    <3>1. PICK w \in Thread : ~ Rising(w)
      BY <2>3 DEF Mixed
    <3>2. Tag(w) # Tag(t)
      BY <1>1, <3>1 DEF ReleasedTogether
    <3>3. Tag(w) = Tag(v)
      BY <2>3, <3>2, Holding
    <3>4. v \in asleep
      BY <2>3, <3>1, <3>3 DEF ReleasedTogether
    <3>5. PICK i \in Meeting, j \in Meeting : i = thread[t].i /\ j = thread[v].i
      BY <1>7, <3>4, Holding
    <3>6. v % (j \div 2) = 0 /\ v % j # 0 /\ hold(v) = j \div 2 /\ v \in Nat
      BY <3>4, <3>5, Holding
    <3>7. i \in Nat \ {0} /\ j \in Nat \ {0} /\ i \in Levels /\ j \in Levels
      BY Levelled
    <3>8. ~ (j < i)
      <4> SUFFICES ASSUME j < i PROVE FALSE
        OBVIOUS
      <4>1. i % j = 0
        BY <3>7, NextLevel
      <4>2. v % j = 0
        BY <2>1, <3>5, <3>6, <3>7, <4>1, Divides
      <4>3. QED BY <3>6, <4>2
    <3>9. i # j
      BY <2>1, <3>5, <3>6
    <3>10. 2 * i <= j
      BY <3>7, <3>8, <3>9, NextLevel
    <3>11. i <= j \div 2
      BY <3>7, <3>10
    <3>12. QED BY <1>8, <3>5, <3>6, <3>7, <3>11
  <2>4. QED BY <2>2, <2>3
<1>9. Paired'
  <2> SUFFICES ASSUME NEW u \in asleep', NEW v \in Thread, v = u - thread'[u].i \div 2,
                      hold(v)' < thread'[u].i
               PROVE  Rising(v)' <=> Tag(v)' = Tag(u)'
    BY DEF Paired
  <2>1. u \in Thread /\ v = u - thread[u].i \div 2 /\ hold(v) < thread[u].i
    BY <1>3, <1>5, <1>7
  <2>2. Rising(v) <=> Tag(v) = Tag(u)
    <3>1. CASE u = t
      BY <1>8, <2>1, <3>1
    <3>2. CASE u # t
      <4>1. u \in asleep
        BY <3>2
      <4>2. QED BY <2>1, <4>1 DEF Paired
    <3>3. QED BY <3>1, <3>2
  <2>3. QED BY <1>3, <1>4, <2>1, <2>2
<1>10. ReleasedTogether'
  BY <1>3, <1>4 DEF ReleasedTogether
<1>11. Mixed'
  BY <1>3, <1>4 DEF Mixed
<1>12. QED BY <1>6, <1>9, <1>10, <1>11

\* What waits for a winner whose loser has come.
LEMMA BlockSleeps ==
  ASSUME Local, Held, Paired, Counted, NEW t \in Thread, At(t, "proceed"),
         count[NodeOf(t)] >= 2
  PROVE  /\ thread[t].i \in Meeting /\ hold(t) = thread[t].i \div 2 /\ t % thread[t].i = 0
         /\ \A u \in Thread : t < u /\ u < t + thread[t].i => u \in asleep /\ Tag(u) = Tag(t)
<1> DEFINE i == thread[t].i
           p == t + i \div 2
<1>1. i \in Meeting /\ t % i = 0 /\ hold(t) = i \div 2 /\ t \in Nat
  BY Holding DEF Local, Fits, At, hold, Hold, Inside
<1>2. i \in Nat \ {0} /\ i = 2 * (i \div 2) /\ i \div 2 \in Nat
  BY <1>1, HalfLevel, Levelled
<1>3. p \in Thread /\ p \in Nat
  BY <1>1, Won DEF Thread
<1>4. count[NodeOf(t)] = (IF Come(t, i) THEN 1 ELSE 0) + (IF p \in asleep /\ thread[p].i = i THEN 1 ELSE 0)
  <2>1. NodeOf(t) = Node(i, t)
    BY DEF NodeOf, Node
  <2>2. QED BY <1>1, <2>1 DEF Counted
<1>5. p \in asleep /\ thread[p].i = i
  BY <1>4
<1>6. hold(p) = i \div 2
  BY <1>3, <1>5, Holding
<1>7. Tag(p) = Tag(t)
  <2>1. t = p - thread[p].i \div 2 /\ hold(t) < thread[p].i /\ Rising(t)
    BY <1>1, <1>2, <1>5 DEF Rising, At
  <2>2. QED BY <1>5, <2>1 DEF Paired
<1>8. ASSUME NEW u \in Thread, t < u, u < t + i PROVE u \in asleep /\ Tag(u) = Tag(t)
  <2>1. u \in Nat
    BY DEF Thread
  <2>2. CASE u < p
    BY <1>1, <1>8, <2>2 DEF Held
  <2>3. CASE u = p
    BY <1>5, <1>7, <2>3
  <2>4. CASE p < u
    <3>1. u < p + hold(p)
      BY <1>1, <1>2, <1>6, <1>8, <2>1
    <3>2. QED BY <1>3, <1>7, <2>4, <3>1 DEF Held
  <2>5. QED BY <1>3, <2>1, <2>2, <2>3, <2>4
<1>9. QED BY <1>1, <1>8

\* A winner goes on to the next level.
LEMMA GoesUp ==
  ASSUME Local, Held, Paired, Counted, ReleasedTogether, Mixed, NEW t \in Thread, NEW r, Moves(t, r),
         At(t, "proceed"), count[NodeOf(t)] >= 2, 2 * thread[t].i <= numThread,
         r = [thread[t] EXCEPT !.pc = "up", !.i = 2 * @], asleep' = asleep
  PROVE  Held' /\ Paired' /\ ReleasedTogether' /\ Mixed'
<1> DEFINE i == thread[t].i
<1>1. /\ i \in Meeting /\ hold(t) = i \div 2
      /\ \A u \in Thread : t < u /\ u < t + i => u \in asleep /\ Tag(u) = Tag(t)
  BY BlockSleeps
<1>2. i \in Nat \ {0} /\ i = 2 * (i \div 2) /\ i \div 2 \in Nat
  BY <1>1, HalfLevel, Levelled
<1>3. r.pc = "up" /\ r.i = 2 * i /\ r.then = thread[t].then
  BY DEF Local, Record
<1>4. Hold(r) = i
  <2>1. Hold(r) = (2 * i) \div 2
    BY <1>3 DEF Hold, Inside
  <2>2. QED BY <1>2, <2>1
<1>5. TagOf(r) = Tag(t)
  BY <1>3 DEF Tag, TagOf
<1>6. \A u \in Thread : Tag(u)' = Tag(u)
  BY <1>5, Moved
<1>7. \A u \in Thread : Rising(u)' = Rising(u)
  <2>1. Rising(t)' /\ Rising(t)
    BY <1>3, Moved DEF Rising, At
  <2>2. \A u \in Thread : u # t => Rising(u)' = Rising(u)
    BY Moved DEF Rising
  <2>3. Rising(t)' = Rising(t)
    BY <2>1 DEF Rising
  <2>4. QED BY <2>2, <2>3
<1>8. t \notin asleep /\ \A u \in asleep : u \in Thread /\ thread'[u].i = thread[u].i
  <2>1. t \notin asleep
    BY DEF Local, At
  <2>2. QED BY <2>1, Moved DEF Local
<1>9. hold(t)' = i /\ \A u \in Thread : u # t => hold(u)' = hold(u)
  BY <1>4, Moved
<1>10. Held'
  <2> SUFFICES ASSUME NEW v \in Thread, NEW u \in Thread, v < u, u < v + hold(v)'
               PROVE  u \in asleep' /\ Tag(u)' = Tag(v)'
    BY DEF Held
  <2>1. CASE v = t
    BY <1>1, <1>6, <1>9, <2>1
  <2>2. CASE v # t
    BY <1>6, <1>9, <2>2 DEF Held
  <2>3. QED BY <2>1, <2>2
<1>11. Paired'
  <2> SUFFICES ASSUME NEW u \in asleep, NEW v \in Thread, v = u - thread'[u].i \div 2,
                      hold(v)' < thread'[u].i
               PROVE  Rising(v)' <=> Tag(v)' = Tag(u)'
    BY DEF Paired
  <2>1. v = u - thread[u].i \div 2 /\ hold(v) < thread[u].i
    <3>1. thread[u].i \in Nat
      BY <1>8 DEF Local, Record
    <3>2. CASE v = t
      BY <1>1, <1>2, <1>8, <1>9, <3>1, <3>2
    <3>3. CASE v # t
      BY <1>8, <1>9, <3>3
    <3>4. QED BY <3>2, <3>3
  <2>2. Rising(v) <=> Tag(v) = Tag(u)
    BY <2>1 DEF Paired
  <2>3. QED BY <1>6, <1>7, <1>8, <2>2
<1>12. ReleasedTogether'
  BY <1>6, <1>7 DEF ReleasedTogether
<1>13. Mixed'
  BY <1>6, <1>7 DEF Mixed
<1>14. QED BY <1>10, <1>11, <1>12, <1>13

\* All have come, and the first thread turns round.
LEMMA TurnsRound ==
  ASSUME Local, Held, Paired, Counted, NEW t \in Thread, NEW r, Moves(t, r),
         At(t, "proceed"), count[NodeOf(t)] >= 2, ~ (2 * thread[t].i <= numThread),
         r = [thread[t] EXCEPT !.pc = "down"], asleep' = asleep
  PROVE  Held' /\ Paired' /\ ReleasedTogether' /\ Mixed' /\ t = 0
<1> DEFINE i == thread[t].i
<1>1. /\ i \in Meeting /\ hold(t) = i \div 2 /\ t % i = 0
      /\ \A u \in Thread : t < u /\ u < t + i => u \in asleep /\ Tag(u) = Tag(t)
  BY BlockSleeps
<1>2. i = numThread
  BY <1>1, DoubleLevel DEF Meeting
<1>3. t = 0
  <2>1. t + i <= numThread
    BY <1>1, Won
  <2>2. QED BY <1>2, <2>1, Levelled DEF Thread
<1>4. r.pc = "down" /\ r.i = i /\ r.then = thread[t].then
  BY DEF Local, Record
<1>5. Hold(r) = i /\ TagOf(r) = Tag(t)
  BY <1>4 DEF Hold, Tag, TagOf, Inside
<1>6. \A u \in Thread : u # t => u \in asleep /\ Tag(u) = Tag(t)
  <2> SUFFICES ASSUME NEW u \in Thread, u # t PROVE u \in asleep /\ Tag(u) = Tag(t)
    OBVIOUS
  <2>1. 0 < u /\ u < numThread
    BY <1>3, Levelled DEF Thread
  <2>2. t + i = numThread
    BY <1>2, <1>3, Levelled
  <2>3. t < u /\ u < t + i
    BY <1>3, <2>1, <2>2
  <2>4. QED BY <1>1, <2>3
<1>7. \A u \in Thread : Tag(u)' = Tag(t)
  BY <1>5, <1>6, Moved
<1>8. t \notin asleep
  BY DEF Local, At
<1>9. ~ Rising(t)' /\ \A u \in Thread : u # t => Rising(u)' /\ u \in asleep'
  <2>1. ~ Rising(t)'
    BY <1>4, <1>8, Moved DEF Rising
  <2>2. \A u \in Thread : u # t => Rising(u)' /\ u \in asleep'
    BY <1>6 DEF Rising
  <2>3. QED BY <2>1, <2>2
<1>10. Held'
  <2> SUFFICES ASSUME NEW v \in Thread, NEW u \in Thread, v < u, u < v + hold(v)'
               PROVE  u \in asleep' /\ Tag(u)' = Tag(v)'
    BY DEF Held
  <2>1. u # t
    BY <1>3 DEF Thread
  <2>2. QED BY <1>7, <1>9, <2>1
<1>11. Paired'
  <2> SUFFICES ASSUME NEW u \in asleep, NEW v \in Thread, v = u - thread'[u].i \div 2,
                      hold(v)' < thread'[u].i
               PROVE  Rising(v)' <=> Tag(v)' = Tag(u)'
    BY DEF Paired
  <2>1. u \in Thread
    BY DEF Local
  <2>2. CASE v = t
    <3>1. thread'[u].i <= numThread /\ thread'[u].i \in Nat
      <4>1. u # t /\ thread'[u] = thread[u]
        BY <1>8, <2>1, Moved
      <4>2. QED BY <2>1, <4>1, Holding, Levelled DEF Meeting
    <3>2. hold(v)' = numThread
      BY <1>2, <1>5, <2>2, Moved
    <3>3. QED BY <3>1, <3>2, Levelled
  <2>3. CASE v # t
    BY <1>7, <1>9, <2>1, <2>3
  <2>4. QED BY <2>2, <2>3
<1>12. ReleasedTogether'
  <2>1. \A u \in Thread : ~ Rising(u)' => u = t
    BY <1>9
  <2>2. QED BY <1>7, <1>9, <2>1 DEF ReleasedTogether
<1>13. Mixed'
  BY <1>7 DEF Mixed
<1>14. QED BY <1>3, <1>10, <1>11, <1>12, <1>13

\* The sleeper that waits for a thread at the node it has come down to.
LEMMA LoserIs ==
  ASSUME Local, Held, NEW t \in Thread, At(t, "down"), NEW p, p = t + thread[t].i \div 2
  PROVE  /\ thread[t].i \in Meeting /\ t % thread[t].i = 0 /\ hold(t) = thread[t].i
         /\ p \in asleep /\ p \in Thread /\ thread[p].i = thread[t].i /\ Tag(p) = Tag(t)
         /\ Loser(NodeOf(t)) = {p}
<1> DEFINE i == thread[t].i
<1>1. i \in Meeting /\ t % i = 0 /\ hold(t) = i /\ t \in Nat
  BY Holding DEF Local, Fits, At, hold, Hold, Inside
<1>2. i \in Nat \ {0} /\ i = 2 * (i \div 2) /\ i \div 2 \in Nat \ {0} /\ i \div 2 < i
  BY <1>1, HalvesLess
<1>3. /\ p \in Thread /\ p % (i \div 2) = 0 /\ p % i # 0 /\ p \div i = t \div i /\ p \in Nat
      /\ \A u \in Thread : u % (i \div 2) = 0 /\ u % i # 0 /\ u \div i = t \div i => u = p
  BY <1>1, Won DEF Thread
<1>4. p \in asleep /\ Tag(p) = Tag(t)
  <2>1. t < p /\ p < t + hold(t)
    BY <1>1, <1>2
  <2>2. p \in Thread
    BY <1>3
  <2>3. QED BY <2>1, <2>2 DEF Held
<1>5. thread[p].i = i
  <2>1. /\ thread[p].i \in Meeting /\ p % (thread[p].i \div 2) = 0 /\ p % thread[p].i # 0
    BY <1>3, <1>4, Holding
  <2>2. QED BY <1>1, <1>3, <2>1, LostOnce
<1>6. NodeOf(p) = NodeOf(t) /\ NodeOf(t) = Node(i, t)
  BY <1>3, <1>5 DEF NodeOf, Node
<1>7. ASSUME NEW u \in asleep, NodeOf(u) = NodeOf(t) PROVE u = p
  <2>1. u \in Thread
    BY DEF Local
  <2>2. thread[u].i \in Meeting /\ u % (thread[u].i \div 2) = 0 /\ u % thread[u].i # 0
    BY <2>1, Holding
  <2>3. Node(thread[u].i, u) = Node(i, t)
    BY <1>6, <1>7 DEF NodeOf, Node
  <2>4. thread[u].i = i /\ u \div i = t \div i
    BY <1>1, <2>1, <2>2, <2>3, Nodes
  <2>5. QED BY <1>3, <2>1, <2>2, <2>4
<1>8. Loser(NodeOf(t)) = {p}
  BY <1>4, <1>6, <1>7 DEF Loser
<1>9. QED BY <1>1, <1>3, <1>4, <1>5, <1>8

\* A thread on its way down wakes its loser.
LEMMA Wakes ==
  ASSUME Local, Held, Paired, ReleasedTogether, Mixed, NEW t \in Thread, NEW r, Moves(t, r),
         At(t, "down"), Hold(r) = thread[t].i \div 2, r.pc \notin {"up", "proceed"}, TagOf(r) = Tag(t),
         asleep' = asleep \ Loser(NodeOf(t))
  PROVE  Held' /\ Paired' /\ ReleasedTogether' /\ Mixed'
<1> DEFINE i == thread[t].i
<1>0. PICK p : p = t + i \div 2
  OBVIOUS
<1>1. /\ i \in Meeting /\ t % i = 0 /\ hold(t) = i
      /\ p \in asleep /\ p \in Thread /\ thread[p].i = i /\ Tag(p) = Tag(t)
      /\ asleep' = asleep \ {p}
  BY <1>0, LoserIs
<1>2. /\ i \in Nat \ {0} /\ i = 2 * (i \div 2) /\ i \div 2 \in Nat \ {0} /\ i \div 2 < i
      /\ i \div 2 \in Levels /\ t \in Nat /\ t # p
  <2>1. i \div 2 < i /\ i = 2 * (i \div 2) /\ i \in Nat \ {0} /\ i \div 2 \in Nat \ {0}
    BY <1>1, HalvesLess
  <2>2. t \in Nat
    BY Holding
  <2>3. QED BY <1>0, <1>1, <2>1, <2>2, HalfLevel
<1>3. \A u \in Thread : Tag(u)' = Tag(u)
  BY Moved
<1>4. hold(t)' = i \div 2 /\ \A u \in Thread : u # t => hold(u)' = hold(u)
  BY Moved
<1>5. t \notin asleep /\ ~ Rising(t)
  BY DEF Local, At, Rising
<1>6. p % (i \div 2) = 0 /\ p % i # 0 /\ hold(p) = i \div 2 /\ p \in Nat
  BY <1>1, Holding
<1>7. ~ Rising(t)' /\ ~ Rising(p)' /\ Rising(p)
  <2>1. ~ Rising(t)'
    BY <1>1, <1>5, Moved DEF Rising
  <2>2. ~ Rising(p)'
    <3>1. thread'[p] = thread[p] /\ p \notin asleep'
      BY <1>1, <1>2, Moved
    <3>2. thread[p].pc = "proceed_all"
      BY <1>1 DEF Local, At
    <3>3. QED BY <3>1, <3>2 DEF Rising
  <2>3. QED BY <1>1, <2>1, <2>2 DEF Rising
<1>8. \A u \in Thread : u # p => Rising(u)' = Rising(u)
  <2>1. \A u \in Thread : u # t /\ u # p => Rising(u)' = Rising(u)
    BY <1>1, Moved DEF Rising
  <2>2. Rising(t)' = Rising(t)
    BY <1>5, <1>7 DEF Rising
  <2>3. QED BY <2>1, <2>2
<1>9. \A u \in asleep' : u \in asleep /\ u \in Thread /\ u # p /\ thread'[u].i = thread[u].i
  BY <1>1, <1>5, Moved DEF Local
<1>10. Held'
  <2> SUFFICES ASSUME NEW v \in Thread, NEW u \in Thread, v < u, u < v + hold(v)'
               PROVE  u \in asleep' /\ Tag(u)' = Tag(v)'
    BY DEF Held
  <2>1. /\ v \in Nat /\ u \in Nat /\ hold(v) \in Nat /\ hold(v) \in Levels /\ v % hold(v) = 0
    BY Holding
  <2>2. u < v + hold(v)
    BY <1>1, <1>2, <1>4, <2>1
  <2>3. u \in asleep /\ Tag(u) = Tag(v)
    BY <2>2 DEF Held
  <2>4. ASSUME u = p PROVE FALSE
    <3>1. v # t
      BY <1>0, <1>2, <1>4, <2>4
    <3>2. ~ (v < t)
      <4> SUFFICES ASSUME v < t PROVE FALSE
        OBVIOUS
      <4>1. t < v + hold(v)
        BY <1>0, <1>2, <2>1, <2>2, <2>4
      <4>2. QED BY <1>5, <4>1 DEF Held
    <3>3. t < v
      BY <1>0, <1>2, <2>1, <3>1, <3>2
    <3>4. t % (i \div 2) = 0
      BY <1>2, Holding, <1>1, Divides, HalfLevel, Levelled, NextLevel
    <3>5. /\ p \in Nat /\ i \div 2 \in Levels /\ p % (i \div 2) = 0
          /\ v < p /\ p <= t + i \div 2 /\ p < v + hold(v)'
      BY <1>0, <1>2, <1>6, <2>2, <2>4
    <3>6. hold(v)' = hold(v)
      BY <1>4, <3>1
    <3>7. p < v + hold(v)
      BY <3>5, <3>6
    <3> HIDE DEF i
    <3>8. t \in Nat
      BY <1>2
    <3>9. QED BY <2>1, <3>3, <3>4, <3>5, <3>7, <3>8, Nest
  <2>5. QED BY <1>1, <1>3, <2>3, <2>4
<1>11. Paired'
  <2> SUFFICES ASSUME NEW u \in asleep', NEW v \in Thread, v = u - thread'[u].i \div 2,
                      hold(v)' < thread'[u].i
               PROVE  Rising(v)' <=> Tag(v)' = Tag(u)'
    BY DEF Paired
  <2>1. PICK j \in Meeting : j = thread[u].i
    BY <1>9, Holding
  <2>2. /\ u \in asleep /\ u \in Thread /\ u # p /\ v = u - j \div 2 /\ hold(v)' < j /\ u \in Nat
        /\ v % j = 0
    <3>1. u \in asleep /\ u \in Thread /\ u # p /\ thread'[u].i = j
      BY <1>9, <2>1
    <3>2. v = u - j \div 2 /\ hold(v)' < j
      BY <3>1
    <3>3. u \in Nat /\ (u - thread[u].i \div 2) % thread[u].i = 0
      BY <3>1, Holding
    <3>4. v % j = 0
      BY <2>1, <3>2, <3>3
    <3>5. QED BY <3>1, <3>2, <3>3, <3>4
  <2>3. j \in Nat \ {0} /\ j = 2 * (j \div 2) /\ j \div 2 \in Nat /\ j \in Levels
    BY HalfLevel, Levelled
  <2>4. CASE v = t
    <3>1. i \div 2 < j
      BY <1>4, <2>2, <2>4
    <3>2. j # i
      BY <1>0, <1>2, <2>2, <2>3, <2>4
    <3>3. i <= j
      BY <1>2, <2>3, <3>1, NextLevel
    <3>4. hold(v) < j
      <4>1. hold(v) = i
        BY <1>1, <2>4
      <4>2. i < j
        BY <1>2, <2>3, <3>2, <3>3
      <4>3. QED BY <4>1, <4>2
    <3>5. Rising(v) <=> Tag(v) = Tag(u)
      BY <2>1, <2>2, <3>4 DEF Paired
    <3>6. QED BY <1>2, <1>3, <1>8, <2>2, <2>4, <3>5
  <2>5. CASE v = p
    <3>1. i \div 2 < j
      BY <1>2, <1>4, <1>6, <2>2, <2>5
    <3>2. i <= j
      BY <1>2, <2>3, <3>1, NextLevel
    <3>3. i = j \/ j % i = 0
      BY <1>1, <1>2, <2>3, <3>2, NextLevel, Levelled
    <3>4. p % i = 0
      BY <1>2, <1>6, <2>2, <2>3, <2>5, <3>3, Divides
    <3>5. QED BY <1>6, <3>4
  <2>6. CASE v # t /\ v # p
    <3>1. hold(v) < j
      BY <1>4, <2>2, <2>6
    <3>2. Rising(v) <=> Tag(v) = Tag(u)
      BY <2>1, <2>2, <3>1 DEF Paired
    <3>3. QED BY <1>3, <1>8, <2>2, <2>6, <3>2
  <2>7. QED BY <2>4, <2>5, <2>6
<1>12. ReleasedTogether'
  <2> SUFFICES ASSUME NEW v \in Thread, NEW u \in Thread, ~ Rising(v)'
               PROVE  /\ ~ Rising(u)' => Tag(u)' = Tag(v)'
                      /\ Rising(u)' /\ Tag(u)' = Tag(v)' => u \in asleep'
    BY DEF ReleasedTogether
  <2>1. PICK w \in Thread : ~ Rising(w) /\ Tag(w) = Tag(v)
    BY <1>1, <1>5, <1>8
  <2>2. ASSUME ~ Rising(u)' PROVE Tag(u) = Tag(v)
    <3>1. CASE u = p
      BY <1>1, <1>5, <2>1, <3>1 DEF ReleasedTogether
    <3>2. CASE u # p
      BY <1>8, <2>1, <2>2, <3>2 DEF ReleasedTogether
    <3>3. QED BY <3>1, <3>2
  <2>3. ASSUME Rising(u)', Tag(u) = Tag(v) PROVE u \in asleep'
    <3>1. ASSUME u = p PROVE FALSE
      <4>1. Rising(p)'
        BY <2>3, <3>1 DEF Rising
      <4>2. QED BY <1>7, <4>1
    <3>2. u \in asleep
      BY <1>8, <2>1, <2>3, <3>1 DEF ReleasedTogether
    <3>3. QED BY <1>1, <3>1, <3>2
  <2>4. QED BY <1>3, <2>2, <2>3
<1>13. Mixed'
  BY <1>7 DEF Mixed
<1>14. QED BY <1>10, <1>11, <1>12, <1>13

\* A thread comes to the next barrier.
LEMMA Enters ==
  ASSUME Local, Held, Paired, ReleasedTogether, Mixed, NEW t \in Thread, NEW r, Moves(t, r),
         thread[t].pc \in Outside, r.pc = "up", r.i = 2, TagOf(r) # Tag(t), asleep' = asleep
  PROVE  Held' /\ Paired' /\ ReleasedTogether' /\ Mixed'
<1>1. hold(t) = 1 /\ t \notin asleep /\ ~ Rising(t)
  BY DEF hold, Hold, Local, At, Rising, Outside, Inside
<1>2. Rising(t)' /\ hold(t)' = 1
  BY Moved DEF Rising, Hold, Inside
<1>3. \A u \in Thread : u # t => Rising(u)' = Rising(u) /\ Tag(u)' = Tag(u) /\ hold(u)' = hold(u)
  BY Moved DEF Rising
<1>4. Tag(t)' \in {"started", "ended"} /\ Tag(t)' # Tag(t)
  <2>1. r \in Record /\ Tag(t)' = TagOf(r)
    BY Moved DEF Moves, Fits
  <2>2. QED BY <2>1 DEF TagOf, Record
<1>5. \A u \in asleep : u \in Thread /\ u # t /\ thread'[u].i = thread[u].i
  BY <1>1, Moved DEF Local
<1>6. Held'
  <2> SUFFICES ASSUME NEW v \in Thread, NEW u \in Thread, v < u, u < v + hold(v)'
               PROVE  u \in asleep' /\ Tag(u)' = Tag(v)'
    BY DEF Held
  <2>1. v # t
    BY <1>2 DEF Thread
  <2>2. u \in asleep /\ Tag(u) = Tag(v)
    BY <1>3, <2>1 DEF Held
  <2>3. QED BY <1>3, <1>5, <2>1, <2>2
<1>7. Paired'
  <2> SUFFICES ASSUME NEW u \in asleep, NEW v \in Thread, v = u - thread'[u].i \div 2,
                      hold(v)' < thread'[u].i
               PROVE  Rising(v)' <=> Tag(v)' = Tag(u)'
    BY DEF Paired
  <2>1. u \in Thread /\ u # t /\ v = u - thread[u].i \div 2 /\ hold(v) < thread[u].i
    BY <1>1, <1>2, <1>3, <1>5
  <2>2. Rising(v) <=> Tag(v) = Tag(u)
    BY <2>1 DEF Paired
  <2>3. CASE v = t
    <3>1. Tag(u) # Tag(t)
      BY <1>1, <2>2, <2>3
    <3>2. Tag(t)' = Tag(u)
      BY <1>4, <2>1, <3>1, Holding
    <3>3. QED BY <1>2, <1>3, <2>1, <2>3, <3>2
  <2>4. CASE v # t
    BY <1>3, <2>1, <2>2, <2>4
  <2>5. QED BY <2>3, <2>4
<1>8. ReleasedTogether'
  <2> SUFFICES ASSUME NEW v \in Thread, NEW u \in Thread, ~ Rising(v)'
               PROVE  /\ ~ Rising(u)' => Tag(u)' = Tag(v)'
                      /\ Rising(u)' /\ Tag(u)' = Tag(v)' => u \in asleep'
    BY DEF ReleasedTogether
  <2>1. v # t /\ ~ Rising(v)
    BY <1>2, <1>3
  <2>2. Tag(v) = Tag(t)
    BY <1>1, <2>1 DEF ReleasedTogether
  <2>3. CASE u = t
    BY <1>2, <1>3, <1>4, <2>1, <2>2, <2>3
  <2>4. CASE u # t
    BY <1>3, <2>1, <2>4 DEF ReleasedTogether
  <2>5. QED BY <2>3, <2>4
<1>9. Mixed'
  <2> SUFFICES ASSUME \A v \in Thread : Rising(v)' PROVE \A u, v \in Thread : Tag(u)' = Tag(v)'
    BY DEF Mixed
  <2> DEFINE S == {u \in Thread : u # t /\ Tag(u) = Tag(t)}
  <2>1. S = {}
    <3> SUFFICES ASSUME S # {} PROVE FALSE
      OBVIOUS
    <3>1. S \subseteq Nat
      BY DEF Thread
    <3>2. PICK u \in S : \A v \in S : u <= v
      BY <3>1, LeastOf
    <3>3. u \in Thread /\ u # t /\ Tag(u) = Tag(t) /\ u \in Nat
      BY <3>1, <3>2
    <3> HIDE DEF S
    <3>4. u \in asleep
      BY <1>1, <1>3, <3>3 DEF ReleasedTogether
    <3>5. PICK i \in Meeting : i = thread[u].i
      BY <3>3, <3>4, Holding
    <3>6. i \in Nat \ {0} /\ i \div 2 \in Nat \ {0} /\ i = 2 * (i \div 2) /\ 1 < i
      BY HalfLevel, Levelled
    <3>7. PICK v \in Thread : v = u - i \div 2
      BY <3>3, <3>4, <3>5, Holding
    <3>8. v \in Nat /\ v < u /\ u < v + i /\ hold(v) \in Nat
      BY <3>3, <3>6, <3>7, Holding
    <3>9. v \notin S
      BY <3>2, <3>3, <3>8
    <3>10. CASE hold(v) < i
      <4>1. Rising(v)
        <5>1. Rising(v) <=> Tag(v) = Tag(u)
          BY <3>4, <3>5, <3>7, <3>10 DEF Paired
        <5>2. CASE v = t
          BY <1>1, <3>3, <5>1, <5>2
        <5>3. CASE v # t
          BY <1>3, <5>3
        <5>4. QED BY <5>2, <5>3
      <4>2. Tag(v) = Tag(u)
        BY <3>4, <3>5, <3>7, <3>10, <4>1 DEF Paired
      <4>3. v # t
        BY <1>1, <4>1
      <4>4. QED BY <3>3, <3>9, <4>2, <4>3 DEF S
    <3>11. CASE i <= hold(v)
      <4>1. Tag(u) = Tag(v)
        BY <3>3, <3>6, <3>8, <3>11 DEF Held
      <4>2. v # t
        BY <1>1, <3>6, <3>11
      <4>3. QED BY <3>3, <3>9, <4>1, <4>2 DEF S
    <3>12. QED BY <3>6, <3>8, <3>10, <3>11
  <2>2. \A u \in Thread : u # t => Tag(u)' = Tag(t)'
    BY <1>3, <1>4, <2>1, Holding
  <2>3. QED BY <2>2
<1>10. QED BY <1>6, <1>7, <1>8, <1>9

----------------------------------------------------------------------------
(* The counts of the nodes *)

Slept(t, i) == t + i \div 2 \in asleep /\ thread[t + i \div 2].i = i
CountOf(t, i) == (IF Come(t, i) THEN 1 ELSE 0) + (IF Slept(t, i) THEN 1 ELSE 0)

\* Counted, by the parts of a count.
LEMMA Counts ==
  Counted <=> /\ count \in [Index -> Nat]
              /\ \A i \in Meeting, t \in Thread : t % i = 0 => count[Node(i, t)] = CountOf(t, i)
BY DEF Counted, CountOf, Slept

\* The same after a step.
LEMMA CountsThen ==
  Counted' <=> /\ count' \in [Index -> Nat]
               /\ \A i \in Meeting, t \in Thread : t % i = 0 => count'[Node(i, t)] = CountOf(t, i)'
<1>1. Counted' <=> (/\ count \in [Index -> Nat]
                    /\ \A i \in Meeting, t \in Thread : t % i = 0 => count[Node(i, t)] = CountOf(t, i))'
  BY Counts, PTL
<1>2. \A i, t : Node(i, t)' = Node(i, t)
  BY DEF Node, base
<1>3. QED BY <1>1, <1>2

\* A step that changes what one node counts.
LEMMA CountedAt ==
  ASSUME Counted, NEW k \in Meeting, NEW w \in Thread, w % k = 0, NEW c \in Nat,
         count' = [count EXCEPT ![Node(k, w)] = c], c = CountOf(w, k)',
         \A i \in Meeting, v \in Thread : v % i = 0 /\ ~ (i = k /\ v = w) => CountOf(v, i)' = CountOf(v, i)
  PROVE  Counted'
<1>1. Node(k, w) \in Index /\ count \in [Index -> Nat] /\ count' \in [Index -> Nat]
  BY Nodes, Counts
<1>2. ASSUME NEW i \in Meeting, NEW v \in Thread, v % i = 0
      PROVE  count'[Node(i, v)] = CountOf(v, i)'
  <2>1. CASE i = k /\ v = w
    BY <1>1, <2>1
  <2>2. CASE ~ (i = k /\ v = w)
    <3>1. Node(i, v) # Node(k, w)
      <4> SUFFICES ASSUME Node(i, v) = Node(k, w) PROVE FALSE
        OBVIOUS
      <4>1. i = k /\ v \div i = w \div k
        BY Nodes
      <4>2. QED BY <1>2, <2>2, <4>1, Won
    <3>2. count'[Node(i, v)] = count[Node(i, v)]
      <4>1. Node(i, v) \in Index
        BY Nodes
      <4>2. QED BY <1>1, <3>1, <4>1
    <3>3. count[Node(i, v)] = CountOf(v, i)
      BY <1>2, Counts
    <3>4. QED BY <1>2, <2>2, <3>2, <3>3
  <2>3. QED BY <2>1, <2>2
<1>3. QED BY <1>1, <1>2, CountsThen

\* A step that changes no count, and nothing that is counted.
LEMMA CountedSame ==
  ASSUME Counted, count' = count,
         \A i \in Meeting, v \in Thread : v % i = 0 => CountOf(v, i)' = CountOf(v, i)
  PROVE  Counted'
<1>1. \A i \in Meeting, v \in Thread : v % i = 0 => count'[Node(i, v)] = CountOf(v, i)'
  BY Counts
<1>2. count' \in [Index -> Nat]
  BY Counts
<1>3. QED BY <1>1, <1>2, CountsThen

\* Nobody falls asleep or wakes, and t has come where it had.
LEMMA SameCounts ==
  ASSUME Local, Counted, NEW t \in Thread, NEW r, Moves(t, r), t \notin asleep, asleep' = asleep,
         NEW i \in Meeting, NEW v \in Thread, v % i = 0, v = t => Come(t, i)' = Come(t, i)
  PROVE  CountOf(v, i)' = CountOf(v, i)
<1>1. Come(v, i)' = Come(v, i)
  <2>1. CASE v = t
    BY <2>1
  <2>2. CASE v # t
    BY <2>2, Moved DEF Come, At
  <2>3. QED BY <2>1, <2>2
<1>2. Slept(v, i)' = Slept(v, i)
  <2>1. v + i \div 2 \in Thread
    BY Won
  <2>2. v + i \div 2 # t => thread'[v + i \div 2] = thread[v + i \div 2]
    BY <2>1, Moved
  <2>3. QED BY <2>2 DEF Slept
<1>3. QED BY <1>1, <1>2 DEF CountOf

\* What t holds stays the same, outside of a node.
LEMMA CountsQuiet ==
  ASSUME Local, Counted, NEW t \in Thread, NEW r, Moves(t, r), t \notin asleep, asleep' = asleep,
         count' = count, Hold(r) = hold(t), r.pc # "proceed", ~ At(t, "proceed")
  PROVE  Counted'
<1>1. \A i \in Meeting : Come(t, i)' = Come(t, i)
  BY Moved DEF Come, At
<1>2. \A i \in Meeting, v \in Thread : v % i = 0 => CountOf(v, i)' = CountOf(v, i)
  BY <1>1, SameCounts
<1>3. QED BY <1>2, CountedSame

\* t has come to the levels up to its own: the next one is twice as high.
LEMMA CountsUp ==
  ASSUME Local, Counted, NEW t \in Thread, NEW r, Moves(t, r), At(t, "proceed"), asleep' = asleep,
         count' = count, Hold(r) = thread[t].i, r.pc # "proceed"
  PROVE  Counted'
<1>1. PICK k \in Meeting : k = thread[t].i /\ hold(t) = k \div 2
  BY DEF Local, Fits, At, hold, Hold, Inside
<1>2. k \in Nat \ {0} /\ k = 2 * (k \div 2) /\ k \div 2 \in Nat \ {0} /\ k \in Levels
  BY HalvesLess, Levelled
<1>3. ASSUME NEW i \in Meeting PROVE Come(t, i)' = Come(t, i)
  <2>1. i \in Nat \ {0} /\ i \in Levels
    BY Levelled
  <2>2. Come(t, i) <=> i = k \/ k \div 2 >= i
    BY <1>1 DEF Come, At
  <2>3. Come(t, i)' <=> k >= i
    BY <1>1, Moved DEF Come, At
  <2>4. i < k => i <= k \div 2
    BY <1>2, <2>1, NextLevel
  <2>5. Come(t, i)' <=> Come(t, i)
    BY <1>2, <2>1, <2>2, <2>3, <2>4
  <2>6. QED BY <2>5 DEF Come
<1>4. t \notin asleep
  BY DEF Local, At
<1>5. \A i \in Meeting, v \in Thread : v % i = 0 => CountOf(v, i)' = CountOf(v, i)
  BY <1>3, <1>4, SameCounts
<1>6. QED BY <1>5, CountedSame

\* A winner comes.
LEMMA CountsWinner ==
  ASSUME Local, Counted, NEW t \in Thread, NEW r, Moves(t, r), At(t, "up"), asleep' = asleep,
         r.pc = "proceed", r.i = thread[t].i, t % thread[t].i = 0,
         count' = [count EXCEPT ![NodeOf(t)] = @ + 1]
  PROVE  Counted'
<1>1. PICK k \in Meeting : k = thread[t].i
  BY DEF Local, Fits, At, Inside
<1>2. hold(t) = k \div 2 /\ Hold(r) = k \div 2
  BY <1>1 DEF At, hold, Hold, Inside
<1>3. k \in Nat \ {0} /\ k \div 2 \in Nat \ {0} /\ k \div 2 < k
  BY HalvesLess
<1>4. t \notin asleep
  BY DEF Local, At
<1>5. ~ Come(t, k) /\ Come(t, k)'
  <2>1. ~ Come(t, k)
    BY <1>2, <1>3 DEF Come, At
  <2>2. Come(t, k)'
    BY <1>1, Moved DEF Come, At
  <2>3. QED BY <2>1, <2>2
<1>6. ASSUME NEW i \in Meeting, i # k PROVE Come(t, i)' = Come(t, i)
  <2>1. Come(t, i) <=> k \div 2 >= i
    BY <1>2 DEF Come, At
  <2>2. Come(t, i)' <=> k \div 2 >= i
    BY <1>1, <1>2, <1>6, Moved DEF Come, At
  <2>3. QED BY <2>1, <2>2 DEF Come
<1>7. Slept(t, k)' = Slept(t, k)
  <2>1. t + k \div 2 \in Thread
    BY <1>1, Won
  <2>2. t + k \div 2 # t => thread'[t + k \div 2] = thread[t + k \div 2]
    BY <2>1, Moved
  <2>3. QED BY <1>4, <2>2 DEF Slept
<1>8. \A i \in Meeting, v \in Thread : v % i = 0 /\ ~ (i = k /\ v = t) => CountOf(v, i)' = CountOf(v, i)
  BY <1>4, <1>6, SameCounts
<1>9. PICK c \in Nat : c = count[Node(k, t)] + 1
  BY Nodes, Counts
<1>10. c = CountOf(t, k)'
  <2>1. count[Node(k, t)] = CountOf(t, k)
    BY <1>1, Counts
  <2>2. QED BY <1>5, <1>7, <1>9, <2>1 DEF CountOf
<1>11. count' = [count EXCEPT ![Node(k, t)] = c]
  BY <1>1, <1>9 DEF NodeOf, Node
<1>12. t % k = 0
  BY <1>1
<1>13. QED BY <1>8, <1>9, <1>10, <1>11, <1>12, CountedAt

\* A loser comes.
LEMMA CountsLoser ==
  ASSUME Local, Counted, NEW t \in Thread, NEW r, Moves(t, r), At(t, "up"), asleep' = asleep \cup {t},
         r.pc = "proceed_all", r.i = thread[t].i, count' = [count EXCEPT ![NodeOf(t)] = @ + 1]
  PROVE  Counted'
<1>1. PICK k \in Meeting : k = thread[t].i
  BY DEF Local, Fits, At, Inside
<1>2. hold(t) = k \div 2 /\ Hold(r) = k \div 2 /\ t % (k \div 2) = 0 /\ t % k # 0
  <2>1. hold(t) = k \div 2 /\ Hold(r) = k \div 2
    BY <1>1 DEF At, hold, Hold, Inside
  <2>2. QED BY <1>1, <2>1 DEF Moves, Fits, Inside
<1>3. k \in Nat \ {0} /\ k \div 2 \in Nat \ {0} /\ k \div 2 < k
  BY HalvesLess
<1>4. t \notin asleep /\ t \in Nat
  BY DEF Local, At, Thread
<1>5. PICK w \in Thread : w = t - k \div 2 /\ w % k = 0 /\ t \div k = w \div k
  BY <1>2, Lost
<1>6. w \in Nat /\ w # t /\ w + k \div 2 = t
  BY <1>3, <1>4, <1>5 DEF Thread
<1>7. ASSUME NEW i \in Meeting, NEW v \in Thread PROVE Come(v, i)' = Come(v, i)
  <2>1. CASE v = t
    <3>1. Come(t, i) <=> k \div 2 >= i
      BY <1>2 DEF Come, At
    <3>2. Come(t, i)' <=> k \div 2 >= i
      BY <1>2, Moved DEF Come, At
    <3>3. QED BY <2>1, <3>1, <3>2 DEF Come
  <2>2. CASE v # t
    BY <2>2, Moved DEF Come, At
  <2>3. QED BY <2>1, <2>2
<1>8. ~ Slept(w, k) /\ Slept(w, k)'
  <2>1. ~ Slept(w, k)
    BY <1>4, <1>6 DEF Slept
  <2>2. Slept(w, k)'
    BY <1>1, <1>6, Moved DEF Slept
  <2>3. QED BY <2>1, <2>2
<1>9. ASSUME NEW i \in Meeting, NEW v \in Thread, v % i = 0, ~ (i = k /\ v = w)
      PROVE  Slept(v, i)' = Slept(v, i)
  <2>1. PICK u \in Thread : u = v + i \div 2
    BY <1>9, Won
  <2>2. CASE u # t
    BY <2>1, <2>2, Moved DEF Slept
  <2>3. CASE u = t
    <3>1. i # k
      <4> SUFFICES ASSUME i = k PROVE FALSE
        OBVIOUS
      <4>1. v \in Nat
        BY DEF Thread
      <4>2. v = w
        BY <1>3, <1>6, <2>1, <2>3, <4>1
      <4>3. QED BY <1>9, <4>2
    <3>2. ~ Slept(v, i)
      BY <1>4, <2>1, <2>3 DEF Slept
    <3>3. ~ Slept(v, i)'
      BY <1>1, <2>1, <2>3, <3>1, Moved DEF Slept
    <3>4. QED BY <3>2, <3>3 DEF Slept
  <2>4. QED BY <2>2, <2>3
<1>10. \A i \in Meeting, v \in Thread : v % i = 0 /\ ~ (i = k /\ v = w) => CountOf(v, i)' = CountOf(v, i)
  BY <1>7, <1>9 DEF CountOf
<1>11. Node(k, t) = Node(k, w)
  BY <1>5 DEF Node
<1>12. PICK c \in Nat : c = count[Node(k, w)] + 1
  BY Nodes, Counts
<1>13. c = CountOf(w, k)'
  <2>1. count[Node(k, w)] = CountOf(w, k)
    BY <1>5, Counts
  <2>2. Come(w, k)' = Come(w, k)
    BY <1>7
  <2>3. QED BY <1>8, <1>12, <2>1, <2>2 DEF CountOf
<1>14. count' = [count EXCEPT ![Node(k, w)] = c]
  BY <1>1, <1>11, <1>12 DEF NodeOf, Node
<1>15. w % k = 0
  BY <1>5
<1>16. QED BY <1>10, <1>13, <1>14, <1>15, CountedAt

\* A winner releases its loser.
LEMMA CountsDown ==
  ASSUME Local, Held, Counted, NEW t \in Thread, NEW r, Moves(t, r), At(t, "down"),
         Hold(r) = thread[t].i \div 2, r.pc # "proceed",
         asleep' = asleep \ Loser(NodeOf(t)), count' = [count EXCEPT ![NodeOf(t)] = 0]
  PROVE  Counted'
<1>1. PICK k \in Meeting : k = thread[t].i /\ t % k = 0 /\ hold(t) = k
  BY LoserIs
<1>2. PICK p \in Thread : /\ p = t + k \div 2 /\ p \in asleep /\ thread[p].i = k
                          /\ Loser(NodeOf(t)) = {p}
  <2>1. PICK q : q = t + thread[t].i \div 2
    OBVIOUS
  <2>2. QED BY <1>1, <2>1, LoserIs
<1>3. k \in Nat \ {0} /\ k \div 2 \in Nat \ {0} /\ k \div 2 < k /\ k = 2 * (k \div 2) /\ k \in Levels
  BY HalvesLess, Levelled
<1>4. t \notin asleep /\ t # p
  BY <1>2 DEF Local, At
<1>5. ASSUME NEW i \in Meeting, i # k PROVE Come(t, i)' = Come(t, i)
  <2>1. i \in Nat \ {0} /\ i \in Levels
    BY Levelled
  <2>2. Come(t, i) <=> k >= i
    BY <1>1 DEF Come, At
  <2>3. Come(t, i)' <=> k \div 2 >= i
    BY <1>1, Moved DEF Come, At
  <2>4. i < k => i <= k \div 2
    BY <1>3, <2>1, NextLevel
  <2>5. Come(t, i)' <=> Come(t, i)
    BY <1>3, <1>5, <2>1, <2>2, <2>3, <2>4
  <2>6. QED BY <2>5 DEF Come
<1>6. ~ Come(t, k)' /\ ~ Slept(t, k)'
  <2>1. ~ Come(t, k)'
    BY <1>1, <1>3, Moved DEF Come, At
  <2>2. ~ Slept(t, k)'
    BY <1>2 DEF Slept
  <2>3. QED BY <2>1, <2>2
<1>7. ASSUME NEW i \in Meeting, NEW v \in Thread, v % i = 0, ~ (i = k /\ v = t)
      PROVE  CountOf(v, i)' = CountOf(v, i)
  <2>1. PICK u \in Thread : u = v + i \div 2
    BY <1>7, Won
  <2>2. Come(v, i)' = Come(v, i)
    <3>1. CASE v = t
      BY <1>5, <1>7, <3>1
    <3>2. CASE v # t
      BY <3>2, Moved DEF Come, At
    <3>3. QED BY <3>1, <3>2
  <2>3. Slept(v, i)' = Slept(v, i)
    <3>1. CASE u = t
      BY <1>2, <1>4, <2>1, <3>1 DEF Slept
    <3>2. CASE u = p
      <4>1. i # k
        <5> SUFFICES ASSUME i = k PROVE FALSE
          OBVIOUS
        <5>1. v \in Nat /\ t \in Nat
          BY DEF Thread
        <5>2. v = t
          BY <1>2, <1>3, <2>1, <3>2, <5>1
        <5>3. QED BY <1>7, <5>2
      <4>2. thread'[p].i = k
        BY <1>2, <1>4, Moved
      <4>3. ~ Slept(v, i) /\ ~ Slept(v, i)'
        BY <1>2, <2>1, <3>2, <4>1, <4>2 DEF Slept
      <4>4. QED BY <4>3 DEF Slept
    <3>3. CASE u # t /\ u # p
      BY <1>2, <2>1, <3>3, Moved DEF Slept
    <3>4. QED BY <3>1, <3>2, <3>3
  <2>4. QED BY <2>2, <2>3 DEF CountOf
<1>8. PICK c \in Nat : c = 0
  OBVIOUS
<1>9. c = CountOf(t, k)'
  BY <1>6, <1>8 DEF CountOf
<1>10. count' = [count EXCEPT ![Node(k, t)] = c]
  BY <1>1, <1>8 DEF NodeOf, Node
<1>11. t % k = 0
  BY <1>1
<1>12. \A i \in Meeting, v \in Thread : v % i = 0 /\ ~ (i = k /\ v = t) => CountOf(v, i)' = CountOf(v, i)
  BY <1>7
<1>13. QED BY <1>9, <1>10, <1>11, <1>12, CountedAt

----------------------------------------------------------------------------
(* Every step keeps the invariant *)

\* A step of one thread.
LEMMA LocalThen ==
  ASSUME Local, NEW t \in Thread, NEW r, Moves(t, r),
         \/ asleep' \subseteq asleep /\ t \notin asleep
         \/ asleep' = asleep \cup {t} /\ r.pc = "proceed_all"
  PROVE  Local'
<1>1. thread' \in [Thread -> Record] /\ \A u \in Thread : Fits(u, thread'[u])
  BY Moved
<1>2. ASSUME NEW u \in asleep' PROVE u \in Thread /\ At(u, "proceed_all")'
  <2>1. CASE u = t
    BY <1>2, <2>1, Moved DEF At
  <2>2. CASE u # t
    BY <1>2, <2>2, Moved DEF Local, At
  <2>3. QED BY <2>1, <2>2
<1>3. QED BY <1>1, <1>2 DEF Local

\* A step of one thread that does not shut down.
LEMMA ShutDownThen ==
  ASSUME ShutDown, Local, NEW t \in Thread, NEW r, Moves(t, r),
         global_doShutdown' = global_doShutdown, r.pc = "func" => ~ global_doShutdown,
         r.then = "join" => thread[t].then = "join"
  PROVE  ShutDown'
<1>1. ASSUME NEW u \in Thread
      PROVE  /\ At(u, "func")' => ~ global_doShutdown
             /\ ~ global_doShutdown => thread'[u].then # "join"
  <2>1. CASE u = t
    BY <2>1, Moved DEF ShutDown, At
  <2>2. CASE u # t
    BY <2>2, Moved DEF ShutDown, At
  <2>3. QED BY <2>1, <2>2
<1>2. QED BY <1>1 DEF ShutDown

\* Each action, from here on.
LEMMA ArriveStep ==
  ASSUME BarrierInv, NEW t \in Thread, Arrive(t) PROVE BarrierInv'
<1>1. PICK r : r = [thread[t] EXCEPT !.pc = IF Winner(t) THEN "proceed" ELSE "proceed_all"]
  OBVIOUS
<1>2. Local /\ Held /\ Paired /\ Counted /\ ReleasedTogether /\ Mixed /\ ShutDown
  BY DEF BarrierInv
<1>3. /\ r \in Record /\ r.i = thread[t].i /\ r.then = thread[t].then
      /\ r.pc = IF Winner(t) THEN "proceed" ELSE "proceed_all"
  BY <1>1, <1>2 DEF Local, Record, Inside, Outside
<1>4. Hold(r) = hold(t) /\ TagOf(r) = Tag(t)
  BY <1>3 DEF Arrive, At, hold, Hold, Tag, TagOf, Inside
<1>5. Fits(t, r)
  <2>1. Fits(t, thread[t]) /\ thread[t].pc = "up"
    BY <1>2 DEF Local, Arrive, At
  <2>2. r.i \in Meeting /\ t % Hold(r) = 0 /\ r.then # "main"
    BY <1>3, <1>4, <2>1 DEF Fits, Inside, hold
  <2>3. r.then \in {"main", "join"} => t = 0
    BY <1>3, <2>1 DEF Fits
  <2>4. t % r.i = 0 <=> Winner(t)
    BY <1>3 DEF Winner
  <2>5. QED BY <1>3, <2>2, <2>3, <2>4 DEF Fits
<1>6. Moves(t, r)
  BY <1>1, <1>5 DEF Moves, Arrive, Goto, Become
<1>7. At(t, "up") /\ t \notin asleep /\ count' = [count EXCEPT ![NodeOf(t)] = @ + 1]
      /\ global_doShutdown' = global_doShutdown
  BY <1>2 DEF Arrive, Local, At
<1>8. ShutDown'
  BY <1>2, <1>3, <1>6, <1>7, ShutDownThen
<1>9. CASE Winner(t)
  <2>1. asleep' = asleep /\ r.pc = "proceed" /\ t % thread[t].i = 0
    BY <1>3, <1>9 DEF Arrive, Winner
  <2>2. Rising(t) /\ Rising(t)'
    BY <1>2, <1>6, <1>7, <2>1, Moved DEF Rising, At
  <2>3. Rising(t)' = Rising(t)
    BY <2>2 DEF Rising
  <2>4. Held' /\ Paired' /\ ReleasedTogether' /\ Mixed'
    BY <1>2, <1>4, <1>6, <1>7, <2>1, <2>3, Quiet
  <2>5. Counted'
    BY <1>2, <1>3, <1>6, <1>7, <2>1, CountsWinner
  <2>6. Local'
    BY <1>2, <1>6, <1>7, <2>1, LocalThen
  <2>7. QED BY <1>8, <2>4, <2>5, <2>6 DEF BarrierInv
<1>10. CASE ~ Winner(t)
  <2>1. asleep' = asleep \cup {t} /\ r.pc = "proceed_all"
    BY <1>3, <1>10 DEF Arrive
  <2>2. Held' /\ Paired' /\ ReleasedTogether' /\ Mixed'
    BY <1>2, <1>3, <1>6, <1>7, <2>1, Sleeps
  <2>3. Counted'
    BY <1>2, <1>3, <1>6, <1>7, <2>1, CountsLoser
  <2>4. Local'
    BY <1>2, <1>6, <2>1, LocalThen
  <2>5. QED BY <1>8, <2>2, <2>3, <2>4 DEF BarrierInv
<1>11. QED BY <1>9, <1>10

LEMMA ProceedStep ==
  ASSUME BarrierInv, NEW t \in Thread, Proceed(t) PROVE BarrierInv'
<1>1. Local /\ Held /\ Paired /\ Counted /\ ReleasedTogether /\ Mixed /\ ShutDown
  BY DEF BarrierInv
<1>2. /\ At(t, "proceed") /\ count[NodeOf(t)] >= 2 /\ t \notin asleep
      /\ count' = count /\ asleep' = asleep /\ global_doShutdown' = global_doShutdown
  BY <1>1 DEF Proceed, Local, At
<1>3. PICK k \in Meeting : k = thread[t].i
  BY <1>1, <1>2 DEF Local, Fits, At, Inside
<1>4. /\ t % k = 0 /\ thread[t].then # "main" /\ (thread[t].then \in {"main", "join"} => t = 0)
      /\ thread[t] \in Record
  BY <1>1, <1>2, <1>3 DEF Local, Fits, At, Inside
<1>5. k \in Nat \ {0} /\ k \in Levels
  BY <1>3, Levelled
<1>6. CASE 2 * k <= numThread
  <2>1. PICK r : r = [thread[t] EXCEPT !.pc = "up", !.i = 2 * @]
    OBVIOUS
  <2>2. r.pc = "up" /\ r.i = 2 * k /\ r.then = thread[t].then /\ r \in Record
    <3>1. PICK q \in Record : q = thread[t]
      BY <1>4
    <3>2. PICK j \in Nat : j = 2 * k
      BY <1>5
    <3>3. r = [q EXCEPT !.pc = "up", !.i = j]
      BY <1>3, <2>1, <3>1, <3>2
    <3>4. r.pc = "up" /\ r.i = j /\ r.then = q.then /\ r \in Record
      BY <3>3 DEF Record, Inside
    <3>5. QED BY <3>1, <3>2, <3>4
  <2>3. 2 * k \in Meeting
    BY <1>5, <1>6, DoubleLevel
  <2>4. Hold(r) = k
    <3>1. Hold(r) = (2 * k) \div 2
      BY <2>2 DEF Hold, Inside
    <3>2. QED BY <1>5, <3>1
  <2>5. Fits(t, r)
    BY <1>4, <2>2, <2>3, <2>4 DEF Fits, Inside
  <2>6. Moves(t, r)
    BY <1>3, <1>6, <2>1, <2>5 DEF Moves, Proceed, Become
  <2>7. Held' /\ Paired' /\ ReleasedTogether' /\ Mixed'
    BY <1>1, <1>2, <1>3, <1>6, <2>1, <2>6, GoesUp
  <2>8. Counted'
    BY <1>1, <1>2, <1>3, <2>2, <2>4, <2>6, CountsUp
  <2>9. Local' /\ ShutDown'
    BY <1>1, <1>2, <2>2, <2>6, LocalThen, ShutDownThen
  <2>10. QED BY <2>7, <2>8, <2>9 DEF BarrierInv
<1>7. CASE ~ (2 * k <= numThread)
  <2>1. PICK r : r = [thread[t] EXCEPT !.pc = "down"]
    OBVIOUS
  <2>2. r.pc = "down" /\ r.i = k /\ r.then = thread[t].then /\ r \in Record
    BY <1>3, <1>4, <1>5, <2>1 DEF Record, Inside
  <2>3. Hold(r) = k
    BY <2>2 DEF Hold, Inside
  <2>4. Fits(t, r)
    BY <1>3, <1>4, <2>2, <2>3 DEF Fits, Inside
  <2>5. Moves(t, r)
    BY <1>3, <1>7, <2>1, <2>4 DEF Moves, Proceed, Become
  <2>6. Held' /\ Paired' /\ ReleasedTogether' /\ Mixed'
    BY <1>1, <1>2, <1>3, <1>7, <2>1, <2>5, TurnsRound
  <2>7. Counted'
    BY <1>1, <1>2, <1>3, <2>2, <2>3, <2>5, CountsUp
  <2>8. Local' /\ ShutDown'
    BY <1>1, <1>2, <2>2, <2>5, LocalThen, ShutDownThen
  <2>9. QED BY <2>6, <2>7, <2>8 DEF BarrierInv
<1>8. QED BY <1>6, <1>7

\* Where a thread comes that has been released, or releases.
LEMMA ReleasedFits ==
  ASSUME Local, NEW t \in Thread, thread[t].pc \in {"proceed_all", "down"},
         NEW r, r = Released(t, thread[t].i \div 2)
  PROVE  /\ Fits(t, r) /\ Hold(r) = thread[t].i \div 2 /\ TagOf(r) = Tag(t)
         /\ r.pc \in {"down", "started", "ended", "join"} /\ r.then = thread[t].then
<1>1. PICK k \in Meeting : k = thread[t].i
  BY DEF Local, Fits, Inside
<1>2. k \in Nat \ {0} /\ k = 2 * (k \div 2) /\ k \div 2 \in Nat \ {0} /\ k \div 2 \in Levels
  BY HalvesLess, HalfLevel
<1>3. /\ thread[t] \in Record /\ thread[t].then \in {"started", "ended", "join"}
      /\ thread[t].then = "join" => t = 0
  BY DEF Local, Fits, Record, Inside
<1>4. t % (k \div 2) = 0
  <2>1. CASE thread[t].pc = "proceed_all"
    BY <1>1, <2>1 DEF Local, Fits, Hold, Inside
  <2>2. CASE thread[t].pc = "down"
    <3>1. t % k = 0 /\ t \in Nat
      BY <1>1, <2>2 DEF Local, Fits, Thread
    <3>2. k % (k \div 2) = 0
      <4>1. PICK h \in Nat \ {0} : h = k \div 2
        BY <1>2
      <4>2. k = 2 * h /\ (2 * h) % h = 0
        BY <1>2, <4>1, Multiple
      <4>3. QED BY <4>1, <4>2
    <3>3. QED BY <1>2, <3>1, <3>2, Divides
  <2>3. QED BY <2>1, <2>2
<1>5. CASE k \div 2 > 1
  <2>1. r = [thread[t] EXCEPT !.pc = "down", !.i = k \div 2]
    BY <1>1, <1>5 DEF Released
  <2>2. r \in Record /\ r.pc = "down" /\ r.i = k \div 2 /\ r.then = thread[t].then
    BY <1>2, <1>3, <2>1 DEF Record, Inside
  <2>3. k \div 2 \in Meeting
    BY <1>2, <1>5 DEF Meeting
  <2>4. Hold(r) = k \div 2 /\ TagOf(r) = Tag(t)
    BY <2>2 DEF Hold, Tag, TagOf, Inside
  <2>5. Fits(t, r)
    BY <1>3, <1>4, <2>2, <2>3, <2>4 DEF Fits, Inside
  <2>6. QED BY <1>1, <2>2, <2>4, <2>5
<1>6. CASE ~ (k \div 2 > 1)
  <2>1. r = [thread[t] EXCEPT !.pc = thread[t].then, !.i = 0]
    BY <1>1, <1>6 DEF Released
  <2>2. r \in Record /\ r.pc = thread[t].then /\ r.then = thread[t].then
    <3>1. PICK q \in Record : q = thread[t]
      BY <1>3
    <3>2. PICK then \in {"started", "ended", "join"} : then = thread[t].then
      BY <1>3
    <3>3. r = [q EXCEPT !.pc = then, !.i = 0]
      BY <2>1, <3>1, <3>2
    <3>4. then \in Inside \cup Outside
      BY <3>2 DEF Outside
    <3>5. q = [pc |-> q.pc, i |-> q.i, then |-> q.then]
      BY DEF Record
    <3>6. r = [pc |-> then, i |-> 0, then |-> q.then]
      BY <3>3, <3>5
    <3>7. q.then \in {"main", "started", "ended", "join"}
      BY DEF Record
    <3>8. r \in Record
      BY <3>4, <3>6, <3>7 DEF Record
    <3>9. QED BY <3>1, <3>2, <3>6, <3>8
  <2>3. Hold(r) = 1 /\ TagOf(r) = Tag(t) /\ k \div 2 = 1
    BY <1>2, <1>3, <1>6, <2>2 DEF Hold, Tag, TagOf, Inside
  <2>4. Fits(t, r)
    BY <1>3, <2>2 DEF Fits, Inside
  <2>5. QED BY <1>1, <1>3, <2>2, <2>3, <2>4
<1>7. QED BY <1>5, <1>6

LEMMA ProceedAllStep ==
  ASSUME BarrierInv, NEW t \in Thread, ProceedAll(t) PROVE BarrierInv'
<1>1. Local /\ Held /\ Paired /\ Counted /\ ReleasedTogether /\ Mixed /\ ShutDown
  BY DEF BarrierInv
<1>2. PICK r : r = Released(t, thread[t].i \div 2)
  OBVIOUS
<1>3. /\ At(t, "proceed_all") /\ t \notin asleep /\ count' = count /\ asleep' = asleep
      /\ global_doShutdown' = global_doShutdown
  BY DEF ProceedAll
<1>4. /\ Fits(t, r) /\ Hold(r) = thread[t].i \div 2 /\ TagOf(r) = Tag(t)
      /\ r.pc \in {"down", "started", "ended", "join"} /\ r.then = thread[t].then
  BY <1>1, <1>2, <1>3, ReleasedFits DEF At
<1>5. Moves(t, r)
  BY <1>2, <1>4 DEF Moves, ProceedAll, Become
<1>6. Hold(r) = hold(t) /\ ~ At(t, "proceed")
  BY <1>3, <1>4 DEF hold, Hold, At, Inside
<1>7. ~ Rising(t) /\ ~ Rising(t)'
  BY <1>1, <1>3, <1>4, <1>5, Moved DEF Rising, At
<1>8. Rising(t)' = Rising(t)
  BY <1>7 DEF Rising
<1>9. Held' /\ Paired' /\ ReleasedTogether' /\ Mixed'
  BY <1>1, <1>3, <1>4, <1>5, <1>6, <1>8, Quiet
<1>10. Counted'
  BY <1>1, <1>3, <1>4, <1>5, <1>6, CountsQuiet
<1>11. Local' /\ ShutDown'
  BY <1>1, <1>3, <1>4, <1>5, LocalThen, ShutDownThen
<1>12. QED BY <1>9, <1>10, <1>11 DEF BarrierInv

LEMMA LowerStep ==
  ASSUME BarrierInv, NEW t \in Thread, Lower(t) PROVE BarrierInv'
<1>1. Local /\ Held /\ Paired /\ Counted /\ ReleasedTogether /\ Mixed /\ ShutDown
  BY DEF BarrierInv
<1>2. PICK r : r = Released(t, thread[t].i \div 2)
  OBVIOUS
<1>3. /\ At(t, "down") /\ t \notin asleep /\ asleep' = asleep \ Loser(NodeOf(t))
      /\ count' = [count EXCEPT ![NodeOf(t)] = 0] /\ global_doShutdown' = global_doShutdown
  BY <1>1 DEF Lower, Local, At
<1>4. /\ Fits(t, r) /\ Hold(r) = thread[t].i \div 2 /\ TagOf(r) = Tag(t)
      /\ r.pc \in {"down", "started", "ended", "join"} /\ r.then = thread[t].then
  BY <1>1, <1>2, <1>3, ReleasedFits DEF At
<1>5. Moves(t, r)
  BY <1>2, <1>4 DEF Moves, Lower, Become
<1>6. Held' /\ Paired' /\ ReleasedTogether' /\ Mixed'
  BY <1>1, <1>3, <1>4, <1>5, Wakes
<1>7. Counted'
  BY <1>1, <1>3, <1>4, <1>5, CountsDown
<1>8. Local' /\ ShutDown'
  BY <1>1, <1>3, <1>4, <1>5, LocalThen, ShutDownThen
<1>9. QED BY <1>6, <1>7, <1>8 DEF BarrierInv

\* A step of a thread that is released, and stays outside of the barrier.
LEMMA OutsideStep ==
  ASSUME Local, Held, Paired, Counted, ReleasedTogether, Mixed, NEW t \in Thread, NEW r, Moves(t, r),
         thread[t].pc \in Outside, r.pc \in Outside, TagOf(r) = Tag(t),
         count' = count, asleep' = asleep
  PROVE  Local' /\ Held' /\ Paired' /\ Counted' /\ ReleasedTogether' /\ Mixed'
<1>1. Hold(r) = 1 /\ hold(t) = 1 /\ ~ At(t, "proceed") /\ r.pc # "proceed"
  BY DEF hold, Hold, At, Inside, Outside
<1>2. t \notin asleep
  BY DEF Local, At, Outside
<1>3. ~ Rising(t) /\ ~ Rising(t)'
  <2>1. ~ Rising(t)
    BY <1>2 DEF Rising, Outside
  <2>2. ~ Rising(t)'
    BY <1>2, Moved DEF Rising, Outside
  <2>3. QED BY <2>1, <2>2
<1>4. Rising(t)' = Rising(t)
  BY <1>3 DEF Rising
<1>5. Held' /\ Paired' /\ ReleasedTogether' /\ Mixed'
  BY <1>1, <1>2, <1>4, Quiet
<1>6. Counted'
  BY <1>1, <1>2, CountsQuiet
<1>7. Local'
  BY <1>2, LocalThen
<1>8. QED BY <1>5, <1>6, <1>7

\* A step of a thread that is released, to the next barrier.
LEMMA EnterStep ==
  ASSUME Local, Held, Paired, Counted, ReleasedTogether, Mixed, NEW t \in Thread,
         NEW then \in {"started", "ended", "join"}, then = "join" => t = 0,
         TagOf(Enter(then)) # Tag(t), Become(t, Enter(then)),
         thread[t].pc \in Outside, count' = count, asleep' = asleep
  PROVE  /\ Local' /\ Held' /\ Paired' /\ Counted' /\ ReleasedTogether' /\ Mixed'
         /\ Moves(t, Enter(then))
<1>1. PICK r : r = Enter(then)
  OBVIOUS
<1>2. r = [pc |-> "up", i |-> 2, then |-> then]
  BY <1>1 DEF Enter
<1>3. r \in Record /\ r.pc = "up" /\ r.i = 2 /\ r.then = then
  BY <1>2 DEF Record, Inside
<1>4. 2 \in Meeting
  <2>1. 1 \in Levels /\ 2 * 1 <= numThread
    BY Levelled
  <2>2. QED BY <2>1, DoubleLevel
<1>5. Hold(r) = 1
  BY <1>3 DEF Hold, Inside
<1>6. t % 1 = 0
  <2>1. t \in Nat /\ t = t * 1
    BY DEF Thread
  <2>2. QED BY <2>1, Multiple
<1>7. Fits(t, r)
  BY <1>3, <1>4, <1>5, <1>6 DEF Fits, Inside
<1>8. Moves(t, r)
  BY <1>1, <1>7 DEF Moves, Become
<1>9. hold(t) = 1 /\ ~ At(t, "proceed") /\ t \notin asleep
  BY DEF hold, Hold, At, Local, Inside, Outside
<1>10. Held' /\ Paired' /\ ReleasedTogether' /\ Mixed'
  BY <1>1, <1>3, <1>8, Enters
<1>11. Counted'
  BY <1>3, <1>5, <1>8, <1>9, CountsQuiet
<1>12. Local'
  BY <1>8, <1>9, LocalThen
<1>13. QED BY <1>1, <1>8, <1>10, <1>11, <1>12

LEMMA StartedStep ==
  ASSUME BarrierInv, NEW t \in Thread, Started(t) PROVE BarrierInv'
<1>1. Local /\ Held /\ Paired /\ Counted /\ ReleasedTogether /\ Mixed /\ ShutDown
  BY DEF BarrierInv
<1>2. PICK pc \in {"exit", "func"} : pc = IF global_doShutdown THEN "exit" ELSE "func"
  OBVIOUS
<1>3. PICK r : r = [thread[t] EXCEPT !.pc = pc]
  OBVIOUS
<1>4. thread[t] \in Record /\ thread[t].pc = "started" /\ thread[t].then = "started"
  BY <1>1 DEF Started, At, Local, Fits
<1>5. r.pc = pc /\ r.then = "started" /\ r \in Record
  BY <1>3, <1>4 DEF Record, Outside
<1>6. Fits(t, r)
  BY <1>5 DEF Fits, Inside
<1>7. Moves(t, r)
  BY <1>2, <1>3, <1>6 DEF Moves, Started, Goto, Become
<1>8. thread[t].pc \in Outside /\ r.pc \in Outside /\ TagOf(r) = Tag(t)
  BY <1>4, <1>5 DEF Outside, Tag, TagOf
<1>9. count' = count /\ asleep' = asleep /\ global_doShutdown' = global_doShutdown
  BY DEF Started
<1>10. Local' /\ Held' /\ Paired' /\ Counted' /\ ReleasedTogether' /\ Mixed'
  BY <1>1, <1>7, <1>8, <1>9, OutsideStep
<1>11. ShutDown'
  BY <1>1, <1>2, <1>5, <1>7, <1>9, ShutDownThen
<1>12. QED BY <1>10, <1>11 DEF BarrierInv

LEMMA FuncDoneStep ==
  ASSUME BarrierInv, NEW t \in Thread, FuncDone(t) PROVE BarrierInv'
<1>1. Local /\ Held /\ Paired /\ Counted /\ ReleasedTogether /\ Mixed /\ ShutDown
  BY DEF BarrierInv
<1>2. thread[t].pc = "func" /\ thread[t].then = "started"
  BY <1>1 DEF FuncDone, At, Local, Fits
<1>3. Tag(t) = "started" /\ TagOf(Enter("ended")) = "ended" /\ thread[t].pc \in Outside
  BY <1>2 DEF Tag, TagOf, Enter, Outside
<1>4. /\ Become(t, Enter("ended")) /\ count' = count /\ asleep' = asleep
      /\ global_doShutdown' = global_doShutdown
  BY DEF FuncDone
<1>5. /\ Local' /\ Held' /\ Paired' /\ Counted' /\ ReleasedTogether' /\ Mixed'
      /\ Moves(t, Enter("ended"))
  BY <1>1, <1>3, <1>4, EnterStep
<1>6. Enter("ended").pc = "up" /\ Enter("ended").then = "ended"
  BY DEF Enter
<1>7. ShutDown'
  BY <1>1, <1>4, <1>5, <1>6, ShutDownThen
<1>8. QED BY <1>5, <1>7 DEF BarrierInv

LEMMA EndedStep ==
  ASSUME BarrierInv, NEW t \in Thread, Ended(t) PROVE BarrierInv'
<1>1. Local /\ Held /\ Paired /\ Counted /\ ReleasedTogether /\ Mixed /\ ShutDown
  BY DEF BarrierInv
<1>2. thread[t].pc = "ended" /\ thread[t].then = "ended" /\ thread[t] \in Record
  BY <1>1 DEF Ended, At, Local, Fits
<1>3. Tag(t) = "ended" /\ thread[t].pc \in Outside
  BY <1>2 DEF Tag, TagOf, Outside
<1>4. count' = count /\ asleep' = asleep /\ global_doShutdown' = global_doShutdown
  BY DEF Ended
<1>5. CASE t = 0
  <2>1. PICK r : r = [thread[t] EXCEPT !.pc = "main", !.then = "main"]
    OBVIOUS
  <2>2. r.pc = "main" /\ r.then = "main" /\ r \in Record
    BY <1>2, <2>1 DEF Record, Outside
  <2>3. Fits(t, r)
    BY <1>5, <2>2 DEF Fits, Inside
  <2>4. Moves(t, r)
    BY <1>5, <2>1, <2>3 DEF Moves, Ended, Become
  <2>5. r.pc \in Outside /\ TagOf(r) = "ended"
    BY <2>2 DEF Outside, TagOf
  <2>6. Local' /\ Held' /\ Paired' /\ Counted' /\ ReleasedTogether' /\ Mixed'
    BY <1>1, <1>3, <1>4, <2>4, <2>5, OutsideStep
  <2>7. ShutDown'
    BY <1>1, <1>4, <2>2, <2>4, ShutDownThen
  <2>8. QED BY <2>6, <2>7 DEF BarrierInv
<1>6. CASE t # 0
  <2>1. Become(t, Enter("started")) /\ TagOf(Enter("started")) = "started"
    BY <1>6 DEF Ended, TagOf, Enter
  <2>2. /\ Local' /\ Held' /\ Paired' /\ Counted' /\ ReleasedTogether' /\ Mixed'
        /\ Moves(t, Enter("started"))
    BY <1>1, <1>3, <1>4, <2>1, EnterStep
  <2>3. Enter("started").pc = "up" /\ Enter("started").then = "started"
    BY DEF Enter
  <2>4. ShutDown'
    BY <1>1, <1>4, <2>2, <2>3, ShutDownThen
  <2>5. QED BY <2>2, <2>4 DEF BarrierInv
<1>7. QED BY <1>5, <1>6

\* The primary thread.
LEMMA Zero == 0 \in Thread
  BY Levelled DEF Thread

LEMMA StartStep ==
  ASSUME BarrierInv, thread_start PROVE BarrierInv'
<1>1. Local /\ Held /\ Paired /\ Counted /\ ReleasedTogether /\ Mixed /\ ShutDown
  BY DEF BarrierInv
<1>2. thread[0].pc = "main" /\ thread[0].then = "main"
  BY <1>1, Zero DEF thread_start, At, Local, Fits
<1>3. Tag(0) = "ended" /\ TagOf(Enter("started")) = "started" /\ thread[0].pc \in Outside
  BY <1>2 DEF Tag, TagOf, Enter, Outside
<1>4. /\ Become(0, Enter("started")) /\ count' = count /\ asleep' = asleep
      /\ global_doShutdown' = global_doShutdown
  BY DEF thread_start
<1>5. /\ Local' /\ Held' /\ Paired' /\ Counted' /\ ReleasedTogether' /\ Mixed'
      /\ Moves(0, Enter("started"))
  BY <1>1, <1>3, <1>4, Zero, EnterStep
<1>6. Enter("started").pc = "up" /\ Enter("started").then = "started"
  BY DEF Enter
<1>7. ShutDown'
  BY <1>1, <1>4, <1>5, <1>6, Zero, ShutDownThen
<1>8. QED BY <1>5, <1>7 DEF BarrierInv

\* Nobody runs a section while the primary thread is in main.
LEMMA ShutdownStep ==
  ASSUME BarrierInv, thread_shutdown PROVE BarrierInv'
<1>1. Local /\ Held /\ Paired /\ Counted /\ ReleasedTogether /\ Mixed /\ ShutDown
  BY DEF BarrierInv
<1>2. thread[0].pc = "main" /\ thread[0].then = "main"
  BY <1>1, Zero DEF thread_shutdown, At, Local, Fits
<1>3. Tag(0) = "ended" /\ TagOf(Enter("join")) = "started" /\ thread[0].pc \in Outside
  BY <1>2 DEF Tag, TagOf, Enter, Outside
<1>4. /\ Become(0, Enter("join")) /\ count' = count /\ asleep' = asleep
      /\ global_doShutdown' = TRUE
  BY DEF thread_shutdown
<1>5. /\ Local' /\ Held' /\ Paired' /\ Counted' /\ ReleasedTogether' /\ Mixed'
      /\ Moves(0, Enter("join"))
  BY <1>1, <1>3, <1>4, Zero, EnterStep
<1>6. ASSUME NEW u \in Thread PROVE ~ At(u, "func")'
  <2>1. CASE u = 0
    <3>1. thread'[0] = Enter("join")
      BY <1>1, <1>5, Zero, Moved
    <3>2. QED BY <2>1, <3>1 DEF At, Enter
  <2>2. CASE u # 0
    <3>1. SUFFICES ASSUME thread[u].pc = "func" PROVE FALSE
      BY <1>1, <1>5, <2>2, Zero, Moved DEF At
    <3>2. ~ Rising(u) /\ ~ Rising(0)
      BY <1>1, <1>2, <3>1 DEF Rising, Local, At
    <3>3. Tag(u) = "started"
      BY <1>1, <3>1 DEF Local, Fits, Tag, TagOf
    <3>4. QED BY <1>1, <1>3, <3>2, <3>3, Zero DEF ReleasedTogether
  <2>3. QED BY <2>1, <2>2
<1>7. ShutDown'
  BY <1>4, <1>6 DEF ShutDown
<1>8. QED BY <1>5, <1>7 DEF BarrierInv

LEMMA JoinStep ==
  ASSUME BarrierInv, Join PROVE BarrierInv'
<1>1. Local /\ Held /\ Paired /\ Counted /\ ReleasedTogether /\ Mixed /\ ShutDown
  BY DEF BarrierInv
<1>2. PICK r : r = [thread[0] EXCEPT !.pc = "done"]
  OBVIOUS
<1>3. thread[0] \in Record /\ thread[0].pc = "join" /\ thread[0].then = "join"
  BY <1>1, Zero DEF Join, At, Local, Fits
<1>4. r.pc = "done" /\ r.then = "join" /\ r \in Record
  BY <1>2, <1>3 DEF Record, Outside
<1>5. Fits(0, r)
  BY <1>4 DEF Fits, Inside
<1>6. Moves(0, r)
  BY <1>2, <1>5 DEF Moves, Join, Goto, Become
<1>7. thread[0].pc \in Outside /\ r.pc \in Outside /\ TagOf(r) = Tag(0)
  BY <1>3, <1>4 DEF Outside, Tag, TagOf
<1>8. count' = count /\ asleep' = asleep /\ global_doShutdown' = global_doShutdown
  BY DEF Join
<1>9. Local' /\ Held' /\ Paired' /\ Counted' /\ ReleasedTogether' /\ Mixed'
  BY <1>1, <1>6, <1>7, <1>8, Zero, OutsideStep
<1>10. ShutDown'
  BY <1>1, <1>3, <1>4, <1>6, <1>8, Zero, ShutDownThen
<1>11. QED BY <1>9, <1>10 DEF BarrierInv

----------------------------------------------------------------------------
(* The theorem *)

\* It holds at the start.
LEMMA BarrierInit == SInit => BarrierInv
<1> SUFFICES ASSUME SInit PROVE BarrierInv
  OBVIOUS
<1>1. /\ thread[0] = [pc |-> "main", i |-> 0, then |-> "main"]
      /\ \A t \in Thread : t # 0 => thread[t] = [pc |-> "up", i |-> 2, then |-> "started"]
      /\ asleep = {} /\ global_doShutdown = FALSE /\ count = [n \in Index |-> 0]
  BY Zero DEF SInit, Enter
<1>2. 2 \in Meeting
  <2>1. 1 \in Levels /\ 2 * 1 <= numThread
    BY Levelled
  <2>2. QED BY <2>1, DoubleLevel
<1>3. ASSUME NEW t \in Thread PROVE hold(t) = 1 /\ t % 1 = 0
  <2>1. hold(t) = 1
    BY <1>1 DEF hold, Hold, Inside
  <2>2. t \in Nat /\ t = t * 1
    BY DEF Thread
  <2>3. QED BY <2>1, <2>2, Multiple
<1>4. Local
  <2>1. ASSUME NEW t \in Thread PROVE Fits(t, thread[t])
    <3>1. Hold(thread[t]) = 1 /\ t % 1 = 0
      BY <1>3 DEF hold
    <3>2. CASE t = 0
      BY <1>1, <3>2 DEF Fits, Record, Inside, Outside
    <3>3. CASE t # 0
      BY <1>1, <1>2, <3>1, <3>3 DEF Fits, Record, Inside, Outside
    <3>4. QED BY <3>2, <3>3
  <2>2. DOMAIN thread = Thread /\ thread = [t \in Thread |-> thread[t]]
    BY DEF SInit
  <2>3. thread \in [Thread -> Record]
    BY <2>1, <2>2 DEF Fits
  <2>4. QED BY <1>1, <2>1, <2>3 DEF Local
<1>5. Held
  <2>1. \A t, u \in Thread : ~ (t < u /\ u < t + 1)
    BY DEF Thread
  <2>2. QED BY <1>3, <2>1 DEF Held
<1>6. Paired
  BY <1>1 DEF Paired
<1>7. Counted
  <2>1. ASSUME NEW i \in Meeting, NEW t \in Thread, t % i = 0
        PROVE  count[Node(i, t)] = CountOf(t, i)
    <3>1. count[Node(i, t)] = 0
      BY <1>1, Nodes
    <3>2. ~ Slept(t, i)
      BY <1>1 DEF Slept
    <3>3. ~ Come(t, i)
      <4>1. hold(t) = 1 /\ i >= 2 /\ i \in Nat
        BY <1>3, Levelled
      <4>2. ~ At(t, "proceed")
        BY <1>1 DEF At
      <4>3. QED BY <4>1, <4>2 DEF Come
    <3>4. QED BY <3>1, <3>2, <3>3 DEF CountOf
  <2>2. count \in [Index -> Nat]
    BY <1>1
  <2>3. QED BY <2>1, <2>2, Counts
<1>8. ~ Rising(0) /\ \A t \in Thread : t # 0 => Rising(t) /\ Tag(t) = "started"
  BY <1>1 DEF Rising, Tag, TagOf
<1>9. Tag(0) = "ended"
  BY <1>1 DEF Tag, TagOf
<1>10. ReleasedTogether
  BY <1>8, <1>9 DEF ReleasedTogether
<1>11. Mixed
  BY <1>8, Zero DEF Mixed
<1>12. ShutDown
  <2>1. ASSUME NEW t \in Thread PROVE thread[t].then # "join"
    <3>1. CASE t = 0
      BY <1>1, <3>1
    <3>2. CASE t # 0
      BY <1>1, <3>2
    <3>3. QED BY <3>1, <3>2
  <2>2. global_doShutdown = FALSE
    BY <1>1
  <2>3. QED BY <2>1, <2>2 DEF ShutDown
<1>13. QED BY <1>4, <1>5, <1>6, <1>7, <1>10, <1>11, <1>12 DEF BarrierInv

\* It goes on to hold.
LEMMA BarrierStep == BarrierInv /\ [SNext]_svars => BarrierInv'
<1> SUFFICES ASSUME BarrierInv, [SNext]_svars PROVE BarrierInv'
  OBVIOUS
<1>1. CASE UNCHANGED svars
  BY <1>1 DEF BarrierInv, Local, Held, Paired, Counted, ReleasedTogether, Mixed, ShutDown, svars,
              At, hold, Tag, Rising, Come, Node, base
<1>2. ASSUME NEW t \in Thread, Step(t) PROVE BarrierInv'
  BY <1>2, ArriveStep, ProceedStep, ProceedAllStep, LowerStep, StartedStep, FuncDoneStep, EndedStep
     DEF Step
<1>3. QED BY <1>1, <1>2, StartStep, ShutdownStep, JoinStep DEF SNext

\* Who runs a section has been released from the barrier at its start: nobody is
\* still released from the one before, and who sleeps at this one is not in main.
LEMMA InvariantKeepsApart == BarrierInv => SectionsApart
<1> SUFFICES ASSUME BarrierInv, NEW t \in Thread, thread[t].pc = "func", NEW u \in Thread
             PROVE  thread[u].then = "started" \/ (thread[u].then = "ended" /\ thread[u].pc # "ended")
  BY DEF SectionsApart, At
<1>1. Local /\ ReleasedTogether /\ ShutDown
  BY DEF BarrierInv
<1>2. ~ Rising(t) /\ Tag(t) = "started"
  BY <1>1 DEF Rising, Local, At, Fits, Tag, TagOf
<1>3. thread[u].then # "join"
  BY <1>1 DEF ShutDown, At
<1>4. Fits(u, thread[u]) /\ thread[u].then \in {"main", "started", "ended"}
  BY <1>1, <1>3 DEF Local, Fits, Record
<1>5. CASE Tag(u) = "started"
  BY <1>4, <1>5 DEF Tag, TagOf
<1>6. CASE Tag(u) # "started"
  <2>1. Rising(u)
    BY <1>1, <1>2, <1>6 DEF ReleasedTogether
  <2>2. thread[u].pc \in Inside
    BY <1>1, <2>1 DEF Rising, Local, At, Inside
  <2>3. QED BY <1>4, <1>6, <2>2 DEF Fits, Tag, TagOf, Inside
<1>7. QED BY <1>5, <1>6

\* Sections of the benchmarks do not overlap (thread_barrier in mubench/thread.c),
\* with any number of threads that is a power of two: no thread runs the function
\* of a section while another has left the barrier at its end, or is still to
\* leave that of the section before.
THEOREM SectionsStayApart == SSpec => []SectionsApart
<1>1. SInit => BarrierInv
  BY BarrierInit
<1>2. BarrierInv /\ [SNext]_svars => BarrierInv'
  BY BarrierStep
<1>3. BarrierInv => SectionsApart
  BY InvariantKeepsApart
<1>4. QED BY <1>1, <1>2, <1>3, PTL DEF SSpec
=============================================================================
