------------------------ MODULE MemoryManager_proof -------------------------
(***************************************************************************)
(* What the memory managers promise, for any number of threads, tasks and  *)
(* blocks.                                                                 *)
(*                                                                         *)
(* First, of one manager: its buffers of pointers are linked from three    *)
(* ends: the frees of the transaction, the full buffers that have          *)
(* committed, and the clean ones.  InOrder says how; every function of the *)
(* manager keeps it, whatever its arguments, and what each does to the     *)
(* pointers to free and to the timestamps they are under is stated once.   *)
(*                                                                         *)
(* Then, of the minimum of the observed timestamps: it never falls, and no *)
(* task has observed an older one.  FreeDominated relies on both: what it  *)
(* frees was given up before the start of every transaction there is.      *)
(*                                                                         *)
(* Last, of the blocks: none is freed that somebody may still use, none is *)
(* freed twice, and none is lost.                                          *)
(***************************************************************************)
EXTENDS MemoryManager, FiniteSetTheorems, WellFoundedInduction, TLAPS

----------------------------------------------------------------------------
(* Induction *)

\* A set of numbers has a least one.
LEMMA LeastOf == ASSUME NEW S, S \subseteq Nat, S # {} PROVE \E m \in S : \A n \in S : m <= n
<1> DEFINE R == {p \in Nat \X Nat : p[1] < p[2]}
<1>1. IsWellFoundedOn(R, Nat)
  BY NatLessThanWellFounded DEF OpToRel
<1>2. PICK m \in S : \A n \in S : <<n, m>> \notin R
  <2> HIDE DEF R
  <2>1. QED BY <1>1, WFMin
<1>3. ASSUME NEW n \in S PROVE m <= n
  <2>1. <<n, m>> \in Nat \X Nat => ~ (n < m)
    BY <1>2
  <2>2. m \in Nat /\ n \in Nat
    OBVIOUS
  <2>3. QED BY <2>1, <2>2
<1>4. QED BY <1>3

LEMMA InductionOver == ASSUME NEW S, 0 \in S, \A n \in Nat : n \in S => n + 1 \in S PROVE Nat \subseteq S
<1> SUFFICES ASSUME Nat \ S # {} PROVE FALSE
  OBVIOUS
<1>1. PICK m \in Nat \ S : \A n \in Nat \ S : m <= n
  BY LeastOf
<1>2. m # 0 /\ m - 1 \in Nat
  BY <1>1
<1>3. m - 1 \in S
  BY <1>1, <1>2
<1>4. QED BY <1>1, <1>2, <1>3

----------------------------------------------------------------------------
(* Chains *)

Buffer == 1 .. Buffers
BufferType == [ptrs : Seq(Block), rollback_next_ptr : Nat, ts : Nat, init_ts : BOOLEAN,
               next : 0 .. Buffers, prev : 0 .. Buffers]

Reach(buf, i) ==
  CHOOSE reach : reach = [n \in 0 .. Buffers |->
        IF n = 0 THEN {i} \ {NULL}
        ELSE reach[n - 1] \cup ({buf[j].next : j \in reach[n - 1]} \ {NULL})]

LEMMA ChainIsReach == ASSUME NEW m, NEW i PROVE Chain(m, i) = Reach(m.buf, i)[Buffers]
BY DEF Chain, Reach

Nexts(buf, S) == {buf[j].next : j \in S} \ {NULL}

\* A function that satisfies the recursion is the one it defines.
LEMMA ReachIs ==
  ASSUME NEW buf, NEW i, NEW g, g[0] = {i} \ {NULL},
         \A n \in 1 .. Buffers : g[n] = g[n - 1] \cup Nexts(buf, g[n - 1])
  PROVE  Reach(buf, i)[Buffers] = g[Buffers]
<1> DEFINE h == [n \in 0 .. Buffers |-> g[n]]
           r == Reach(buf, i)
           S == {n \in Nat : n \in 0 .. Buffers => r[n] = g[n]}
<1>1. Buffers \in Nat
  BY MemoryAssumption
<1>2. h = [n \in 0 .. Buffers |->
             IF n = 0 THEN {i} \ {NULL}
             ELSE h[n - 1] \cup ({buf[j].next : j \in h[n - 1]} \ {NULL})]
  <2>1. ASSUME NEW n \in 0 .. Buffers
        PROVE  h[n] = IF n = 0 THEN {i} \ {NULL}
                      ELSE h[n - 1] \cup ({buf[j].next : j \in h[n - 1]} \ {NULL})
    <3>1. CASE n = 0
      BY <3>1, <1>1
    <3>2. CASE n # 0
      <4>1. n \in 1 .. Buffers /\ n - 1 \in 0 .. Buffers
        BY <3>2, <1>1
      <4>2. h[n] = g[n] /\ h[n - 1] = g[n - 1]
        BY <4>1
      <4>3. h[n] = h[n - 1] \cup Nexts(buf, h[n - 1])
        BY <4>1, <4>2
      <4>4. QED BY <3>2, <4>3 DEF Nexts
    <3>3. QED BY <3>1, <3>2
  <2>2. QED BY <2>1
<1>3. r = [n \in 0 .. Buffers |->
              IF n = 0 THEN {i} \ {NULL}
              ELSE r[n - 1] \cup ({buf[j].next : j \in r[n - 1]} \ {NULL})]
  BY <1>2 DEF Reach
<1> HIDE DEF r, h
<1>4. 0 \in S
  BY <1>1, <1>3
<1>5. ASSUME NEW n \in Nat, n \in S PROVE n + 1 \in S
  <2> SUFFICES ASSUME n + 1 \in 0 .. Buffers PROVE r[n + 1] = g[n + 1]
    OBVIOUS
  <2>1. n \in 0 .. Buffers /\ n + 1 \in 1 .. Buffers /\ r[n] = g[n] /\ n + 1 # 0 /\ n + 1 - 1 = n
    BY <1>1, <1>5
  <2>2. r[n + 1] = r[n] \cup ({buf[j].next : j \in r[n]} \ {NULL})
    BY <1>3, <2>1
  <2>3. g[n + 1] = g[n] \cup Nexts(buf, g[n])
    BY <2>1
  <2>4. QED BY <2>1, <2>2, <2>3 DEF Nexts
<1>6. Nat \subseteq S
  <2> HIDE DEF S
  <2>1. QED BY <1>4, <1>5, InductionOver
<1>7. Buffers \in S
  BY <1>1, <1>6
<1>8. r[Buffers] = g[Buffers]
  BY <1>1, <1>7
<1>9. QED BY <1>8 DEF r

LEMMA ChainOfNull == ASSUME NEW m PROVE Chain(m, NULL) = {}
<1> DEFINE g == [n \in 0 .. Buffers |-> {}]
<1>1. g[0] = {NULL} \ {NULL} /\ g[Buffers] = {}
  BY MemoryAssumption
<1>2. ASSUME NEW n \in 1 .. Buffers PROVE g[n] = g[n - 1] \cup Nexts(m.buf, g[n - 1])
  <2>1. n - 1 \in 0 .. Buffers /\ n \in 0 .. Buffers
    BY MemoryAssumption
  <2>2. g[n - 1] = {} /\ g[n] = {}
    BY <2>1
  <2>3. QED BY <2>2 DEF Nexts
<1> HIDE DEF g
<1>3. Reach(m.buf, NULL)[Buffers] = g[Buffers]
  BY <1>1, <1>2, ReachIs
<1>4. QED BY <1>1, <1>3, ChainIsReach

\* A list of k buffers, each the next of the one before it.
Listed(buf, s, k) ==
  /\ k \in Nat /\ s \in [1 .. k -> Buffer]
  /\ \A a, b \in 1 .. k : s[a] = s[b] => a = b
  /\ \A a \in 1 .. k - 1 : buf[s[a]].next = s[a + 1]

\* Its last buffer is the last.
Ends(buf, s, k) == k > 0 => buf[s[k]].next = NULL

\* No more buffers can be listed than there are.
LEMMA ListIsShort == ASSUME NEW buf, NEW s, NEW k, Listed(buf, s, k) PROVE k <= Buffers
<1>1. Buffers \in Nat /\ k \in Nat
  BY MemoryAssumption DEF Listed
<1>2. IsFiniteSet(1 .. k) /\ Cardinality(1 .. k) = k
  BY <1>1, FS_Interval
<1>3. IsFiniteSet(Buffer) /\ Cardinality(Buffer) = Buffers
  BY <1>1, FS_Interval DEF Buffer
<1>4. s \in Injection(1 .. k, Buffer)
  BY DEF Listed, Injection, IsInjective
<1>5. QED BY <1>2, <1>3, <1>4, FS_Injection

From(s, a, k) == {s[j] : j \in a .. k}

\* The chain from a buffer of a list that ends is the rest of the list.
LEMMA ChainOf ==
  ASSUME NEW m, NEW s, NEW k, Listed(m.buf, s, k), Ends(m.buf, s, k), NEW a \in 1 .. k
  PROVE  Chain(m, s[a]) = From(s, a, k)
<1> DEFINE last(n) == IF a + n <= k THEN a + n ELSE k
           g == [n \in 0 .. Buffers |-> {s[j] : j \in a .. last(n)}]
<1>1. Buffers \in Nat /\ k <= Buffers
  BY MemoryAssumption, ListIsShort
<1>2. Buffers \in Nat /\ k \in Nat /\ k <= Buffers /\ a \in Nat
  BY <1>1 DEF Listed
<1>3. \A j \in 1 .. k : s[j] # NULL
  BY DEF Listed, Buffer, NULL
<1>4. g[0] = {s[a]} \ {NULL}
  <2>1. last(0) = a /\ 0 \in 0 .. Buffers
    BY <1>2
  <2>2. g[0] = {s[j] : j \in a .. a}
    BY <2>1
  <2>3. a .. a = {a}
    BY <1>2
  <2>4. QED BY <1>3, <2>2, <2>3
<1>5. ASSUME NEW n \in 1 .. Buffers PROVE g[n] = g[n - 1] \cup Nexts(m.buf, g[n - 1])
  <2> DEFINE l == last(n - 1)
  <2>1. n - 1 \in 0 .. Buffers /\ n \in 0 .. Buffers /\ l \in a .. k
    BY <1>2
  <2>2. g[n - 1] = {s[j] : j \in a .. l} /\ g[n] = {s[j] : j \in a .. last(n)}
    BY <2>1
  <2>3. last(n) = IF l < k THEN l + 1 ELSE l
    BY <1>2
  <2> HIDE DEF l, g, last
  <2>4. \A j \in a .. l : m.buf[s[j]].next = IF j < k THEN s[j + 1] ELSE NULL
    <3> SUFFICES ASSUME NEW j \in a .. l PROVE m.buf[s[j]].next = IF j < k THEN s[j + 1] ELSE NULL
      OBVIOUS
    <3>1. j \in Nat /\ j \in 1 .. k
      BY <1>2, <2>1
    <3>2. CASE j < k
      <4>1. j \in 1 .. k - 1
        BY <1>2, <3>1, <3>2
      <4>2. QED BY <3>2, <4>1 DEF Listed
    <3>3. CASE j = k
      BY <1>2, <3>1, <3>3 DEF Ends
    <3>4. QED BY <1>2, <3>1, <3>2, <3>3
  <2>5. CASE l < k
    <3>1. last(n) = l + 1 /\ l \in Nat /\ a <= l
      BY <2>1, <2>3, <2>5, <1>2
    <3>2. ASSUME NEW x \in g[n] PROVE x \in g[n - 1] \cup Nexts(m.buf, g[n - 1])
      <4>1. PICK j \in a .. l + 1 : x = s[j]
        BY <2>2, <3>1
      <4>2. CASE j \in a .. l
        BY <4>1, <4>2, <2>2
      <4>3. CASE j = l + 1
        <5>1. l \in a .. l /\ m.buf[s[l]].next = s[l + 1] /\ s[l + 1] # NULL
          BY <1>2, <1>3, <2>1, <2>4, <2>5, <3>1
        <5>2. s[l] \in g[n - 1]
          BY <2>2, <5>1
        <5>3. QED BY <4>1, <4>3, <5>1, <5>2 DEF Nexts
      <4>4. QED BY <1>2, <3>1, <4>2, <4>3
    <3>3. ASSUME NEW x \in g[n - 1] \cup Nexts(m.buf, g[n - 1]) PROVE x \in g[n]
      <4>1. a .. l \subseteq a .. l + 1 /\ \A j \in a .. l : j + 1 \in a .. l + 1
        BY <1>2, <3>1
      <4>2. CASE x \in g[n - 1]
        BY <2>2, <3>1, <4>1, <4>2
      <4>3. CASE x \in Nexts(m.buf, g[n - 1])
        <5>1. PICK j \in a .. l : x = m.buf[s[j]].next /\ x # NULL
          BY <2>2, <4>3 DEF Nexts
        <5>2. x = s[j + 1]
          BY <2>4, <5>1
        <5>3. QED BY <2>2, <3>1, <4>1, <5>2
      <4>4. QED BY <4>2, <4>3
    <3>4. QED BY <3>2, <3>3
  <2>6. CASE l = k
    <3>1. last(n) = l
      BY <2>3, <2>6, <1>2
    <3>2. g[n] = g[n - 1]
      BY <2>2, <3>1
    <3>3. ASSUME NEW x \in Nexts(m.buf, g[n - 1]) PROVE x \in g[n - 1]
      <4>1. PICK j \in a .. l : x = m.buf[s[j]].next /\ x # NULL
        BY <2>2 DEF Nexts
      <4>2. j \in a .. k /\ j < k /\ x = s[j + 1]
        BY <1>2, <2>4, <2>6, <4>1
      <4>3. j + 1 \in a .. l
        BY <1>2, <2>6, <4>2
      <4>4. QED BY <2>2, <4>2, <4>3
    <3>4. QED BY <3>2, <3>3
  <2>7. QED BY <1>2, <2>1, <2>5, <2>6
<1>6. g[Buffers] = {s[j] : j \in a .. k}
  <2>1. last(Buffers) = k /\ Buffers \in 0 .. Buffers
    BY <1>2
  <2>2. QED BY <2>1
<1> HIDE DEF g
<1>7. Reach(m.buf, s[a])[Buffers] = g[Buffers]
  BY <1>4, <1>5, ReachIs
<1>8. QED BY <1>6, <1>7, ChainIsReach DEF From

Manager ==
  [freed_in_tx : Buffer, freed_in_tx_old : Buffer, alloced_in_tx : {2}, alloced_in_tx_old : {2},
   freed_logically : 0 .. Buffers, reusable : 0 .. Buffers, last_minimum_ts : Nat,
   allocated : 2 .. Buffers, buf : [Buffer -> BufferType]]

----------------------------------------------------------------------------
(* A chain in front of a list *)

LEMMA ManagerFields ==
  ASSUME NEW m \in Manager
  PROVE  /\ m.freed_in_tx \in Buffer /\ m.freed_in_tx_old \in Buffer
         /\ m.alloced_in_tx = 2 /\ m.alloced_in_tx_old = 2
         /\ m.freed_logically \in 0 .. Buffers /\ m.reusable \in 0 .. Buffers
         /\ m.last_minimum_ts \in Nat /\ m.allocated \in 2 .. Buffers
         /\ m.buf \in [Buffer -> BufferType]
  BY DEF Manager

LEMMA BufferFields ==
  ASSUME NEW m \in Manager, NEW i \in Buffer
  PROVE  /\ m.buf[i] \in BufferType
         /\ m.buf[i].ptrs \in Seq(Block) /\ m.buf[i].rollback_next_ptr \in Nat
         /\ m.buf[i].ts \in Nat /\ m.buf[i].init_ts \in BOOLEAN
         /\ m.buf[i].next \in 0 .. Buffers /\ m.buf[i].prev \in 0 .. Buffers
<1>1. m.buf[i] \in BufferType
  BY ManagerFields
<1>2. QED BY <1>1 DEF BufferType

LEMMA SameBuffer ==
  ASSUME NEW b \in BufferType, NEW c \in BufferType,
         b.ptrs = c.ptrs, b.rollback_next_ptr = c.rollback_next_ptr, b.ts = c.ts,
         b.init_ts = c.init_ts, b.next = c.next, b.prev = c.prev
  PROVE  b = c
  BY DEF BufferType

LEMMA TwoIsBuffer == Buffers \in Nat /\ Size \in Nat \ {0} /\ 2 \in Buffer /\ 1 \in Buffer /\ NULL = 0
  BY MemoryAssumption DEF Buffer, NULL

\* The links after the chain from a to b has gone in front of the list that
\* begins at h.
Relinked(buf, a, b, h) ==
  [i \in DOMAIN buf |->
     [buf[i] EXCEPT
       !.next = IF i = b THEN h ELSE @,
       !.prev = IF i = a THEN NULL ELSE IF i = h THEN b ELSE @]]

AreRelinked(buf, a, b, h, r) ==
  /\ r \in [Buffer -> BufferType]
  /\ \A i \in Buffer :
       /\ r[i].ptrs = buf[i].ptrs /\ r[i].rollback_next_ptr = buf[i].rollback_next_ptr
       /\ r[i].ts = buf[i].ts /\ r[i].init_ts = buf[i].init_ts
       /\ r[i].next = IF i = b THEN h ELSE buf[i].next
       /\ r[i].prev = IF i = a THEN NULL ELSE IF i = h THEN b ELSE buf[i].prev

LEMMA RelinkedIs ==
  ASSUME NEW buf \in [Buffer -> BufferType], NEW a \in Buffer, NEW b \in Buffer, NEW h \in 0 .. Buffers
  PROVE  AreRelinked(buf, a, b, h, Relinked(buf, a, b, h))
<1> DEFINE r == Relinked(buf, a, b, h)
<1>1. DOMAIN buf = Buffer
  OBVIOUS
<1>2. ASSUME NEW i \in Buffer
      PROVE  /\ r[i] \in BufferType
             /\ r[i].ptrs = buf[i].ptrs /\ r[i].rollback_next_ptr = buf[i].rollback_next_ptr
             /\ r[i].ts = buf[i].ts /\ r[i].init_ts = buf[i].init_ts
             /\ r[i].next = IF i = b THEN h ELSE buf[i].next
             /\ r[i].prev = IF i = a THEN NULL ELSE IF i = h THEN b ELSE buf[i].prev
  <2> DEFINE q == buf[i]
             n == IF i = b THEN h ELSE buf[i].next
             p == IF i = a THEN NULL ELSE IF i = h THEN b ELSE buf[i].prev
  <2>1. q \in BufferType
    OBVIOUS
  <2>2. q.next \in 0 .. Buffers /\ q.prev \in 0 .. Buffers
    BY <2>1 DEF BufferType
  <2>3. n \in 0 .. Buffers /\ p \in 0 .. Buffers
    BY <2>2, TwoIsBuffer DEF Buffer
  <2>4. r[i] = [q EXCEPT !.next = n, !.prev = p]
    BY <1>1 DEF Relinked
  <2> HIDE DEF r, q, n, p
  <2>5. /\ r[i] \in BufferType
        /\ r[i].ptrs = q.ptrs /\ r[i].rollback_next_ptr = q.rollback_next_ptr
        /\ r[i].ts = q.ts /\ r[i].init_ts = q.init_ts
        /\ r[i].next = n /\ r[i].prev = p
    BY <2>1, <2>3, <2>4 DEF BufferType
  <2>6. QED BY <2>5 DEF q, n, p
<1>3. DOMAIN r = Buffer /\ r = [i \in Buffer |-> r[i]]
  BY <1>1 DEF Relinked
<1> HIDE DEF r
<1>4. r \in [Buffer -> BufferType]
  BY <1>2, <1>3
<1>5. QED BY <1>2, <1>4 DEF r, AreRelinked

LEMMA InFrontOfReusable ==
  ASSUME NEW m \in Manager, NEW a \in Buffer, NEW b \in Buffer
  PROVE  PutInFront(m, "reusable", a, b) =
           [m EXCEPT !.reusable = a, !.buf = Relinked(m.buf, a, b, m.reusable)]
<1>1. m["reusable"] = m.reusable
  BY DEF Manager
<1>2. QED BY <1>1 DEF PutInFront, Relinked

LEMMA InFrontOfLogical ==
  ASSUME NEW m \in Manager, NEW a \in Buffer, NEW b \in Buffer
  PROVE  PutInFront(m, "freed_logically", a, b) =
           [m EXCEPT !.freed_logically = a, !.buf = Relinked(m.buf, a, b, m.freed_logically)]
<1>1. m["freed_logically"] = m.freed_logically
  BY DEF Manager
<1>2. QED BY <1>1 DEF PutInFront, Relinked

\* A manager whose buffers or lists are changed.
LEMMA ManagerWith ==
  ASSUME NEW m \in Manager, NEW buf \in [Buffer -> BufferType], NEW r, r = [m EXCEPT !.buf = buf]
  PROVE  r \in Manager /\ r.buf = buf
  BY DEF Manager

----------------------------------------------------------------------------
(* A manager that is in order *)

\* The transaction's buffers of frees are the list T, from freed_in_tx_old to
\* freed_in_tx; all but the last are full.  At the start of the first are the
\* frees of earlier transactions that did not fill it.
FreesInOrder(m, T, n) ==
  /\ Listed(m.buf, T, n) /\ n > 0 /\ m.freed_in_tx_old = T[1] /\ m.freed_in_tx = T[n]
  /\ n > 1 => m.buf[T[n]].next = NULL
  /\ \A i \in 1 .. n - 1 : m.buf[T[i + 1]].prev = T[i] /\ Len(m.buf[T[i]].ptrs) = Size
  /\ Len(m.buf[T[n]].ptrs) < Size
  /\ m.buf[T[1]].rollback_next_ptr <= Len(m.buf[T[1]].ptrs)
  /\ m.buf[T[1]].rollback_next_ptr < Size
  /\ \A i \in 2 .. n : m.buf[T[i]].rollback_next_ptr = 0
  /\ \A i \in 1 .. n : ~ m.buf[T[i]].init_ts

\* The full buffers that committed are the list L, from freed_logically; their
\* timestamps do not rise.
LogicalInOrder(m, L, k) ==
  /\ Listed(m.buf, L, k) /\ Ends(m.buf, L, k)
  /\ m.freed_logically = (IF k = 0 THEN NULL ELSE L[1])
  /\ k > 0 => m.buf[L[1]].prev = NULL
  /\ \A i \in 1 .. k - 1 : m.buf[L[i + 1]].prev = L[i]
  /\ \A i \in 1 .. k : Len(m.buf[L[i]].ptrs) <= Size
  /\ \A i, j \in 1 .. k : i <= j /\ m.buf[L[i]].init_ts /\ m.buf[L[j]].init_ts
                            => m.buf[L[j]].ts <= m.buf[L[i]].ts

\* The clean buffers R are linked to each other only, each from one at most,
\* the first from none.
ReusableInOrder(m, R) ==
  /\ m.reusable \in R \cup {NULL}
  /\ \A i \in R : m.buf[i].next \in R \cup {NULL} /\ m.buf[i].next \notin {m.reusable} \ {NULL}
  /\ \A i, j \in R : m.buf[i].next = m.buf[j].next /\ m.buf[i].next # NULL => i = j

\* The lists have nothing in common, nor the buffer for allocations, and
\* hold only what was allocated.
Apart(m, T, n, L, k, R) ==
  /\ R \subseteq (1 .. m.allocated) \ {2}
  /\ \A i \in 1 .. n : T[i] <= m.allocated /\ T[i] # 2 /\ T[i] \notin R
  /\ \A i \in 1 .. k : L[i] <= m.allocated /\ L[i] # 2 /\ L[i] \notin R
  /\ \A i \in 1 .. n, j \in 1 .. k : T[i] # L[j]
  /\ \A i \in Buffer : i > m.allocated => m.buf[i] = CleanBuffer

\* One buffer is enough for what a transaction allocates.
AllocsInOrder(m) ==
  /\ m.buf[2].next = NULL /\ Len(m.buf[2].ptrs) <= MaxAlloc
  /\ \A i, j \in DOMAIN m.buf[2].ptrs : m.buf[2].ptrs[i] = m.buf[2].ptrs[j] => i = j

Orderly(m, T, n, L, k, R) ==
  /\ m \in Manager /\ FreesInOrder(m, T, n) /\ LogicalInOrder(m, L, k) /\ ReusableInOrder(m, R)
  /\ Apart(m, T, n, L, k, R) /\ AllocsInOrder(m)

InOrder(m) == \E T, n, L, k, R : Orderly(m, T, n, L, k, R)

----------------------------------------------------------------------------
(* What can be seen of a manager *)

TxLog(m) == Log(m, "freed_in_tx_old", "freed_in_tx")
Stored(m) == Chain(m, m.freed_logically)

\* The places of the pointers to free, and what is there.
Slots(m) == {s \in (TxLog(m) \cup Stored(m)) \X (1 .. Size) : s[2] \in DOMAIN m.buf[s[1]].ptrs}
Ptr(m, s) == m.buf[s[1]].ptrs[s[2]]

\* Those that the transaction has logged.
NowSlots(m) ==
  {s \in TxLog(m) \X (1 .. Size) :
     /\ s[2] \in DOMAIN m.buf[s[1]].ptrs
     /\ s[1] = m.freed_in_tx_old => s[2] > m.buf[s[1]].rollback_next_ptr}

Stamped(m, x) == \E i \in Stored(m) : m.buf[i].init_ts /\ m.buf[i].ts = x

\* A minimum of x or later frees the pointer at s.
Under(m, x, s) ==
  /\ s \in Slots(m)
  /\ \E i \in Stored(m) : m.buf[i].init_ts /\ m.buf[i].ts = x /\ s[1] \in Chain(m, i)

\* The transaction has filled a buffer.
Chained(m) == m.freed_in_tx_old # m.freed_in_tx

----------------------------------------------------------------------------
(* The lists as they are seen *)

LEMMA OrderlyFields ==
  ASSUME NEW m, NEW T, NEW n, NEW L, NEW k, NEW R, Orderly(m, T, n, L, k, R)
  PROVE  /\ m \in Manager /\ n \in Nat \ {0} /\ k \in Nat
         /\ T \in [1 .. n -> Buffer] /\ L \in [1 .. k -> Buffer] /\ R \subseteq Buffer
         /\ 1 \in 1 .. n /\ n \in 1 .. n
<1>1. m \in Manager /\ n \in Nat \ {0} /\ k \in Nat
      /\ T \in [1 .. n -> Buffer] /\ L \in [1 .. k -> Buffer]
  BY DEF Orderly, FreesInOrder, LogicalInOrder, Listed
<1>2. R \subseteq (1 .. m.allocated) /\ m.allocated \in 2 .. Buffers
  BY <1>1, ManagerFields DEF Orderly, Apart
<1>3. R \subseteq Buffer
  BY <1>2, TwoIsBuffer DEF Buffer
<1>4. QED BY <1>1, <1>3

LEMMA StoredFrom ==
  ASSUME NEW m, NEW T, NEW n, NEW L, NEW k, NEW R, Orderly(m, T, n, L, k, R)
  PROVE  /\ Stored(m) = From(L, 1, k)
         /\ \A a \in 1 .. k : Chain(m, L[a]) = From(L, a, k)
<1>1. Listed(m.buf, L, k) /\ Ends(m.buf, L, k) /\ k \in Nat
  BY DEF Orderly, LogicalInOrder, Listed
<1>2. \A a \in 1 .. k : Chain(m, L[a]) = From(L, a, k)
  BY <1>1, ChainOf
<1>3. CASE k = 0
  <2>1. m.freed_logically = NULL
    BY <1>3 DEF Orderly, LogicalInOrder
  <2>2. Stored(m) = {}
    BY <2>1, ChainOfNull DEF Stored
  <2>3. QED BY <1>2, <1>3, <2>2 DEF From
<1>4. CASE k > 0
  <2>1. m.freed_logically = L[1] /\ 1 \in 1 .. k
    BY <1>1, <1>4 DEF Orderly, LogicalInOrder
  <2>2. QED BY <1>2, <2>1 DEF Stored
<1>5. QED BY <1>1, <1>3, <1>4

LEMMA TxLogFrom ==
  ASSUME NEW m, NEW T, NEW n, NEW L, NEW k, NEW R, Orderly(m, T, n, L, k, R)
  PROVE  /\ TxLog(m) = From(T, 1, n)
         /\ Chained(m) <=> n > 1
<1>1. /\ Listed(m.buf, T, n) /\ n \in Nat \ {0} /\ m.freed_in_tx_old = T[1] /\ m.freed_in_tx = T[n]
      /\ (n > 1 => m.buf[T[n]].next = NULL) /\ m \in Manager
  BY DEF Orderly, FreesInOrder, Listed
<1>2. m["freed_in_tx_old"] = m.freed_in_tx_old /\ m["freed_in_tx"] = m.freed_in_tx
  BY <1>1 DEF Manager
<1>3. TxLog(m) = IF T[1] = T[n] THEN {T[n]} ELSE Chain(m, T[1])
  BY <1>1, <1>2 DEF TxLog, Log
<1>4. T[1] = T[n] <=> n = 1
  BY <1>1 DEF Listed
<1>5. CASE n = 1
  BY <1>1, <1>3, <1>4, <1>5 DEF Chained, From
<1>6. CASE n > 1
  <2>1. Ends(m.buf, T, n) /\ 1 \in 1 .. n
    BY <1>1, <1>6 DEF Ends
  <2>2. \A a \in 1 .. n : Chain(m, T[a]) = From(T, a, n)
    <3>1. Listed(m.buf, T, n)
      BY <1>1
    <3>2. QED BY <2>1, <3>1, ChainOf
  <2>3. TxLog(m) = From(T, 1, n)
    BY <1>1, <1>3, <1>4, <1>6, <2>1, <2>2
  <2>4. Chained(m)
    BY <1>1, <1>4, <1>6 DEF Chained
  <2>5. QED BY <1>6, <2>3, <2>4
<1>7. QED BY <1>1, <1>5, <1>6

\* The places, by the lists.
SlotsBy(m, T, n, L, k) ==
  {s \in (From(T, 1, n) \cup From(L, 1, k)) \X (1 .. Size) : s[2] \in DOMAIN m.buf[s[1]].ptrs}
NowBy(m, T, n) ==
  {s \in From(T, 1, n) \X (1 .. Size) :
     /\ s[2] \in DOMAIN m.buf[s[1]].ptrs
     /\ s[1] = T[1] => s[2] > m.buf[s[1]].rollback_next_ptr}

LEMMA SlotsFrom ==
  ASSUME NEW m, NEW T, NEW n, NEW L, NEW k, NEW R, Orderly(m, T, n, L, k, R)
  PROVE  Slots(m) = SlotsBy(m, T, n, L, k) /\ NowSlots(m) = NowBy(m, T, n)
<1>1. TxLog(m) = From(T, 1, n) /\ Stored(m) = From(L, 1, k)
  BY StoredFrom, TxLogFrom
<1>2. m.freed_in_tx_old = T[1]
  BY DEF Orderly, FreesInOrder
<1>3. QED BY <1>1, <1>2 DEF Slots, NowSlots, SlotsBy, NowBy

StampedBy(m, L, k, x) == \E a \in 1 .. k : m.buf[L[a]].init_ts /\ m.buf[L[a]].ts = x
UnderBy(m, L, k, x, s) ==
  \E a \in 1 .. k : \E b \in a .. k : m.buf[L[a]].init_ts /\ m.buf[L[a]].ts = x /\ s[1] = L[b]

LEMMA StampedFrom ==
  ASSUME NEW m, NEW T, NEW n, NEW L, NEW k, NEW R, Orderly(m, T, n, L, k, R), NEW x
  PROVE  /\ Stamped(m, x) <=> StampedBy(m, L, k, x)
         /\ \A s : Under(m, x, s) <=> s \in Slots(m) /\ UnderBy(m, L, k, x, s)
<1>1. /\ Stored(m) = From(L, 1, k)
      /\ \A a \in 1 .. k : Chain(m, L[a]) = From(L, a, k)
  BY StoredFrom
<1>2. Stamped(m, x) <=> \E a \in 1 .. k : m.buf[L[a]].init_ts /\ m.buf[L[a]].ts = x
  BY <1>1 DEF Stamped, From
<1>3. ASSUME NEW s
      PROVE  Under(m, x, s) <=>
              /\ s \in Slots(m)
              /\ \E a \in 1 .. k : \E b \in a .. k :
                   m.buf[L[a]].init_ts /\ m.buf[L[a]].ts = x /\ s[1] = L[b]
  <2>1. ASSUME Under(m, x, s)
        PROVE  s \in Slots(m) /\ \E a \in 1 .. k : \E b \in a .. k :
                 m.buf[L[a]].init_ts /\ m.buf[L[a]].ts = x /\ s[1] = L[b]
    <3>1. PICK i \in Stored(m) : m.buf[i].init_ts /\ m.buf[i].ts = x /\ s[1] \in Chain(m, i)
      BY <2>1 DEF Under
    <3>2. PICK a \in 1 .. k : i = L[a]
      BY <1>1, <3>1 DEF From
    <3>3. PICK b \in a .. k : s[1] = L[b]
      BY <1>1, <3>1, <3>2 DEF From
    <3>4. QED BY <2>1, <3>1, <3>2, <3>3 DEF Under
  <2>2. ASSUME s \in Slots(m), NEW a \in 1 .. k, NEW b \in a .. k,
               m.buf[L[a]].init_ts, m.buf[L[a]].ts = x, s[1] = L[b]
        PROVE  Under(m, x, s)
    <3>1. L[a] \in Stored(m) /\ s[1] \in Chain(m, L[a])
      BY <1>1, <2>2 DEF From
    <3>2. QED BY <2>2, <3>1 DEF Under
  <2>3. QED BY <2>1, <2>2
<1>4. QED BY <1>2, <1>3 DEF StampedBy, UnderBy

\* What was logged now is not stored yet.
LEMMA NowIsNotUnder ==
  ASSUME NEW m, InOrder(m)
  PROVE  NowSlots(m) \subseteq Slots(m) /\ \A x : \A s \in NowSlots(m) : ~ Under(m, x, s)
<1>1. PICK T, n, L, k, R : Orderly(m, T, n, L, k, R)
  BY DEF InOrder
<1>2. NowSlots(m) \subseteq Slots(m)
  BY DEF NowSlots, Slots
<1>3. ASSUME NEW x, NEW s \in NowSlots(m), Under(m, x, s) PROVE FALSE
  <2>1. PICK i \in 1 .. n : s[1] = T[i]
    BY <1>1, TxLogFrom DEF NowSlots, From
  <2>2. PICK a \in 1 .. k : \E b \in a .. k : s[1] = L[b]
    BY <1>1, <1>3, StampedFrom DEF UnderBy
  <2>3. PICK b \in 1 .. k : s[1] = L[b]
    BY <2>2, <1>1, OrderlyFields
  <2>4. QED BY <1>1, <2>1, <2>3 DEF Orderly, Apart
<1>4. QED BY <1>2, <1>3

----------------------------------------------------------------------------
(* TxMalloc *)

\* The frees that two managers know are the same.
SameFrees(m, r) ==
  /\ Slots(r) = Slots(m) /\ NowSlots(r) = NowSlots(m)
  /\ \A s \in Slots(m) : Ptr(r, s) = Ptr(m, s)
  /\ \A x : Stamped(r, x) <=> Stamped(m, x)
  /\ \A x, s : Under(r, x, s) <=> Under(m, x, s)

\* A buffer's pointers are changed.
WithPtrs(m, i, q) == [m EXCEPT !.buf[i].ptrs = q]
PtrsChanged(m, i, q, r) ==
  /\ r \in Manager
  /\ r.freed_in_tx = m.freed_in_tx /\ r.freed_in_tx_old = m.freed_in_tx_old
  /\ r.alloced_in_tx = m.alloced_in_tx /\ r.alloced_in_tx_old = m.alloced_in_tx_old
  /\ r.freed_logically = m.freed_logically /\ r.reusable = m.reusable
  /\ r.allocated = m.allocated /\ r.last_minimum_ts = m.last_minimum_ts
  /\ r.buf = [m.buf EXCEPT ![i] = [m.buf[i] EXCEPT !.ptrs = q]]
  /\ r.buf[i] = [m.buf[i] EXCEPT !.ptrs = q]
  /\ r.buf[i].ptrs = q /\ r.buf[i].rollback_next_ptr = m.buf[i].rollback_next_ptr
  /\ r.buf[i].ts = m.buf[i].ts /\ r.buf[i].init_ts = m.buf[i].init_ts
  /\ r.buf[i].next = m.buf[i].next /\ r.buf[i].prev = m.buf[i].prev
  /\ \A j \in Buffer \ {i} : r.buf[j] = m.buf[j]

LEMMA PtrsWith ==
  ASSUME NEW m \in Manager, NEW i \in Buffer, NEW q \in Seq(Block), NEW r, r = WithPtrs(m, i, q)
  PROVE  PtrsChanged(m, i, q, r)
<1> DEFINE old == m.buf[i]
           new == [m.buf[i] EXCEPT !.ptrs = q]
           buf == [m.buf EXCEPT ![i] = new]
<1>1. m.buf \in [Buffer -> BufferType] /\ old \in BufferType
  BY ManagerFields
<1>2. /\ new \in BufferType
      /\ new.ptrs = q /\ new.rollback_next_ptr = old.rollback_next_ptr
      /\ new.ts = old.ts /\ new.init_ts = old.init_ts
      /\ new.next = old.next /\ new.prev = old.prev
  <2> HIDE DEF old
  <2>1. QED BY <1>1 DEF BufferType, old
<1>3. r = [m EXCEPT !.buf = buf]
  BY DEF WithPtrs
<1> HIDE DEF new
<1>4. buf \in [Buffer -> BufferType] /\ buf[i] = new /\ \A j \in Buffer \ {i} : buf[j] = m.buf[j]
  BY <1>1, <1>2
<1> HIDE DEF buf
<1>5. r \in Manager /\ r.buf = buf
  BY <1>3, <1>4, ManagerWith
<1>6. /\ r.freed_in_tx = m.freed_in_tx /\ r.freed_in_tx_old = m.freed_in_tx_old
      /\ r.alloced_in_tx = m.alloced_in_tx /\ r.alloced_in_tx_old = m.alloced_in_tx_old
      /\ r.freed_logically = m.freed_logically /\ r.reusable = m.reusable
      /\ r.allocated = m.allocated /\ r.last_minimum_ts = m.last_minimum_ts
  BY <1>3 DEF Manager
<1>7. QED BY <1>2, <1>4, <1>5, <1>6 DEF new, old, buf, PtrsChanged

\* Only the buffer of the allocations has changed.
LEMMA AllocFrame ==
  ASSUME NEW m, NEW T, NEW n, NEW L, NEW k, NEW R, Orderly(m, T, n, L, k, R),
         NEW r \in Manager, AllocsInOrder(r),
         r.freed_in_tx = m.freed_in_tx, r.freed_in_tx_old = m.freed_in_tx_old,
         r.freed_logically = m.freed_logically, r.reusable = m.reusable,
         r.allocated = m.allocated, \A j \in Buffer \ {2} : r.buf[j] = m.buf[j]
  PROVE  Orderly(r, T, n, L, k, R) /\ SameFrees(m, r)
<1>1. /\ \A i \in 1 .. n : T[i] \in Buffer \ {2}
      /\ \A i \in 1 .. k : L[i] \in Buffer \ {2}
      /\ \A i \in R : i \in Buffer \ {2}
  BY OrderlyFields DEF Orderly, Apart
<1>2. /\ \A i \in 1 .. n : r.buf[T[i]] = m.buf[T[i]]
      /\ \A i \in 1 .. k : r.buf[L[i]] = m.buf[L[i]]
      /\ \A i \in R : r.buf[i] = m.buf[i]
  BY <1>1
<1>3. n \in Nat \ {0} /\ k \in Nat /\ m.allocated \in 2 .. Buffers
  BY OrderlyFields, ManagerFields
<1>4. Listed(r.buf, T, n)
  <2>1. Listed(m.buf, T, n)
    BY DEF Orderly, FreesInOrder
  <2>2. \A i \in 1 .. n - 1 : i \in 1 .. n
    BY <1>3
  <2>3. QED BY <1>2, <2>1, <2>2 DEF Listed
<1>5. FreesInOrder(r, T, n)
  <2>1. \A i \in 1 .. n - 1 : i \in 1 .. n /\ i + 1 \in 1 .. n
    BY <1>3
  <2>2. 1 \in 1 .. n /\ n \in 1 .. n /\ \A i \in 2 .. n : i \in 1 .. n
    BY <1>3
  <2>3. FreesInOrder(m, T, n)
    BY DEF Orderly
  <2>4. QED BY <1>2, <1>4, <2>1, <2>2, <2>3 DEF FreesInOrder
<1>6. Listed(r.buf, L, k) /\ Ends(r.buf, L, k)
  <2>1. Listed(m.buf, L, k) /\ Ends(m.buf, L, k)
    BY DEF Orderly, LogicalInOrder
  <2>2. \A i \in 1 .. k - 1 : i \in 1 .. k
    BY <1>3
  <2>3. k > 0 => k \in 1 .. k
    BY <1>3
  <2>4. QED BY <1>2, <2>1, <2>2, <2>3 DEF Listed, Ends
<1>7. LogicalInOrder(r, L, k)
  <2>1. \A i \in 1 .. k - 1 : i \in 1 .. k /\ i + 1 \in 1 .. k
    BY <1>3
  <2>2. k > 0 => 1 \in 1 .. k
    BY <1>3
  <2>3. LogicalInOrder(m, L, k)
    BY DEF Orderly
  <2>4. QED BY <1>2, <1>6, <2>1, <2>2, <2>3 DEF LogicalInOrder
<1>8. ReusableInOrder(r, R)
  BY <1>2 DEF Orderly, ReusableInOrder
<1>9. Apart(r, T, n, L, k, R)
  <2>1. Apart(m, T, n, L, k, R)
    BY DEF Orderly
  <2>2. \A i \in Buffer : i > m.allocated => i \in Buffer \ {2}
    BY <1>3 DEF Buffer
  <2>3. QED BY <2>1, <2>2 DEF Apart
<1>10. Orderly(r, T, n, L, k, R)
  BY <1>5, <1>7, <1>8, <1>9 DEF Orderly
<1>11. SlotsBy(r, T, n, L, k) = SlotsBy(m, T, n, L, k) /\ NowBy(r, T, n) = NowBy(m, T, n)
       /\ \A s \in SlotsBy(m, T, n, L, k) : Ptr(r, s) = Ptr(m, s)
  <2>1. \A i \in From(T, 1, n) \cup From(L, 1, k) : r.buf[i] = m.buf[i]
    BY <1>2 DEF From
  <2>2. QED BY <2>1 DEF SlotsBy, NowBy, Ptr
<1>12. Slots(r) = Slots(m) /\ NowSlots(r) = NowSlots(m) /\ \A s \in Slots(m) : Ptr(r, s) = Ptr(m, s)
  <2>1. Slots(r) = SlotsBy(r, T, n, L, k) /\ NowSlots(r) = NowBy(r, T, n)
    BY <1>10, SlotsFrom
  <2>2. Slots(m) = SlotsBy(m, T, n, L, k) /\ NowSlots(m) = NowBy(m, T, n)
    BY SlotsFrom
  <2>3. QED BY <1>11, <2>1, <2>2
<1>13. ASSUME NEW x PROVE (Stamped(r, x) <=> Stamped(m, x)) /\ \A s : Under(r, x, s) <=> Under(m, x, s)
  <2>1. StampedBy(r, L, k, x) <=> StampedBy(m, L, k, x)
    BY <1>2 DEF StampedBy
  <2>2. ASSUME NEW s PROVE UnderBy(r, L, k, x, s) <=> UnderBy(m, L, k, x, s)
    BY <1>2 DEF UnderBy
  <2>3. QED BY <1>10, <1>12, <2>1, <2>2, StampedFrom
<1>14. QED BY <1>10, <1>12, <1>13 DEF SameFrees

\* A pointer is logged behind those that there are.
LEMMA AppendIs ==
  ASSUME NEW q \in Seq(Block), NEW b \in Block
  PROVE  /\ Append(q, b) \in Seq(Block) /\ Len(Append(q, b)) = Len(q) + 1 /\ Len(q) \in Nat
         /\ DOMAIN q = 1 .. Len(q) /\ DOMAIN Append(q, b) = 1 .. Len(q) + 1
         /\ Append(q, b)[Len(q) + 1] = b
         /\ \A i \in 1 .. Len(q) : Append(q, b)[i] = q[i]
  OBVIOUS

LEMMA MallocM ==
  ASSUME NEW m, InOrder(m), NEW b \in Block, b \notin Pointers(m, 2),
         Len(m.buf[2].ptrs) < MaxAlloc, MaxAlloc < Size, NEW r,
         r = Remember(m, "alloced_in_tx", b)
  PROVE  /\ InOrder(r) /\ SameFrees(m, r)
         /\ Pointers(r, 2) = Pointers(m, 2) \cup {b}
         /\ Len(r.buf[2].ptrs) = Len(m.buf[2].ptrs) + 1
<1>1. PICK T, n, L, k, R : Orderly(m, T, n, L, k, R)
  BY DEF InOrder
<1>2. m \in Manager /\ m.alloced_in_tx = 2 /\ m["alloced_in_tx"] = m.alloced_in_tx
  <2>1. m \in Manager
    BY <1>1 DEF Orderly
  <2>2. QED BY <2>1 DEF Manager
<1> DEFINE q == m.buf[2].ptrs
<1>3. q \in Seq(Block) /\ 2 \in Buffer
  BY <1>2, BufferFields, TwoIsBuffer
<1> DEFINE w == WithPtrs(m, 2, Append(q, b))
<1>4. /\ Append(q, b) \in Seq(Block) /\ Len(Append(q, b)) = Len(q) + 1 /\ Len(q) \in Nat
      /\ DOMAIN q = 1 .. Len(q) /\ DOMAIN Append(q, b) = 1 .. Len(q) + 1
      /\ Append(q, b)[Len(q) + 1] = b
      /\ \A i \in 1 .. Len(q) : Append(q, b)[i] = q[i]
  <2> HIDE DEF q
  <2>1. QED BY <1>3, AppendIs
<1>5. /\ w \in Manager
      /\ w.freed_in_tx = m.freed_in_tx /\ w.freed_in_tx_old = m.freed_in_tx_old
      /\ w.freed_logically = m.freed_logically /\ w.reusable = m.reusable
      /\ w.allocated = m.allocated
      /\ w.buf[2].ptrs = Append(q, b) /\ w.buf[2].next = m.buf[2].next
      /\ \A j \in Buffer \ {2} : w.buf[j] = m.buf[j]
  <2> HIDE DEF q
  <2>1. w = WithPtrs(m, 2, Append(q, b)) /\ Append(q, b) \in Seq(Block) /\ m \in Manager
    BY <1>2, <1>4
  <2> HIDE DEF w
  <2>2. PtrsChanged(m, 2, Append(q, b), w)
    BY <1>3, <2>1, PtrsWith
  <2>3. QED BY <2>2 DEF PtrsChanged
<1>6. r = w
  <2>1. m[m.alloced_in_tx] = m[m.alloced_in_tx]
    OBVIOUS
  <2>2. Len(w.buf[2].ptrs) < Size
    <3>1. MaxAlloc \in Nat /\ Size \in Nat
      BY MemoryAssumption
    <3>2. Len(w.buf[2].ptrs) = Len(q) + 1
      BY <1>4, <1>5
    <3>3. Len(q) < MaxAlloc /\ MaxAlloc < Size /\ Len(q) \in Nat
      BY <1>4
    <3> HIDE DEF q, w
    <3>4. QED BY <3>1, <3>2, <3>3
  <2>3. [m EXCEPT !.buf[2].ptrs = Append(@, b)] = w
    BY DEF WithPtrs
  <2> HIDE DEF w
  <2>4. QED BY <1>2, <2>2, <2>3 DEF Remember
<1> HIDE DEF w
<1>7. \A i \in 1 .. Len(q) : q[i] # b
  BY <1>4 DEF Pointers
<1>8. AllocsInOrder(w)
  <2>1. AllocsInOrder(m)
    BY <1>1 DEF Orderly
  <2>2. w.buf[2].next = NULL /\ Len(w.buf[2].ptrs) <= MaxAlloc
    BY <1>4, <1>5, <2>1, MemoryAssumption DEF AllocsInOrder
  <2> HIDE DEF q
  <2>3. ASSUME NEW i \in 1 .. Len(q) + 1, NEW j \in 1 .. Len(q) + 1, Append(q, b)[i] = Append(q, b)[j]
        PROVE  i = j
    <3>1. CASE i \in 1 .. Len(q) /\ j \in 1 .. Len(q)
      BY <1>4, <2>1, <2>3, <3>1 DEF AllocsInOrder, q
    <3>2. CASE i = Len(q) + 1 \/ j = Len(q) + 1
      BY <1>4, <1>7, <2>3, <3>2
    <3>3. QED BY <1>4, <3>1, <3>2
  <2>4. QED BY <1>4, <1>5, <2>2, <2>3 DEF AllocsInOrder
<1>9. Orderly(w, T, n, L, k, R) /\ SameFrees(m, w)
  BY <1>1, <1>5, <1>8, AllocFrame
<1>10. Pointers(w, 2) = Pointers(m, 2) \cup {b}
  <2> HIDE DEF q
  <2>1. Pointers(w, 2) = {Append(q, b)[i] : i \in 1 .. Len(q) + 1}
    BY <1>4, <1>5 DEF Pointers
  <2>2. Pointers(m, 2) = {q[i] : i \in 1 .. Len(q)}
    BY <1>4 DEF Pointers, q
  <2>3. ASSUME NEW x \in Pointers(w, 2) PROVE x \in Pointers(m, 2) \cup {b}
    BY <1>4, <2>1, <2>2
  <2>4. ASSUME NEW x \in Pointers(m, 2) \cup {b} PROVE x \in Pointers(w, 2)
    <3>1. CASE x = b
      <4>1. Len(q) + 1 \in 1 .. Len(q) + 1
        BY <1>4
      <4>2. QED BY <1>4, <2>1, <3>1, <4>1
    <3>2. CASE x \in Pointers(m, 2)
      <4>1. PICK i \in 1 .. Len(q) : x = q[i]
        BY <2>2, <3>2
      <4>2. i \in 1 .. Len(q) + 1 /\ x = Append(q, b)[i]
        BY <1>4, <4>1
      <4>3. QED BY <2>1, <4>2
    <3>3. QED BY <2>4, <3>1, <3>2
  <2>5. QED BY <2>3, <2>4
<1>11. InOrder(w)
  BY <1>9 DEF InOrder
<1>12. QED BY <1>4, <1>5, <1>6, <1>9, <1>10, <1>11

----------------------------------------------------------------------------
(* TxFree *)

\* One more place, for the pointer b.
OneMoreFree(m, r, b) ==
  \E new :
    /\ new \notin Slots(m)
    /\ Slots(r) = Slots(m) \cup {new} /\ NowSlots(r) = NowSlots(m) \cup {new}
    /\ Ptr(r, new) = b /\ \A s \in Slots(m) : Ptr(r, s) = Ptr(m, s)
    /\ \A x : Stamped(r, x) <=> Stamped(m, x)
    /\ \A x, s : Under(r, x, s) <=> Under(m, x, s)

\* The lists of r are those of m, with b behind the last pointer of T, and with
\* an empty buffer behind the last of T or without.
Logged(m, r, b, T, n, S, l, L, k) ==
  /\ l \in {n, n + 1} /\ \A i \in 1 .. n : S[i] = T[i]
  /\ l = n + 1 => r.buf[S[l]].ptrs = <<>>
  /\ \A i \in 1 .. n - 1 : r.buf[T[i]].ptrs = m.buf[T[i]].ptrs
  /\ r.buf[T[n]].ptrs = Append(m.buf[T[n]].ptrs, b)
  /\ \A i \in 1 .. n : r.buf[T[i]].rollback_next_ptr = m.buf[T[i]].rollback_next_ptr
  /\ \A i \in 1 .. k : /\ r.buf[L[i]].ptrs = m.buf[L[i]].ptrs
                       /\ r.buf[L[i]].ts = m.buf[L[i]].ts /\ r.buf[L[i]].init_ts = m.buf[L[i]].init_ts

\* The stamped buffers are the same.
LEMMA SameStamps ==
  ASSUME NEW m, NEW T, NEW n, NEW L, NEW k, NEW R, Orderly(m, T, n, L, k, R),
         NEW r, NEW S, NEW l, NEW Q, Orderly(r, S, l, L, k, Q),
         \A i \in 1 .. k : r.buf[L[i]].ts = m.buf[L[i]].ts /\ r.buf[L[i]].init_ts = m.buf[L[i]].init_ts,
         NEW x
  PROVE  /\ Stamped(r, x) <=> Stamped(m, x)
         /\ \A s : s \in Slots(r) /\ s \in Slots(m) => (Under(r, x, s) <=> Under(m, x, s))
<1>1. StampedBy(r, L, k, x) <=> StampedBy(m, L, k, x)
  BY DEF StampedBy
<1>2. ASSUME NEW s PROVE UnderBy(r, L, k, x, s) <=> UnderBy(m, L, k, x, s)
  <2>1. k \in Nat
    BY OrderlyFields
  <2>2. QED BY <2>1 DEF UnderBy
<1>3. /\ Stamped(r, x) <=> StampedBy(r, L, k, x)
      /\ \A s : Under(r, x, s) <=> s \in Slots(r) /\ UnderBy(r, L, k, x, s)
  BY StampedFrom
<1>4. /\ Stamped(m, x) <=> StampedBy(m, L, k, x)
      /\ \A s : Under(m, x, s) <=> s \in Slots(m) /\ UnderBy(m, L, k, x, s)
  BY StampedFrom
<1>5. QED BY <1>1, <1>2, <1>3, <1>4

LEMMA LoggedSeen ==
  ASSUME NEW m, NEW T, NEW n, NEW L, NEW k, NEW R, Orderly(m, T, n, L, k, R),
         NEW r, NEW S, NEW l, NEW Q, Orderly(r, S, l, L, k, Q),
         NEW b \in Block, Logged(m, r, b, T, n, S, l, L, k)
  PROVE  OneMoreFree(m, r, b)
<1> DEFINE F == T[n]
           q == m.buf[F].ptrs
           new == <<F, Len(q) + 1>>
<1>1. /\ m \in Manager /\ r \in Manager /\ n \in Nat \ {0} /\ k \in Nat /\ l \in Nat \ {0}
      /\ T \in [1 .. n -> Buffer] /\ L \in [1 .. k -> Buffer] /\ S \in [1 .. l -> Buffer]
      /\ 1 \in 1 .. n /\ n \in 1 .. n
  BY OrderlyFields
<1>2. F \in Buffer /\ q \in Seq(Block) /\ Len(q) < Size /\ Size \in Nat
  <2>1. F \in Buffer
    BY <1>1
  <2>2. q \in Seq(Block)
    BY <1>1, <2>1, BufferFields
  <2>3. Len(q) < Size
    BY DEF Orderly, FreesInOrder
  <2>4. QED BY <2>1, <2>2, <2>3, TwoIsBuffer
<1>3. /\ Append(q, b) \in Seq(Block) /\ Len(Append(q, b)) = Len(q) + 1 /\ Len(q) \in Nat
      /\ DOMAIN q = 1 .. Len(q) /\ DOMAIN Append(q, b) = 1 .. Len(q) + 1
      /\ Append(q, b)[Len(q) + 1] = b
      /\ \A i \in 1 .. Len(q) : Append(q, b)[i] = q[i]
  <2> HIDE DEF q
  <2>1. QED BY <1>2, AppendIs
<1>4. From(S, 1, l) = From(T, 1, n) \cup (IF l = n + 1 THEN {S[l]} ELSE {})
  <2>1. l \in {n, n + 1} /\ \A i \in 1 .. n : S[i] = T[i]
    BY DEF Logged
  <2>2. CASE l = n
    BY <1>1, <2>1, <2>2 DEF From
  <2>3. CASE l = n + 1
    <3>1. 1 .. l = (1 .. n) \cup {l}
      BY <1>1, <2>3
    <3>2. QED BY <2>1, <2>3, <3>1 DEF From
  <2>4. QED BY <2>1, <2>2, <2>3
<1>5. /\ \A i \in From(T, 1, n) : i # F => r.buf[i].ptrs = m.buf[i].ptrs
      /\ \A i \in From(T, 1, n) : r.buf[i].rollback_next_ptr = m.buf[i].rollback_next_ptr
      /\ \A i \in From(L, 1, k) : r.buf[i].ptrs = m.buf[i].ptrs /\ i # F
      /\ r.buf[F].ptrs = Append(q, b) /\ F \in From(T, 1, n) /\ S[1] = T[1]
      /\ l = n + 1 => r.buf[S[l]].ptrs = <<>>
  <2>1. \A i \in 1 .. n : T[i] # F => i \in 1 .. n - 1
    BY <1>1
  <2>2. \A i \in 1 .. n, j \in 1 .. k : T[i] # L[j]
    BY DEF Orderly, Apart
  <2>3. QED BY <1>1, <2>1, <2>2 DEF Logged, From
<1>6. m.buf[T[1]].rollback_next_ptr <= Len(m.buf[T[1]].ptrs) /\ m.buf[T[1]].rollback_next_ptr \in Nat
  BY <1>1, BufferFields DEF Orderly, FreesInOrder
<1> DEFINE A == From(T, 1, n) \cup From(L, 1, k)
<1>7. /\ Slots(m) = {s \in A \X (1 .. Size) : s[2] \in DOMAIN m.buf[s[1]].ptrs}
      /\ NowSlots(m) = {s \in From(T, 1, n) \X (1 .. Size) :
                          /\ s[2] \in DOMAIN m.buf[s[1]].ptrs
                          /\ s[1] = T[1] => s[2] > m.buf[s[1]].rollback_next_ptr}
  <2>1. Slots(m) = SlotsBy(m, T, n, L, k) /\ NowSlots(m) = NowBy(m, T, n)
    BY SlotsFrom
  <2>2. QED BY <2>1 DEF SlotsBy, NowBy
<1>8. /\ Slots(r) = {s \in (From(S, 1, l) \cup From(L, 1, k)) \X (1 .. Size) : s[2] \in DOMAIN r.buf[s[1]].ptrs}
      /\ NowSlots(r) = {s \in From(S, 1, l) \X (1 .. Size) :
                          /\ s[2] \in DOMAIN r.buf[s[1]].ptrs
                          /\ s[1] = S[1] => s[2] > r.buf[s[1]].rollback_next_ptr}
  <2>1. Slots(r) = SlotsBy(r, S, l, L, k) /\ NowSlots(r) = NowBy(r, S, l)
    BY SlotsFrom
  <2>2. QED BY <2>1 DEF SlotsBy, NowBy
<1> HIDE DEF F, q, A
<1>9. l = n + 1 => DOMAIN r.buf[S[l]].ptrs = {}
  <2> SUFFICES ASSUME l = n + 1 PROVE DOMAIN r.buf[S[l]].ptrs = {}
    OBVIOUS
  <2>1. r.buf[S[l]].ptrs = <<>>
    BY <1>5
  <2>2. QED BY <2>1
<1>10. /\ \A j : j \in DOMAIN r.buf[F].ptrs <=> j \in 1 .. Len(q) + 1
       /\ \A j : j \in DOMAIN m.buf[F].ptrs <=> j \in 1 .. Len(q)
       /\ \A j : j \in 1 .. Len(q) + 1 <=> j \in 1 .. Len(q) \/ j = Len(q) + 1
  <2>1. DOMAIN r.buf[F].ptrs = 1 .. Len(q) + 1
    <3>1. r.buf[F].ptrs = Append(q, b)
      BY <1>5
    <3>2. QED BY <1>3, <3>1
  <2>2. DOMAIN m.buf[F].ptrs = 1 .. Len(q)
    BY <1>3 DEF q
  <2>3. QED BY <1>3, <2>1, <2>2
<1>11. ASSUME NEW i \in From(S, 1, l), i \notin From(T, 1, n) PROVE DOMAIN r.buf[i].ptrs = {}
  <2>1. l = n + 1 /\ i = S[l]
    BY <1>11, <1>4
  <2>2. DOMAIN r.buf[S[l]].ptrs = {}
    BY <1>9, <2>1
  <2>3. QED BY <2>1, <2>2
<1>12. ASSUME NEW i, NEW j PROVE <<i, j>> \in Slots(r) <=> <<i, j>> \in Slots(m) \/ (i = F /\ j = Len(q) + 1)
  <2>1. <<i, j>> \in Slots(r) <=>
          i \in From(S, 1, l) \cup From(L, 1, k) /\ j \in 1 .. Size /\ j \in DOMAIN r.buf[i].ptrs
    BY <1>8
  <2>2. <<i, j>> \in Slots(m) <=> i \in A /\ j \in 1 .. Size /\ j \in DOMAIN m.buf[i].ptrs
    BY <1>7
  <2>3. i \in From(S, 1, l) /\ i \notin A => DOMAIN r.buf[i].ptrs = {}
    BY <1>11 DEF A
  <2>4. i \in A /\ i # F => r.buf[i].ptrs = m.buf[i].ptrs
    BY <1>5 DEF A
  <2>5. i = F => (j \in DOMAIN r.buf[i].ptrs <=> j \in DOMAIN m.buf[i].ptrs \/ j = Len(q) + 1) /\ i \in A
    BY <1>5, <1>10 DEF A
  <2>6. Len(q) + 1 \in 1 .. Size
    BY <1>2, <1>3
  <2>7. A \subseteq From(S, 1, l) \cup From(L, 1, k)
    BY <1>4 DEF A
  <2>8. CASE i = F
    BY <2>1, <2>2, <2>5, <2>6, <2>7, <2>8
  <2>9. CASE i # F /\ i \in A
    BY <2>1, <2>2, <2>4, <2>7, <2>9
  <2>10. CASE i # F /\ i \notin A
    <3>1. <<i, j>> \notin Slots(m)
      BY <2>2, <2>10
    <3>2. i \notin From(L, 1, k)
      BY <2>10 DEF A
    <3>3. QED BY <2>1, <2>3, <2>10, <3>1, <3>2
  <2>11. QED BY <2>8, <2>9, <2>10
<1>13. ASSUME NEW i, NEW j PROVE <<i, j>> \in NowSlots(r) <=> <<i, j>> \in NowSlots(m) \/ (i = F /\ j = Len(q) + 1)
  <2>1. <<i, j>> \in NowSlots(r) <=>
          /\ i \in From(S, 1, l) /\ j \in 1 .. Size /\ j \in DOMAIN r.buf[i].ptrs
          /\ i = S[1] => j > r.buf[i].rollback_next_ptr
    BY <1>8
  <2>2. <<i, j>> \in NowSlots(m) <=>
          /\ i \in From(T, 1, n) /\ j \in 1 .. Size /\ j \in DOMAIN m.buf[i].ptrs
          /\ i = T[1] => j > m.buf[i].rollback_next_ptr
    BY <1>7
  <2>3. i \in From(S, 1, l) /\ i \notin From(T, 1, n) => DOMAIN r.buf[i].ptrs = {}
    BY <1>11
  <2>4. i \in From(T, 1, n) /\ i # F => r.buf[i].ptrs = m.buf[i].ptrs
    BY <1>5
  <2>5. i = F => (j \in DOMAIN r.buf[i].ptrs <=> j \in DOMAIN m.buf[i].ptrs \/ j = Len(q) + 1)
    BY <1>10
  <2>6. Len(q) + 1 \in 1 .. Size
    BY <1>2, <1>3
  <2>7. i \in From(T, 1, n) => r.buf[i].rollback_next_ptr = m.buf[i].rollback_next_ptr /\ i \in From(S, 1, l)
    BY <1>4, <1>5
  <2>8. F = T[1] => Len(q) + 1 > m.buf[F].rollback_next_ptr
    BY <1>3, <1>6 DEF q
  <2>9. QED BY <1>5, <2>1, <2>2, <2>3, <2>4, <2>5, <2>6, <2>7, <2>8
<1>14. Slots(m) \subseteq A \X (1 .. Size) /\ NowSlots(m) \subseteq A \X (1 .. Size)
       /\ \A s \in Slots(r) \cup NowSlots(r) : s = <<s[1], s[2]>>
  BY <1>7, <1>8 DEF A
<1>15. Slots(r) = Slots(m) \cup {new} /\ NowSlots(r) = NowSlots(m) \cup {new}
  <2>1. \A s \in Slots(m) \cup NowSlots(m) : s = <<s[1], s[2]>>
    BY <1>14
  <2>2. Slots(r) \subseteq Slots(m) \cup {new}
    <3> SUFFICES ASSUME NEW s \in Slots(r) PROVE s \in Slots(m) \cup {new}
      OBVIOUS
    <3>1. s = <<s[1], s[2]>>
      BY <1>14
    <3>2. QED BY <1>12, <3>1
  <2>3. NowSlots(r) \subseteq NowSlots(m) \cup {new}
    <3> SUFFICES ASSUME NEW s \in NowSlots(r) PROVE s \in NowSlots(m) \cup {new}
      OBVIOUS
    <3>1. s = <<s[1], s[2]>>
      BY <1>14
    <3>2. QED BY <1>13, <3>1
  <2>4. QED BY <1>12, <1>13, <2>1, <2>2, <2>3
<1>16. new \notin Slots(m)
  <2>1. Len(q) + 1 \notin DOMAIN m.buf[F].ptrs
    BY <1>3 DEF q
  <2>2. QED BY <1>7, <2>1
<1>17. Ptr(r, new) = b /\ \A s \in Slots(m) : Ptr(r, s) = Ptr(m, s)
  <2>1. Ptr(r, new) = b
    BY <1>3, <1>5 DEF Ptr
  <2>2. ASSUME NEW i \in A, NEW j \in DOMAIN m.buf[i].ptrs PROVE r.buf[i].ptrs[j] = m.buf[i].ptrs[j]
    <3>1. CASE i # F
      BY <1>5, <3>1 DEF A
    <3>2. CASE i = F
      BY <1>3, <1>5, <3>2 DEF q
    <3>3. QED BY <3>1, <3>2
  <2>3. QED BY <1>7, <2>1, <2>2 DEF Ptr
<1>18. ASSUME NEW x PROVE (Stamped(r, x) <=> Stamped(m, x)) /\ \A s : Under(r, x, s) <=> Under(m, x, s)
  <2>1. \A i \in 1 .. k : r.buf[L[i]].ts = m.buf[L[i]].ts /\ r.buf[L[i]].init_ts = m.buf[L[i]].init_ts
    BY DEF Logged
  <2>2. /\ Stamped(r, x) <=> Stamped(m, x)
        /\ \A s : s \in Slots(r) /\ s \in Slots(m) => (Under(r, x, s) <=> Under(m, x, s))
    BY <2>1, SameStamps
  <2>3. \A s : Under(m, x, s) => s \in Slots(m)
    BY DEF Under
  <2>4. \A s : Under(r, x, s) => s \in Slots(r)
    BY DEF Under
  <2>5. ~ Under(r, x, new)
    <3>1. InOrder(r)
      BY DEF InOrder
    <3>2. new \in NowSlots(r)
      BY <1>15
    <3>3. QED BY <3>1, <3>2, NowIsNotUnder
  <2>6. QED BY <1>15, <2>2, <2>3, <2>4, <2>5
<1> HIDE DEF new
<1>19. QED BY <1>15, <1>16, <1>17, <1>18 DEF OneMoreFree

\* A clean buffer c has been taken from m.
Taken(m, g, c) ==
  /\ g \in Manager /\ c \in Buffer
  /\ g.freed_in_tx = m.freed_in_tx /\ g.freed_in_tx_old = m.freed_in_tx_old
  /\ g.freed_logically = m.freed_logically
  /\ c = CleanPtrBuffer(m)
  /\ g.reusable = IF m.reusable = NULL THEN NULL ELSE m.buf[m.reusable].next
  /\ g.allocated = IF m.reusable = NULL THEN m.allocated + 1 ELSE m.allocated
  /\ g.buf[c] = CleanBuffer
  /\ \A i \in Buffer \ {c} :
       /\ g.buf[i].ptrs = m.buf[i].ptrs /\ g.buf[i].rollback_next_ptr = m.buf[i].rollback_next_ptr
       /\ g.buf[i].ts = m.buf[i].ts /\ g.buf[i].init_ts = m.buf[i].init_ts
       /\ g.buf[i].next = m.buf[i].next
       /\ g.buf[i].prev = m.buf[i].prev \/ (m.reusable # NULL /\ i = m.buf[m.reusable].next)

LEMMA CleanIsBuffer == CleanBuffer \in BufferType
<1>1. <<>> \in Seq(Block) /\ 0 \in Nat /\ FALSE \in BOOLEAN /\ 0 \in 0 .. Buffers
  BY TwoIsBuffer
<1>2. QED BY <1>1 DEF CleanBuffer, BufferType, NULL

LEMMA CleanTaken ==
  ASSUME NEW m \in Manager, m.reusable # NULL \/ m.allocated < Buffers,
         m.reusable = NULL => m.buf[m.allocated + 1] = CleanBuffer
  PROVE  Taken(m, GetCleanPtrBuffer(m), CleanPtrBuffer(m))
<1> DEFINE g == GetCleanPtrBuffer(m)
           c == CleanPtrBuffer(m)
<1>1. /\ m.freed_in_tx \in Buffer /\ m.freed_in_tx_old \in Buffer
      /\ m.freed_logically \in 0 .. Buffers /\ m.reusable \in 0 .. Buffers
      /\ m.allocated \in 2 .. Buffers /\ m.buf \in [Buffer -> BufferType]
      /\ Buffers \in Nat
  BY ManagerFields, TwoIsBuffer
<1>2. CASE m.reusable = NULL
  <2>1. g = [m EXCEPT !.allocated = m.allocated + 1] /\ c = m.allocated + 1
    BY <1>2 DEF GetCleanPtrBuffer, CleanPtrBuffer
  <2>2. m.allocated + 1 \in 2 .. Buffers /\ m.allocated + 1 \in Buffer
    BY <1>1, <1>2 DEF Buffer
  <2> HIDE DEF g, c
  <2>3. /\ g \in Manager /\ g.allocated = m.allocated + 1 /\ g.buf = m.buf
        /\ g.freed_in_tx = m.freed_in_tx /\ g.freed_in_tx_old = m.freed_in_tx_old
        /\ g.freed_logically = m.freed_logically /\ g.reusable = m.reusable
    BY <2>1, <2>2 DEF Manager
  <2>4. c \in Buffer /\ g.buf[c] = CleanBuffer
    BY <1>2, <2>1, <2>2, <2>3
  <2>5. QED BY <1>2, <2>1, <2>3, <2>4 DEF Taken, c, g
<1>3. CASE m.reusable # NULL
  <2> DEFINE taken == m.reusable
             next == m.buf[taken].next
             buf == [i \in DOMAIN m.buf |->
                      IF i = taken THEN CleanBuffer
                      ELSE [m.buf[i] EXCEPT !.prev = IF i = next THEN NULL ELSE @]]
  <2>1. g = [m EXCEPT !.reusable = next, !.buf = buf] /\ c = taken
    BY <1>3 DEF GetCleanPtrBuffer, CleanPtrBuffer
  <2>2. taken \in Buffer /\ DOMAIN m.buf = Buffer
    BY <1>1, <1>3, TwoIsBuffer DEF Buffer
  <2>3. next \in 0 .. Buffers
    BY <2>2, BufferFields
  <2>4. buf[taken] = CleanBuffer /\ DOMAIN buf = Buffer /\ buf = [i \in Buffer |-> buf[i]]
    BY <2>2
  <2>5. ASSUME NEW i \in Buffer, i # taken
        PROVE  /\ buf[i] \in BufferType
               /\ buf[i].ptrs = m.buf[i].ptrs /\ buf[i].rollback_next_ptr = m.buf[i].rollback_next_ptr
               /\ buf[i].ts = m.buf[i].ts /\ buf[i].init_ts = m.buf[i].init_ts
               /\ buf[i].next = m.buf[i].next
               /\ buf[i].prev = m.buf[i].prev \/ i = next
    <3> DEFINE q == m.buf[i]
               p == IF i = next THEN NULL ELSE m.buf[i].prev
    <3>1. q \in BufferType /\ q.prev \in 0 .. Buffers
      BY BufferFields
    <3>2. p \in 0 .. Buffers
      BY <3>1, TwoIsBuffer
    <3>3. buf[i] = [q EXCEPT !.prev = p]
      BY <2>2, <2>5
    <3> HIDE DEF buf, q, p
    <3>4. /\ buf[i] \in BufferType
          /\ buf[i].ptrs = q.ptrs /\ buf[i].rollback_next_ptr = q.rollback_next_ptr
          /\ buf[i].ts = q.ts /\ buf[i].init_ts = q.init_ts
          /\ buf[i].next = q.next /\ buf[i].prev = p
      BY <3>1, <3>2, <3>3 DEF BufferType
    <3>5. QED BY <3>4 DEF q, p
  <2> HIDE DEF buf
  <2>6. buf \in [Buffer -> BufferType]
    BY <2>4, <2>5, CleanIsBuffer
  <2> HIDE DEF g, c, next
  <2>7. /\ g \in Manager /\ g.allocated = m.allocated /\ g.buf = buf
        /\ g.freed_in_tx = m.freed_in_tx /\ g.freed_in_tx_old = m.freed_in_tx_old
        /\ g.freed_logically = m.freed_logically /\ g.reusable = next
    BY <2>1, <2>3, <2>6 DEF Manager
  <2>8. /\ \A i \in Buffer \ {c} :
             /\ g.buf[i].ptrs = m.buf[i].ptrs /\ g.buf[i].rollback_next_ptr = m.buf[i].rollback_next_ptr
             /\ g.buf[i].ts = m.buf[i].ts /\ g.buf[i].init_ts = m.buf[i].init_ts
             /\ g.buf[i].next = m.buf[i].next
             /\ g.buf[i].prev = m.buf[i].prev \/ i = next
        /\ g.buf[c] = CleanBuffer /\ c \in Buffer
    BY <2>1, <2>2, <2>4, <2>5, <2>7
  <2>9. QED BY <1>3, <2>7, <2>8 DEF Taken, c, g, next
<1>4. QED BY <1>2, <1>3

\* The clean buffer c is chained behind the buffer f.
Chain1(g, f, c) == [g EXCEPT !.buf[f].next = c, !.buf[c].prev = f, !["freed_in_tx"] = c]
Attached(g, f, c, r) ==
  /\ r \in Manager
  /\ r.freed_in_tx = c /\ r.freed_in_tx_old = g.freed_in_tx_old
  /\ r.freed_logically = g.freed_logically /\ r.reusable = g.reusable /\ r.allocated = g.allocated
  /\ r.buf[f].next = c /\ r.buf[f].prev = g.buf[f].prev
  /\ r.buf[f].ptrs = g.buf[f].ptrs /\ r.buf[f].rollback_next_ptr = g.buf[f].rollback_next_ptr
  /\ r.buf[f].ts = g.buf[f].ts /\ r.buf[f].init_ts = g.buf[f].init_ts
  /\ r.buf[c].prev = f /\ r.buf[c].next = g.buf[c].next
  /\ r.buf[c].ptrs = g.buf[c].ptrs /\ r.buf[c].rollback_next_ptr = g.buf[c].rollback_next_ptr
  /\ r.buf[c].ts = g.buf[c].ts /\ r.buf[c].init_ts = g.buf[c].init_ts
  /\ \A i \in Buffer \ {f, c} : r.buf[i] = g.buf[i]

LEMMA AttachedIs ==
  ASSUME NEW g \in Manager, NEW f \in Buffer, NEW c \in Buffer, f # c
  PROVE  Attached(g, f, c, Chain1(g, f, c))
<1> DEFINE r == Chain1(g, f, c)
           x == g.buf[f]
           y == g.buf[c]
           x2 == [x EXCEPT !.next = c]
           y2 == [y EXCEPT !.prev = f]
           buf == [g.buf EXCEPT ![f] = x2, ![c] = y2]
<1>1. x \in BufferType /\ y \in BufferType /\ g.buf \in [Buffer -> BufferType]
  BY ManagerFields
<1>2. c \in 0 .. Buffers /\ f \in 0 .. Buffers
  BY TwoIsBuffer DEF Buffer
<1>3. r = [g EXCEPT !.buf = buf, !.freed_in_tx = c]
  BY DEF Chain1
<1> HIDE DEF x, y
<1>4. /\ x2 \in BufferType /\ x2.next = c /\ x2.prev = x.prev /\ x2.ptrs = x.ptrs
      /\ x2.rollback_next_ptr = x.rollback_next_ptr /\ x2.ts = x.ts /\ x2.init_ts = x.init_ts
  BY <1>1, <1>2 DEF BufferType
<1>5. /\ y2 \in BufferType /\ y2.prev = f /\ y2.next = y.next /\ y2.ptrs = y.ptrs
      /\ y2.rollback_next_ptr = y.rollback_next_ptr /\ y2.ts = y.ts /\ y2.init_ts = y.init_ts
  BY <1>1, <1>2 DEF BufferType
<1> HIDE DEF x2, y2
<1>6. /\ buf \in [Buffer -> BufferType] /\ buf[f] = x2 /\ buf[c] = y2
      /\ \A i \in Buffer \ {f, c} : buf[i] = g.buf[i]
  BY <1>1, <1>4, <1>5
<1> HIDE DEF buf, r
<1>7. /\ r \in Manager /\ r.buf = buf /\ r.freed_in_tx = c
      /\ r.freed_in_tx_old = g.freed_in_tx_old
      /\ r.freed_logically = g.freed_logically /\ r.reusable = g.reusable /\ r.allocated = g.allocated
  BY <1>3, <1>6 DEF Manager
<1>8. Attached(g, f, c, r)
  BY <1>4, <1>5, <1>6, <1>7 DEF Attached, x, y
<1>9. QED BY <1>8 DEF r

\* What the lists of a manager in order have to do with its last buffer of frees.
LEMMA LastOfFrees ==
  ASSUME NEW m, NEW T, NEW n, NEW L, NEW k, NEW R, Orderly(m, T, n, L, k, R)
  PROVE  /\ m.freed_in_tx = T[n] /\ T[n] \in Buffer /\ T[n] # 2 /\ T[n] \notin R
         /\ \A i \in 1 .. n - 1 : i \in 1 .. n /\ i + 1 \in 1 .. n /\ T[i] # T[n] /\ T[i] \in Buffer \ {T[n]}
         /\ \A i \in 1 .. k : L[i] # T[n] /\ L[i] \in Buffer \ {T[n]}
         /\ \A i \in R : i \in Buffer \ {T[n]}
         /\ m.buf[T[n]].ptrs \in Seq(Block) /\ Len(m.buf[T[n]].ptrs) < Size
<1>1. /\ m \in Manager /\ n \in Nat \ {0} /\ k \in Nat
      /\ T \in [1 .. n -> Buffer] /\ L \in [1 .. k -> Buffer] /\ R \subseteq Buffer
      /\ 1 \in 1 .. n /\ n \in 1 .. n
  BY OrderlyFields
<1>2. \A i \in 1 .. n - 1 : i \in 1 .. n /\ i + 1 \in 1 .. n /\ i # n
  BY <1>1
<1>3. \A i \in 1 .. n - 1 : T[i] # T[n]
  BY <1>1, <1>2 DEF Orderly, FreesInOrder, Listed
<1>4. m.buf[T[n]].ptrs \in Seq(Block)
  BY <1>1, BufferFields
<1>5. /\ m.freed_in_tx = T[n] /\ T[n] # 2 /\ T[n] \notin R
      /\ Len(m.buf[T[n]].ptrs) < Size /\ \A i \in 1 .. k : L[i] # T[n]
  BY <1>1 DEF Orderly, FreesInOrder, Apart
<1>6. QED BY <1>1, <1>2, <1>3, <1>4, <1>5

\* The last buffer is not full yet.
LEMMA FreeFits ==
  ASSUME NEW m, NEW T, NEW n, NEW L, NEW k, NEW R, Orderly(m, T, n, L, k, R),
         NEW b \in Block, Len(m.buf[T[n]].ptrs) + 1 < Size,
         NEW r, PtrsChanged(m, T[n], Append(m.buf[T[n]].ptrs, b), r)
  PROVE  Orderly(r, T, n, L, k, R) /\ Logged(m, r, b, T, n, T, n, L, k)
<1> DEFINE F == T[n]
           q == m.buf[F].ptrs
<1>1. /\ m.freed_in_tx = F /\ F \in Buffer /\ F # 2 /\ F \notin R
      /\ \A i \in 1 .. n - 1 : i \in 1 .. n /\ i + 1 \in 1 .. n /\ T[i] # F /\ T[i] \in Buffer \ {F}
      /\ \A i \in 1 .. k : L[i] # F /\ L[i] \in Buffer \ {F}
      /\ \A i \in R : i \in Buffer \ {F}
      /\ q \in Seq(Block) /\ Len(q) < Size
  BY LastOfFrees
<1>2. /\ m \in Manager /\ n \in Nat \ {0} /\ k \in Nat
      /\ T \in [1 .. n -> Buffer] /\ 1 \in 1 .. n /\ n \in 1 .. n
      /\ m.allocated \in 2 .. Buffers /\ 2 \in Buffer
  BY OrderlyFields, ManagerFields, TwoIsBuffer
<1>3. Len(Append(q, b)) = Len(q) + 1 /\ Len(q) \in Nat
  <2> HIDE DEF q
  <2>1. QED BY <1>1, AppendIs
<1>4. /\ r \in Manager
      /\ r.freed_in_tx = m.freed_in_tx /\ r.freed_in_tx_old = m.freed_in_tx_old
      /\ r.freed_logically = m.freed_logically /\ r.reusable = m.reusable
      /\ r.allocated = m.allocated
      /\ r.buf[F].ptrs = Append(q, b) /\ r.buf[F].rollback_next_ptr = m.buf[F].rollback_next_ptr
      /\ r.buf[F].init_ts = m.buf[F].init_ts
      /\ r.buf[F].next = m.buf[F].next /\ r.buf[F].prev = m.buf[F].prev
      /\ \A j \in Buffer \ {F} : r.buf[j] = m.buf[j]
  BY DEF PtrsChanged
<1> HIDE DEF F, q
<1>5. /\ \A i \in 1 .. n - 1 : r.buf[T[i]] = m.buf[T[i]]
      /\ \A i \in 1 .. k : r.buf[L[i]] = m.buf[L[i]]
      /\ \A i \in R : r.buf[i] = m.buf[i]
      /\ r.buf[2] = m.buf[2]
  BY <1>1, <1>2, <1>4
<1>6. \A i \in 1 .. n : /\ r.buf[T[i]].next = m.buf[T[i]].next /\ r.buf[T[i]].prev = m.buf[T[i]].prev
                        /\ r.buf[T[i]].rollback_next_ptr = m.buf[T[i]].rollback_next_ptr
                        /\ r.buf[T[i]].init_ts = m.buf[T[i]].init_ts
  <2> SUFFICES ASSUME NEW i \in 1 .. n
               PROVE  /\ r.buf[T[i]].next = m.buf[T[i]].next /\ r.buf[T[i]].prev = m.buf[T[i]].prev
                      /\ r.buf[T[i]].rollback_next_ptr = m.buf[T[i]].rollback_next_ptr
                      /\ r.buf[T[i]].init_ts = m.buf[T[i]].init_ts
    OBVIOUS
  <2>1. i \in 1 .. n - 1 \/ i = n
    BY <1>2
  <2>2. CASE i = n
    BY <1>4, <2>2 DEF F
  <2>3. CASE i \in 1 .. n - 1
    BY <1>5, <2>3
  <2>4. QED BY <2>1, <2>2, <2>3
<1>7. Listed(r.buf, T, n)
  BY <1>1, <1>6 DEF Orderly, FreesInOrder, Listed
<1>8. FreesInOrder(r, T, n)
  <2>1. FreesInOrder(m, T, n)
    BY DEF Orderly
  <2>2. r.freed_in_tx_old = T[1] /\ r.freed_in_tx = T[n] /\ n > 0 /\ (n > 1 => r.buf[T[n]].next = NULL)
    BY <1>2, <1>4, <1>6, <2>1 DEF FreesInOrder
  <2>3. \A i \in 1 .. n - 1 : r.buf[T[i + 1]].prev = T[i] /\ Len(r.buf[T[i]].ptrs) = Size
    BY <1>1, <1>5, <1>6, <2>1 DEF FreesInOrder
  <2>4. Len(r.buf[T[n]].ptrs) < Size
    BY <1>3, <1>4 DEF F, q
  <2>5. r.buf[T[1]].rollback_next_ptr <= Len(r.buf[T[1]].ptrs)
    <3>1. m.buf[T[1]].rollback_next_ptr <= Len(m.buf[T[1]].ptrs) /\ m.buf[T[1]].rollback_next_ptr \in Nat
      BY <1>2, <2>1, BufferFields DEF FreesInOrder
    <3>2. CASE n = 1
      <4>1. r.buf[T[1]].ptrs = Append(q, b) /\ m.buf[T[1]].ptrs = q
        BY <1>4, <3>2 DEF F, q
      <4>2. QED BY <1>2, <1>3, <1>6, <3>1, <4>1
    <3>3. CASE n > 1
      <4>1. 1 \in 1 .. n - 1
        BY <1>2, <3>3
      <4>2. QED BY <1>5, <3>1, <4>1
    <3>4. QED BY <1>2, <3>2, <3>3
  <2>6. r.buf[T[1]].rollback_next_ptr < Size
    BY <1>2, <1>6, <2>1 DEF FreesInOrder
  <2>7. \A i \in 2 .. n : r.buf[T[i]].rollback_next_ptr = 0
    <3>1. \A i \in 2 .. n : i \in 1 .. n
      BY <1>2
    <3>2. QED BY <1>6, <2>1, <3>1 DEF FreesInOrder
  <2>8. \A i \in 1 .. n : ~ r.buf[T[i]].init_ts
    BY <1>6, <2>1 DEF FreesInOrder
  <2>9. QED BY <1>7, <2>2, <2>3, <2>4, <2>5, <2>6, <2>7, <2>8 DEF FreesInOrder
<1>9. LogicalInOrder(r, L, k)
  <2>1. LogicalInOrder(m, L, k)
    BY DEF Orderly
  <2>2. Listed(r.buf, L, k) /\ Ends(r.buf, L, k)
    <3>1. Listed(m.buf, L, k) /\ Ends(m.buf, L, k)
      BY <2>1 DEF LogicalInOrder
    <3>2. \A i \in 1 .. k - 1 : i \in 1 .. k
      BY <1>2
    <3>3. k > 0 => k \in 1 .. k
      BY <1>2
    <3>4. ASSUME NEW i \in 1 .. k PROVE r.buf[L[i]].next = m.buf[L[i]].next
      BY <1>5
    <3>5. Listed(r.buf, L, k)
      BY <3>1, <3>2, <3>4 DEF Listed
    <3>6. Ends(r.buf, L, k)
      BY <3>1, <3>3, <3>4 DEF Ends
    <3>7. QED BY <3>5, <3>6
  <2>3. \A i \in 1 .. k - 1 : i \in 1 .. k /\ i + 1 \in 1 .. k
    BY <1>2
  <2>4. k > 0 => 1 \in 1 .. k
    BY <1>2
  <2>5. QED BY <1>4, <1>5, <2>1, <2>2, <2>3, <2>4 DEF LogicalInOrder
<1>10. ReusableInOrder(r, R)
  BY <1>4, <1>5 DEF Orderly, ReusableInOrder
<1>11. Apart(r, T, n, L, k, R)
  <2>1. Apart(m, T, n, L, k, R)
    BY DEF Orderly
  <2>2. F <= m.allocated
    BY <1>2, <2>1 DEF Apart, F
  <2>3. \A i \in Buffer : i > m.allocated => i \in Buffer \ {F}
    BY <1>1, <1>2, <2>2 DEF Buffer
  <2>4. QED BY <1>4, <2>1, <2>3 DEF Apart
<1>12. AllocsInOrder(r)
  BY <1>5 DEF Orderly, AllocsInOrder
<1>13. Orderly(r, T, n, L, k, R)
  BY <1>4, <1>8, <1>9, <1>10, <1>11, <1>12 DEF Orderly
<1>14. Logged(m, r, b, T, n, T, n, L, k)
  <2>1. n # n + 1
    BY <1>2
  <2>2. r.buf[T[n]].ptrs = Append(m.buf[T[n]].ptrs, b)
    BY <1>4 DEF F, q
  <2>3. QED BY <1>5, <1>6, <2>1, <2>2 DEF Logged
<1>15. QED BY <1>13, <1>14

\* The last buffer is full: a clean one goes behind it.
LEMMA FreeChains ==
  ASSUME NEW m, NEW T, NEW n, NEW L, NEW k, NEW R, Orderly(m, T, n, L, k, R),
         NEW b \in Block, Len(m.buf[T[n]].ptrs) + 1 = Size,
         NEW w, PtrsChanged(m, T[n], Append(m.buf[T[n]].ptrs, b), w),
         NEW c, NEW g, Taken(w, g, c), c \notin From(T, 1, n) \cup From(L, 1, k) \cup {2},
         m.reusable # NULL => c = m.reusable, m.reusable = NULL => c = m.allocated + 1,
         NEW r, Attached(g, T[n], c, r)
  PROVE  \E S, Q : Orderly(r, S, n + 1, L, k, Q) /\ Logged(m, r, b, T, n, S, n + 1, L, k)
<1> DEFINE F == T[n]
           q == m.buf[F].ptrs
           l == n + 1
           S == [i \in 1 .. l |-> IF i = l THEN c ELSE T[i]]
           Q == R \ {c}
<1>1. /\ m.freed_in_tx = F /\ F \in Buffer /\ F # 2 /\ F \notin R
      /\ \A i \in 1 .. n - 1 : i \in 1 .. n /\ i + 1 \in 1 .. n /\ T[i] # F /\ T[i] \in Buffer \ {F}
      /\ \A i \in 1 .. k : L[i] # F /\ L[i] \in Buffer \ {F}
      /\ \A i \in R : i \in Buffer \ {F}
      /\ q \in Seq(Block) /\ Len(q) < Size
  BY LastOfFrees
<1>2. /\ m \in Manager /\ n \in Nat \ {0} /\ k \in Nat
      /\ T \in [1 .. n -> Buffer] /\ L \in [1 .. k -> Buffer] /\ R \subseteq Buffer
      /\ 1 \in 1 .. n /\ n \in 1 .. n
      /\ m.allocated \in 2 .. Buffers /\ m.reusable \in 0 .. Buffers
      /\ Buffers \in Nat /\ Size \in Nat \ {0} /\ 2 \in Buffer /\ NULL = 0
  BY OrderlyFields, ManagerFields, TwoIsBuffer
<1>3. Len(Append(q, b)) = Len(q) + 1 /\ Len(q) \in Nat
  <2> HIDE DEF q
  <2>1. QED BY <1>1, AppendIs
<1>4. /\ c \in Buffer /\ c \notin {2, F}
      /\ \A i \in 1 .. n : T[i] # c
      /\ \A i \in 1 .. k : L[i] # c
  BY <1>2 DEF Taken, From
<1>5. /\ w.freed_in_tx_old = m.freed_in_tx_old
      /\ w.freed_logically = m.freed_logically /\ w.reusable = m.reusable
      /\ w.allocated = m.allocated
      /\ w.buf[F].ptrs = Append(q, b) /\ w.buf[F].rollback_next_ptr = m.buf[F].rollback_next_ptr
      /\ w.buf[F].init_ts = m.buf[F].init_ts
      /\ w.buf[F].next = m.buf[F].next /\ w.buf[F].prev = m.buf[F].prev
      /\ \A j \in Buffer \ {F} : w.buf[j] = m.buf[j]
  BY DEF PtrsChanged
<1> DEFINE nx == m.buf[m.reusable].next
<1>6. m.reusable # NULL => m.reusable \in Buffer \ {F} /\ m.reusable \in R /\ nx \in R \cup {NULL}
  BY <1>1 DEF Orderly, ReusableInOrder
<1>7. /\ g.freed_in_tx_old = m.freed_in_tx_old /\ g.freed_logically = m.freed_logically
      /\ g.reusable = IF m.reusable = NULL THEN NULL ELSE nx
      /\ g.allocated = IF m.reusable = NULL THEN m.allocated + 1 ELSE m.allocated
      /\ g.buf[c] = CleanBuffer
      /\ \A i \in Buffer \ {c} :
           /\ g.buf[i].ptrs = w.buf[i].ptrs /\ g.buf[i].rollback_next_ptr = w.buf[i].rollback_next_ptr
           /\ g.buf[i].ts = w.buf[i].ts /\ g.buf[i].init_ts = w.buf[i].init_ts
           /\ g.buf[i].next = w.buf[i].next
           /\ i \notin R => g.buf[i].prev = w.buf[i].prev
  <2>1. m.reusable # NULL => w.buf[m.reusable].next = nx
    BY <1>5, <1>6
  <2>2. \A i \in Buffer \ {c} : i # NULL
    BY <1>2 DEF Buffer
  <2>3. /\ g.freed_in_tx_old = w.freed_in_tx_old /\ g.freed_logically = w.freed_logically
        /\ g.reusable = (IF w.reusable = NULL THEN NULL ELSE w.buf[w.reusable].next)
        /\ g.allocated = (IF w.reusable = NULL THEN w.allocated + 1 ELSE w.allocated)
        /\ g.buf[c] = CleanBuffer
    BY DEF Taken
  <2>4. ASSUME NEW i \in Buffer \ {c}
        PROVE  /\ g.buf[i].ptrs = w.buf[i].ptrs /\ g.buf[i].rollback_next_ptr = w.buf[i].rollback_next_ptr
               /\ g.buf[i].ts = w.buf[i].ts /\ g.buf[i].init_ts = w.buf[i].init_ts
               /\ g.buf[i].next = w.buf[i].next
               /\ g.buf[i].prev = w.buf[i].prev
                  \/ (w.reusable # NULL /\ i = w.buf[w.reusable].next)
    BY DEF Taken
  <2>5. ASSUME NEW i \in Buffer \ {c}, i \notin R PROVE g.buf[i].prev = w.buf[i].prev
    <3>1. w.reusable # NULL => i # w.buf[w.reusable].next
      BY <1>5, <1>6, <2>1, <2>2, <2>5
    <3>2. QED BY <2>4, <3>1
  <2> HIDE DEF nx
  <2>6. /\ g.freed_in_tx_old = m.freed_in_tx_old /\ g.freed_logically = m.freed_logically
        /\ g.reusable = IF m.reusable = NULL THEN NULL ELSE nx
        /\ g.allocated = IF m.reusable = NULL THEN m.allocated + 1 ELSE m.allocated
    BY <1>5, <2>1, <2>3
  <2>7. QED BY <2>3, <2>4, <2>5, <2>6
<1>8. /\ r \in Manager /\ r.freed_in_tx = c /\ r.freed_in_tx_old = m.freed_in_tx_old
      /\ r.freed_logically = m.freed_logically
      /\ r.reusable = IF m.reusable = NULL THEN NULL ELSE nx
      /\ r.allocated = IF m.reusable = NULL THEN m.allocated + 1 ELSE m.allocated
  BY <1>7 DEF Attached
<1> HIDE DEF F, q, nx
<1>9. /\ r.buf[F].next = c /\ r.buf[F].prev = m.buf[F].prev
      /\ r.buf[F].ptrs = Append(q, b) /\ r.buf[F].rollback_next_ptr = m.buf[F].rollback_next_ptr
      /\ r.buf[F].init_ts = m.buf[F].init_ts
  <2>1. F \in Buffer \ {c} /\ F \notin R
    BY <1>1, <1>4
  <2>2. /\ r.buf[F].next = c /\ r.buf[F].prev = g.buf[F].prev
        /\ r.buf[F].ptrs = g.buf[F].ptrs /\ r.buf[F].rollback_next_ptr = g.buf[F].rollback_next_ptr
        /\ r.buf[F].init_ts = g.buf[F].init_ts
    BY DEF Attached, F
  <2>3. QED BY <1>5, <1>7, <2>1, <2>2
<1>10. /\ r.buf[c].next = NULL /\ r.buf[c].prev = F /\ r.buf[c].ptrs = <<>>
       /\ r.buf[c].rollback_next_ptr = 0 /\ ~ r.buf[c].init_ts
  <2>1. /\ r.buf[c].next = g.buf[c].next /\ r.buf[c].prev = F /\ r.buf[c].ptrs = g.buf[c].ptrs
        /\ r.buf[c].rollback_next_ptr = g.buf[c].rollback_next_ptr /\ r.buf[c].init_ts = g.buf[c].init_ts
    BY DEF Attached, F
  <2>2. QED BY <1>7, <2>1 DEF CleanBuffer
<1>11. \A i \in Buffer \ {c, F} :
         /\ r.buf[i].ptrs = m.buf[i].ptrs /\ r.buf[i].rollback_next_ptr = m.buf[i].rollback_next_ptr
         /\ r.buf[i].ts = m.buf[i].ts /\ r.buf[i].init_ts = m.buf[i].init_ts
         /\ r.buf[i].next = m.buf[i].next
         /\ i \notin R => r.buf[i].prev = m.buf[i].prev
  <2>1. \A i \in Buffer \ {c, F} : r.buf[i] = g.buf[i]
    BY DEF Attached, F
  <2>2. QED BY <1>5, <1>7, <2>1
<1>12. /\ \A i \in 1 .. n - 1 : T[i] \in Buffer \ {c, F} /\ T[i] \notin R
       /\ \A i \in 1 .. k : L[i] \in Buffer \ {c, F} /\ L[i] \notin R
       /\ \A i \in Q : i \in Buffer \ {c, F} /\ i \in R
       /\ 2 \in Buffer \ {c, F} /\ 2 \notin R
  BY <1>1, <1>2, <1>4 DEF Orderly, Apart
<1>13. \A i \in 1 .. n : /\ r.buf[T[i]].prev = m.buf[T[i]].prev
                         /\ r.buf[T[i]].rollback_next_ptr = m.buf[T[i]].rollback_next_ptr
                         /\ r.buf[T[i]].init_ts = m.buf[T[i]].init_ts
  <2> SUFFICES ASSUME NEW i \in 1 .. n
               PROVE  /\ r.buf[T[i]].prev = m.buf[T[i]].prev
                      /\ r.buf[T[i]].rollback_next_ptr = m.buf[T[i]].rollback_next_ptr
                      /\ r.buf[T[i]].init_ts = m.buf[T[i]].init_ts
    OBVIOUS
  <2>1. i \in 1 .. n - 1 \/ i = n
    BY <1>2
  <2>2. CASE i = n
    BY <1>9, <2>2 DEF F
  <2>3. CASE i \in 1 .. n - 1
    BY <1>11, <1>12, <2>3
  <2>4. QED BY <2>1, <2>2, <2>3
<1>14. /\ l \in Nat /\ l > 1 /\ S \in [1 .. l -> Buffer] /\ S[l] = c /\ \A i \in 1 .. n : S[i] = T[i]
       /\ \A i \in 1 .. l : i \in 1 .. n \/ i = l
       /\ l - 1 = n /\ l # n /\ 1 \in 1 .. l
  <2>1. l \in Nat /\ l > 1 /\ l - 1 = n /\ l # n /\ l \in 1 .. l /\ 1 \in 1 .. l
    BY <1>2
  <2>2. \A i \in 1 .. l : i \in 1 .. n \/ i = l
    BY <1>2
  <2>3. \A i \in 1 .. n : i \in 1 .. l /\ i # l
    BY <1>2
  <2> HIDE DEF l
  <2>4. S[l] = c /\ \A i \in 1 .. n : S[i] = T[i]
    BY <2>1, <2>3
  <2>5. S \in [1 .. l -> Buffer]
    BY <1>2, <1>4, <2>2
  <2>6. QED BY <2>1, <2>2, <2>4, <2>5
<1> HIDE DEF S
<1>15. FreesInOrder(m, T, n) /\ LogicalInOrder(m, L, k) /\ ReusableInOrder(m, R)
       /\ Apart(m, T, n, L, k, R) /\ AllocsInOrder(m)
  BY DEF Orderly
<1>16. \A i \in 1 .. l - 1 : i \in 1 .. n /\ (i \in 1 .. n - 1 \/ i = n)
  BY <1>2
<1>17. Listed(r.buf, S, l)
  <2>1. Listed(m.buf, T, n)
    BY <1>15 DEF FreesInOrder
  <2>2. ASSUME NEW i \in 1 .. l, NEW j \in 1 .. l, S[i] = S[j] PROVE i = j
    <3>1. CASE i \in 1 .. n /\ j \in 1 .. n
      BY <1>14, <2>1, <2>2, <3>1 DEF Listed
    <3>2. CASE i = l \/ j = l
      BY <1>4, <1>14, <2>2, <3>2
    <3>3. QED BY <1>14, <3>1, <3>2
  <2>3. ASSUME NEW i \in 1 .. l - 1 PROVE r.buf[S[i]].next = S[i + 1]
    <3>1. CASE i = n
      BY <1>9, <1>14, <1>16, <3>1 DEF F
    <3>2. CASE i \in 1 .. n - 1
      <4>1. i \in 1 .. n /\ i + 1 \in 1 .. n
        BY <1>1, <3>2
      <4>2. m.buf[T[i]].next = T[i + 1]
        BY <2>1, <3>2 DEF Listed
      <4>3. QED BY <1>11, <1>12, <1>14, <3>2, <4>1, <4>2
    <3>3. QED BY <1>16, <3>1, <3>2
  <2>4. QED BY <1>14, <2>2, <2>3 DEF Listed
<1>18. FreesInOrder(r, S, l)
  <2>1. r.freed_in_tx_old = S[1] /\ r.freed_in_tx = S[l] /\ l > 0 /\ (l > 1 => r.buf[S[l]].next = NULL)
    BY <1>2, <1>8, <1>10, <1>14, <1>15 DEF FreesInOrder
  <2>2. ASSUME NEW i \in 1 .. l - 1 PROVE r.buf[S[i + 1]].prev = S[i] /\ Len(r.buf[S[i]].ptrs) = Size
    <3>1. CASE i = n
      <4>1. S[i + 1] = c /\ S[i] = F
        BY <1>14, <1>16, <3>1 DEF F
      <4>2. QED BY <1>3, <1>9, <1>10, <4>1 DEF F, q
    <3>2. CASE i \in 1 .. n - 1
      <4>1. i \in 1 .. n /\ i + 1 \in 1 .. n
        BY <1>1, <3>2
      <4>2. S[i] = T[i] /\ S[i + 1] = T[i + 1]
        BY <1>14, <4>1
      <4>3. m.buf[T[i + 1]].prev = T[i] /\ Len(m.buf[T[i]].ptrs) = Size
        BY <1>15, <3>2 DEF FreesInOrder
      <4>4. r.buf[T[i + 1]].prev = m.buf[T[i + 1]].prev
        BY <1>13, <4>1
      <4>5. r.buf[T[i]].ptrs = m.buf[T[i]].ptrs
        BY <1>11, <1>12, <3>2
      <4>6. QED BY <4>2, <4>3, <4>4, <4>5
    <3>3. QED BY <1>16, <3>1, <3>2
  <2>3. Len(r.buf[S[l]].ptrs) < Size
    BY <1>2, <1>10, <1>14
  <2>4. r.buf[S[1]].rollback_next_ptr <= Len(r.buf[S[1]].ptrs)
    <3>1. m.buf[T[1]].rollback_next_ptr <= Len(m.buf[T[1]].ptrs) /\ m.buf[T[1]].rollback_next_ptr \in Nat
      BY <1>2, <1>15, BufferFields DEF FreesInOrder
    <3>2. S[1] = T[1] /\ r.buf[T[1]].rollback_next_ptr = m.buf[T[1]].rollback_next_ptr
      BY <1>2, <1>13, <1>14
    <3>3. CASE n = 1
      <4>1. r.buf[T[1]].ptrs = Append(q, b) /\ m.buf[T[1]].ptrs = q
        BY <1>9, <3>3 DEF F, q
      <4>2. QED BY <1>3, <3>1, <3>2, <4>1
    <3>4. CASE n > 1
      <4>1. 1 \in 1 .. n - 1
        BY <1>2, <3>4
      <4>2. r.buf[T[1]].ptrs = m.buf[T[1]].ptrs
        BY <1>11, <1>12, <4>1
      <4>3. QED BY <3>1, <3>2, <4>2
    <3>5. QED BY <1>2, <3>3, <3>4
  <2>5. r.buf[S[1]].rollback_next_ptr < Size
    BY <1>2, <1>13, <1>14, <1>15 DEF FreesInOrder
  <2>6. ASSUME NEW i \in 2 .. l PROVE r.buf[S[i]].rollback_next_ptr = 0
    <3>1. i = l \/ (i \in 2 .. n /\ i \in 1 .. n)
      BY <1>2
    <3>2. CASE i = l
      BY <1>10, <1>14, <3>2
    <3>3. CASE i \in 2 .. n /\ i \in 1 .. n
      BY <1>13, <1>14, <1>15, <3>3 DEF FreesInOrder
    <3>4. QED BY <3>1, <3>2, <3>3
  <2>7. ASSUME NEW i \in 1 .. l PROVE ~ r.buf[S[i]].init_ts
    <3>1. CASE i = l
      BY <1>10, <1>14, <3>1
    <3>2. CASE i \in 1 .. n
      BY <1>13, <1>14, <1>15, <3>2 DEF FreesInOrder
    <3>3. QED BY <1>14, <3>1, <3>2
  <2>8. QED BY <1>17, <2>1, <2>2, <2>3, <2>4, <2>5, <2>6, <2>7 DEF FreesInOrder
<1>19. LogicalInOrder(r, L, k)
  <2>1. Listed(r.buf, L, k) /\ Ends(r.buf, L, k)
    <3>1. Listed(m.buf, L, k) /\ Ends(m.buf, L, k)
      BY <1>15 DEF LogicalInOrder
    <3>2. \A i \in 1 .. k - 1 : i \in 1 .. k
      BY <1>2
    <3>3. k > 0 => k \in 1 .. k
      BY <1>2
    <3>4. QED BY <1>11, <1>12, <3>1, <3>2, <3>3 DEF Listed, Ends
  <2>2. \A i \in 1 .. k - 1 : i \in 1 .. k /\ i + 1 \in 1 .. k
    BY <1>2
  <2>3. k > 0 => 1 \in 1 .. k
    BY <1>2
  <2>4. \A i \in 1 .. k : /\ r.buf[L[i]].ptrs = m.buf[L[i]].ptrs /\ r.buf[L[i]].prev = m.buf[L[i]].prev
                          /\ r.buf[L[i]].ts = m.buf[L[i]].ts /\ r.buf[L[i]].init_ts = m.buf[L[i]].init_ts
    BY <1>11, <1>12
  <2>5. QED BY <1>8, <1>15, <2>1, <2>2, <2>3, <2>4 DEF LogicalInOrder
<1>20. ReusableInOrder(r, Q)
  <2>1. /\ \A i \in Q : r.buf[i].next = m.buf[i].next
        /\ \A i \in R : m.buf[i].next \in R \cup {NULL} /\ m.buf[i].next \notin {m.reusable} \ {NULL}
        /\ \A i, j \in R : m.buf[i].next = m.buf[j].next /\ m.buf[i].next # NULL => i = j
    BY <1>11, <1>12, <1>15 DEF ReusableInOrder
  <2>2. CASE m.reusable = NULL
    <3>1. Q = R
      <4>1. c \notin R
        <5>1. c = m.allocated + 1
          BY <2>2
        <5>2. \A i \in R : i <= m.allocated
          BY <1>2, <1>15 DEF Apart
        <5>3. QED BY <1>2, <5>1, <5>2
      <4>2. QED BY <4>1
    <3>2. r.reusable = NULL
      BY <1>8, <2>2
    <3>3. QED BY <2>1, <2>2, <3>1, <3>2 DEF ReusableInOrder
  <2>3. CASE m.reusable # NULL
    <3>1. c = m.reusable /\ c \in R /\ r.reusable = nx /\ nx = m.buf[c].next
      BY <1>6, <1>8, <2>3 DEF nx
    <3>2. nx \in R \cup {NULL} /\ nx \notin {c} \ {NULL} /\ c # NULL
      BY <2>1, <2>3, <3>1
    <3>3. r.reusable \in Q \cup {NULL}
      BY <3>1, <3>2
    <3>4. ASSUME NEW i \in Q PROVE r.buf[i].next \in Q \cup {NULL} /\ r.buf[i].next \notin {r.reusable} \ {NULL}
      <4>1. i \in R /\ i # c
        OBVIOUS
      <4>2. r.buf[i].next = m.buf[i].next /\ m.buf[i].next # c
        BY <2>1, <3>1, <3>2
      <4>3. m.buf[i].next = nx => nx = NULL
        BY <2>1, <3>1, <4>1
      <4>4. QED BY <2>1, <3>1, <4>1, <4>2, <4>3
    <3>5. QED BY <2>1, <3>3, <3>4 DEF ReusableInOrder
  <2>4. QED BY <2>2, <2>3
<1>21. Apart(r, S, l, L, k, Q)
  <2>1. m.allocated <= r.allocated /\ c <= r.allocated /\ r.allocated \in 2 .. Buffers
    <3>1. r.allocated \in 2 .. Buffers
      BY <1>8, ManagerFields
    <3>2. CASE m.reusable = NULL
      BY <1>2, <1>8, <3>2, <3>1
    <3>3. CASE m.reusable # NULL
      <4>1. c \in R /\ R \subseteq 1 .. m.allocated
        BY <1>6, <1>15, <3>3 DEF Apart
      <4>2. QED BY <1>2, <1>8, <3>1, <3>3, <4>1
    <3>4. QED BY <3>2, <3>3
  <2>2. Q \subseteq (1 .. r.allocated) \ {2}
    <3>1. R \subseteq (1 .. m.allocated) \ {2}
      BY <1>15 DEF Apart
    <3>2. 1 .. m.allocated \subseteq 1 .. r.allocated
      BY <1>2, <2>1
    <3>3. QED BY <3>1, <3>2
  <2>3. ASSUME NEW i \in 1 .. l PROVE S[i] <= r.allocated /\ S[i] # 2 /\ S[i] \notin Q
    <3>1. CASE i = l
      BY <1>4, <1>14, <2>1, <3>1
    <3>2. CASE i \in 1 .. n
      <4>1. S[i] = T[i] /\ T[i] <= m.allocated /\ T[i] # 2 /\ T[i] \notin R /\ T[i] \in Nat
        BY <1>2, <1>14, <1>15, <3>2 DEF Apart, Buffer
      <4>2. QED BY <1>2, <2>1, <4>1
    <3>3. QED BY <1>14, <3>1, <3>2
  <2>4. ASSUME NEW i \in 1 .. k PROVE L[i] <= r.allocated /\ L[i] # 2 /\ L[i] \notin Q
    <3>1. L[i] <= m.allocated /\ L[i] # 2 /\ L[i] \notin R /\ L[i] \in Nat
      BY <1>2, <1>15 DEF Apart, Buffer
    <3>2. QED BY <1>2, <2>1, <3>1
  <2>5. \A i \in 1 .. l, j \in 1 .. k : S[i] # L[j]
    BY <1>4, <1>14, <1>15 DEF Apart
  <2>6. ASSUME NEW i \in Buffer, i > r.allocated PROVE r.buf[i] = CleanBuffer
    <3>1. i > m.allocated /\ i # c /\ i # F /\ i \in Nat
      <4>1. i \in Nat /\ F \in Nat /\ F <= m.allocated /\ c \in Nat
        BY <1>1, <1>2, <1>4, <1>15 DEF Apart, Buffer, F
      <4>2. QED BY <1>2, <2>1, <2>6, <4>1
    <3>2. m.buf[i] = CleanBuffer
      BY <1>15, <3>1 DEF Apart
    <3>3. i \notin R
      BY <1>2, <1>15, <3>1 DEF Apart
    <3>4. /\ r.buf[i].ptrs = m.buf[i].ptrs /\ r.buf[i].rollback_next_ptr = m.buf[i].rollback_next_ptr
          /\ r.buf[i].ts = m.buf[i].ts /\ r.buf[i].init_ts = m.buf[i].init_ts
          /\ r.buf[i].next = m.buf[i].next /\ r.buf[i].prev = m.buf[i].prev
      BY <1>11, <3>1, <3>3
    <3>5. r.buf[i] \in BufferType /\ m.buf[i] \in BufferType
      BY <1>2, <1>8, BufferFields
    <3>6. r.buf[i] = m.buf[i]
      BY <3>4, <3>5, SameBuffer
    <3>7. QED BY <3>2, <3>6
  <2>7. QED BY <2>2, <2>3, <2>4, <2>5, <2>6 DEF Apart
<1>22. AllocsInOrder(r)
  BY <1>11, <1>12, <1>15 DEF AllocsInOrder
<1>23. Orderly(r, S, l, L, k, Q)
  BY <1>8, <1>18, <1>19, <1>20, <1>21, <1>22 DEF Orderly
<1>24. Logged(m, r, b, T, n, S, l, L, k)
  <2>1. r.buf[S[l]].ptrs = <<>>
    BY <1>10, <1>14
  <2>2. \A i \in 1 .. n - 1 : r.buf[T[i]].ptrs = m.buf[T[i]].ptrs
    BY <1>11, <1>12
  <2>3. r.buf[T[n]].ptrs = Append(m.buf[T[n]].ptrs, b)
    BY <1>9 DEF F, q
  <2>4. \A i \in 1 .. k : /\ r.buf[L[i]].ptrs = m.buf[L[i]].ptrs
                          /\ r.buf[L[i]].ts = m.buf[L[i]].ts /\ r.buf[L[i]].init_ts = m.buf[L[i]].init_ts
    BY <1>11, <1>12
  <2>5. l \in {n, n + 1} /\ \A i \in 1 .. n : S[i] = T[i]
    BY <1>14
  <2>6. QED BY <1>13, <2>1, <2>2, <2>3, <2>4, <2>5 DEF Logged
<1> HIDE DEF Q
<1>25. QED BY <1>23, <1>24

\* What Remember does to the buffer f.
LEMMA RememberFree ==
  ASSUME NEW m, NEW f, m["freed_in_tx"] = f, NEW b
  PROVE  Remember(m, "freed_in_tx", b) =
           IF Len(WithPtrs(m, f, Append(m.buf[f].ptrs, b)).buf[f].ptrs) < Size
           THEN WithPtrs(m, f, Append(m.buf[f].ptrs, b))
           ELSE Chain1(GetCleanPtrBuffer(WithPtrs(m, f, Append(m.buf[f].ptrs, b))), f,
                       CleanPtrBuffer(WithPtrs(m, f, Append(m.buf[f].ptrs, b))))
BY DEF Remember, WithPtrs, Chain1

LEMMA FreeM ==
  ASSUME NEW m, InOrder(m), NEW b \in Block, MayRemember(m, "freed_in_tx"), NEW r,
         r = Remember(m, "freed_in_tx", b)
  PROVE  /\ InOrder(r) /\ OneMoreFree(m, r, b) /\ r.buf[2].ptrs = m.buf[2].ptrs
         /\ r.last_minimum_ts \in Nat
<1>1. PICK T, n, L, k, R : Orderly(m, T, n, L, k, R)
  BY DEF InOrder
<1> DEFINE F == T[n]
           q == m.buf[F].ptrs
           w == WithPtrs(m, F, Append(q, b))
           c == CleanPtrBuffer(w)
           g == GetCleanPtrBuffer(w)
<1>2. /\ m.freed_in_tx = F /\ F \in Buffer /\ F # 2 /\ F \notin R
      /\ q \in Seq(Block) /\ Len(q) < Size
  BY <1>1, LastOfFrees
<1>3. /\ m \in Manager /\ n \in Nat \ {0} /\ k \in Nat
      /\ T \in [1 .. n -> Buffer] /\ L \in [1 .. k -> Buffer] /\ R \subseteq Buffer
      /\ n \in 1 .. n /\ m.allocated \in 2 .. Buffers /\ m.reusable \in 0 .. Buffers
      /\ Buffers \in Nat /\ Size \in Nat \ {0} /\ 2 \in Buffer /\ NULL = 0
  BY <1>1, OrderlyFields, ManagerFields, TwoIsBuffer
<1>4. m["freed_in_tx"] = m.freed_in_tx
  BY <1>3 DEF Manager
<1>5. Append(q, b) \in Seq(Block) /\ Len(Append(q, b)) = Len(q) + 1 /\ Len(q) \in Nat
  <2> HIDE DEF q
  <2>1. QED BY <1>2, AppendIs
<1>6. PtrsChanged(m, F, Append(q, b), w)
  <2>1. w = WithPtrs(m, F, Append(q, b))
    OBVIOUS
  <2> HIDE DEF w, q, F
  <2>2. QED BY <1>2, <1>3, <1>5, <2>1, PtrsWith
<1>7. /\ w \in Manager /\ w.reusable = m.reusable /\ w.allocated = m.allocated
      /\ w.buf[F].ptrs = Append(q, b) /\ \A j \in Buffer \ {F} : w.buf[j] = m.buf[j]
  <2> HIDE DEF w, q, F
  <2>1. QED BY <1>6 DEF PtrsChanged
<1>8. r = IF Len(w.buf[F].ptrs) < Size THEN w ELSE Chain1(g, F, c)
  <2>1. r = IF Len(WithPtrs(m, F, Append(q, b)).buf[F].ptrs) < Size
            THEN WithPtrs(m, F, Append(q, b))
            ELSE Chain1(GetCleanPtrBuffer(WithPtrs(m, F, Append(q, b))), F,
                        CleanPtrBuffer(WithPtrs(m, F, Append(q, b))))
    <3> HIDE DEF F
    <3>1. m["freed_in_tx"] = F
      BY <1>2, <1>4
    <3>2. QED BY <3>1, RememberFree
  <2>2. QED BY <2>1
<1> HIDE DEF w
<1>9. w.buf[2].ptrs = m.buf[2].ptrs
  BY <1>2, <1>3, <1>7
<1>10. CASE Len(q) + 1 < Size
  <2>1. r = w
    BY <1>5, <1>7, <1>8, <1>10
  <2>2. Orderly(w, T, n, L, k, R) /\ Logged(m, w, b, T, n, T, n, L, k)
    BY <1>1, <1>6, <1>10, FreeFits
  <2>3. OneMoreFree(m, w, b)
    BY <1>1, <2>2, LoggedSeen
  <2>4. InOrder(w)
    BY <2>2 DEF InOrder
  <2>5. w.last_minimum_ts \in Nat
    BY <1>7, ManagerFields
  <2>6. QED BY <1>9, <2>1, <2>3, <2>4, <2>5
<1>11. CASE Len(q) + 1 = Size
  <2>1. ~ (Len(w.buf[F].ptrs) < Size)
    BY <1>3, <1>5, <1>7, <1>11
  <2>2. r = Chain1(g, F, c)
    BY <1>8, <2>1
  <2>3. m.reusable # NULL \/ m.allocated < Buffers
    <3>1. Len(m.buf[m["freed_in_tx"]].ptrs) + 1 < Size \/ m.reusable # NULL \/ m.allocated < Buffers
      BY DEF MayRemember
    <3>2. ~ (Len(m.buf[m["freed_in_tx"]].ptrs) + 1 < Size)
      BY <1>2, <1>3, <1>4, <1>5, <1>11
    <3>3. QED BY <3>1, <3>2
  <2>4. FreesInOrder(m, T, n) /\ ReusableInOrder(m, R) /\ Apart(m, T, n, L, k, R)
    BY <1>1 DEF Orderly
  <2>5. F <= m.allocated /\ F \in Nat
    BY <1>2, <1>3, <2>4 DEF Apart, Buffer
  <2>6. w.reusable = NULL => w.buf[w.allocated + 1] = CleanBuffer
    <3>1. SUFFICES ASSUME w.reusable = NULL PROVE w.buf[w.allocated + 1] = CleanBuffer
      OBVIOUS
    <3>2. m.allocated + 1 \in Buffer \ {F} /\ m.allocated + 1 > m.allocated
      BY <1>3, <1>7, <2>3, <2>5, <3>1 DEF Buffer
    <3>3. m.buf[m.allocated + 1] = CleanBuffer
      BY <2>4, <3>2 DEF Apart
    <3>4. QED BY <1>7, <3>2, <3>3
  <2>7. w.reusable # NULL \/ w.allocated < Buffers
    BY <1>7, <2>3
  <2>8. Taken(w, g, c)
    BY <1>7, <2>6, <2>7, CleanTaken
  <2>9. (m.reusable # NULL => c = m.reusable) /\ (m.reusable = NULL => c = m.allocated + 1)
    BY <1>7 DEF CleanPtrBuffer
  <2> HIDE DEF g, c, F, q
  <2>10. c \notin From(T, 1, n) \cup From(L, 1, k) \cup {2}
    <3>1. CASE m.reusable # NULL
      <4>1. c \in R
        BY <2>4, <2>9, <3>1 DEF ReusableInOrder
      <4>2. QED BY <2>4, <4>1 DEF Apart, From
    <3>2. CASE m.reusable = NULL
      <4>1. c = m.allocated + 1
        BY <2>9, <3>2
      <4>2. (\A i \in 1 .. n : T[i] <= m.allocated) /\ (\A i \in 1 .. k : L[i] <= m.allocated)
        BY <2>4 DEF Apart
      <4>3. (\A i \in 1 .. n : T[i] \in Nat) /\ (\A i \in 1 .. k : L[i] \in Nat)
        BY <1>3 DEF Buffer
      <4>4. (\A i \in 1 .. n : T[i] # c) /\ (\A i \in 1 .. k : L[i] # c) /\ c # 2
        BY <1>3, <4>1, <4>2, <4>3
      <4>5. QED BY <4>4 DEF From
    <3>3. QED BY <3>1, <3>2
  <2>11. F # c
    BY <1>3, <2>10 DEF From, F
  <2>12. g \in Manager /\ c \in Buffer
    BY <2>8 DEF Taken
  <2>13. Attached(g, F, c, r)
    BY <1>2, <2>2, <2>11, <2>12, AttachedIs
  <2>14. Len(m.buf[T[n]].ptrs) + 1 = Size /\ PtrsChanged(m, T[n], Append(m.buf[T[n]].ptrs, b), w)
         /\ Attached(g, T[n], c, r)
    BY <1>6, <1>11, <2>13 DEF F, q
  <2>15. PICK S, Q : Orderly(r, S, n + 1, L, k, Q) /\ Logged(m, r, b, T, n, S, n + 1, L, k)
    BY <1>1, <2>8, <2>9, <2>10, <2>14, FreeChains
  <2>16. OneMoreFree(m, r, b)
    BY <1>1, <2>15, LoggedSeen
  <2>17. InOrder(r)
    BY <2>15 DEF InOrder
  <2>18. r.buf[2].ptrs = m.buf[2].ptrs
    <3>1. 2 \in Buffer \ {c, F}
      BY <1>2, <1>3, <2>10
    <3>2. r.buf[2] = g.buf[2]
      BY <2>13, <3>1 DEF Attached
    <3>3. g.buf[2].ptrs = w.buf[2].ptrs
      BY <2>8, <3>1 DEF Taken
    <3>4. QED BY <1>9, <3>2, <3>3
  <2>19. r.last_minimum_ts \in Nat
    <3>1. r \in Manager
      BY <2>15, OrderlyFields
    <3>2. QED BY <3>1, ManagerFields
  <2>20. QED BY <2>16, <2>17, <2>18, <2>19
<1>12. Len(q) + 1 < Size \/ Len(q) + 1 = Size
  <2> HIDE DEF q
  <2>1. QED BY <1>2, <1>3, <1>5
<1>13. QED BY <1>10, <1>11, <1>12

----------------------------------------------------------------------------
(* TxAbort *)

\* The chain from a to b has gone to the reusable buffers, and f is the last
\* buffer of frees.
PutBack(m, a, b, f, r) ==
  /\ r \in Manager /\ r.freed_in_tx = f /\ r.freed_in_tx_old = m.freed_in_tx_old
  /\ r.freed_logically = m.freed_logically /\ r.reusable = a
  /\ r.allocated = m.allocated
  /\ \A i \in Buffer :
       /\ r.buf[i].ptrs = m.buf[i].ptrs /\ r.buf[i].rollback_next_ptr = m.buf[i].rollback_next_ptr
       /\ r.buf[i].ts = m.buf[i].ts /\ r.buf[i].init_ts = m.buf[i].init_ts
       /\ r.buf[i].next = IF i = b THEN m.reusable ELSE m.buf[i].next
       /\ r.buf[i].prev = IF i = a THEN NULL ELSE IF i = m.reusable THEN b ELSE m.buf[i].prev

LEMMA PutBackIs ==
  ASSUME NEW m \in Manager, NEW a \in Buffer, NEW b \in Buffer, NEW f \in Buffer,
         NEW r, r = [PutInFront(m, "reusable", a, b) EXCEPT !.freed_in_tx = f]
  PROVE  PutBack(m, a, b, f, r)
<1> DEFINE buf == Relinked(m.buf, a, b, m.reusable)
<1>1. r = [[m EXCEPT !.reusable = a, !.buf = buf] EXCEPT !.freed_in_tx = f]
  BY InFrontOfReusable
<1>2. m.buf \in [Buffer -> BufferType] /\ m.reusable \in 0 .. Buffers
  BY ManagerFields
<1>3. /\ buf \in [Buffer -> BufferType]
      /\ \A i \in Buffer :
           /\ buf[i].ptrs = m.buf[i].ptrs /\ buf[i].rollback_next_ptr = m.buf[i].rollback_next_ptr
           /\ buf[i].ts = m.buf[i].ts /\ buf[i].init_ts = m.buf[i].init_ts
           /\ buf[i].next = IF i = b THEN m.reusable ELSE m.buf[i].next
           /\ buf[i].prev = IF i = a THEN NULL ELSE IF i = m.reusable THEN b ELSE m.buf[i].prev
  <2>1. AreRelinked(m.buf, a, b, m.reusable, buf)
    BY <1>2, RelinkedIs
  <2> HIDE DEF buf
  <2>2. QED BY <2>1 DEF AreRelinked
<1> HIDE DEF buf
<1>4. a \in 0 .. Buffers
  BY TwoIsBuffer DEF Buffer
<1>5. /\ r \in Manager /\ r.buf = buf /\ r.freed_in_tx = f /\ r.freed_in_tx_old = m.freed_in_tx_old
      /\ r.freed_logically = m.freed_logically /\ r.reusable = a
      /\ r.allocated = m.allocated
  <2> DEFINE q == [m EXCEPT !.reusable = a, !.buf = buf]
  <2>1. q \in Manager
    BY <1>3, <1>4 DEF Manager
  <2>2. /\ q.buf = buf /\ q.reusable = a /\ q.freed_in_tx_old = m.freed_in_tx_old
        /\ q.freed_logically = m.freed_logically /\ q.allocated = m.allocated
    BY DEF Manager
  <2>3. r = [q EXCEPT !.freed_in_tx = f]
    BY <1>1
  <2> HIDE DEF q
  <2>4. /\ r.buf = q.buf /\ r.freed_in_tx = f /\ r.freed_in_tx_old = q.freed_in_tx_old
        /\ r.freed_logically = q.freed_logically /\ r.reusable = q.reusable
        /\ r.allocated = q.allocated
    BY <2>1, <2>3 DEF Manager
  <2>5. r \in Manager
    BY <2>1, <2>3 DEF Manager
  <2>6. QED BY <2>2, <2>4, <2>5
<1>6. QED BY <1>3, <1>5 DEF PutBack

\* The frees of the transaction are taken back: of its buffers the first is
\* left, with the pointers p.
TakenBack(m, T, n, p, r) ==
  /\ r \in Manager /\ r.freed_in_tx = T[1] /\ r.freed_in_tx_old = T[1]
  /\ r.freed_logically = m.freed_logically /\ r.allocated = m.allocated
  /\ r.reusable = IF n = 1 THEN m.reusable ELSE T[2]
  /\ r.buf[T[1]].ptrs = p
  /\ \A i \in Buffer :
       /\ i # T[1] => r.buf[i].ptrs = m.buf[i].ptrs
       /\ r.buf[i].rollback_next_ptr = m.buf[i].rollback_next_ptr
       /\ r.buf[i].ts = m.buf[i].ts /\ r.buf[i].init_ts = m.buf[i].init_ts
       /\ r.buf[i].next = IF n > 1 /\ i = T[n] THEN m.reusable ELSE m.buf[i].next
       /\ r.buf[i].prev = m.buf[i].prev \/ (n > 1 /\ i \in {T[2], m.reusable})

LEMMA ForgetDeallocationsIs ==
  ASSUME NEW m, NEW T, NEW n, NEW L, NEW k, NEW R, Orderly(m, T, n, L, k, R),
         NEW p \in Seq(Block), p = SubSeq(m.buf[T[1]].ptrs, 1, m.buf[T[1]].rollback_next_ptr),
         NEW r, r = ForgetDeallocations(m)
  PROVE  TakenBack(m, T, n, p, r)
<1>1. /\ m \in Manager /\ n \in Nat \ {0} /\ T \in [1 .. n -> Buffer]
      /\ 1 \in 1 .. n /\ n \in 1 .. n /\ T[1] \in Buffer /\ T[n] \in Buffer
  BY OrderlyFields
<1>2. m.freed_in_tx_old = T[1] /\ m.freed_in_tx = T[n] /\ Listed(m.buf, T, n)
  BY DEF Orderly, FreesInOrder
<1>3. T[1] = T[n] <=> n = 1
  BY <1>1, <1>2 DEF Listed
<1> DEFINE w == WithPtrs(m, T[1], p)
<1>4. PtrsChanged(m, T[1], p, w)
  <2>1. w = WithPtrs(m, T[1], p)
    OBVIOUS
  <2> HIDE DEF w
  <2>2. QED BY <1>1, <2>1, PtrsWith
<1>5. r = IF T[1] = T[n] THEN w
          ELSE [PutInFront(w, "reusable", m.buf[T[1]].next, T[n]) EXCEPT !.freed_in_tx = T[1]]
  BY <1>2 DEF ForgetDeallocations, WithPtrs
<1> HIDE DEF w
<1>6. /\ w \in Manager
      /\ w.freed_in_tx = m.freed_in_tx /\ w.freed_in_tx_old = m.freed_in_tx_old
      /\ w.freed_logically = m.freed_logically /\ w.reusable = m.reusable
      /\ w.allocated = m.allocated /\ w.buf[T[1]].ptrs = p
      /\ \A i \in Buffer :
           /\ i # T[1] => w.buf[i].ptrs = m.buf[i].ptrs
           /\ w.buf[i].rollback_next_ptr = m.buf[i].rollback_next_ptr
           /\ w.buf[i].ts = m.buf[i].ts /\ w.buf[i].init_ts = m.buf[i].init_ts
           /\ w.buf[i].next = m.buf[i].next /\ w.buf[i].prev = m.buf[i].prev
  <2>1. /\ w.buf[T[1]].rollback_next_ptr = m.buf[T[1]].rollback_next_ptr
        /\ w.buf[T[1]].ts = m.buf[T[1]].ts /\ w.buf[T[1]].init_ts = m.buf[T[1]].init_ts
        /\ w.buf[T[1]].next = m.buf[T[1]].next /\ w.buf[T[1]].prev = m.buf[T[1]].prev
        /\ \A j \in Buffer \ {T[1]} : w.buf[j] = m.buf[j]
    BY <1>4 DEF PtrsChanged
  <2>2. /\ w \in Manager
        /\ w.freed_in_tx = m.freed_in_tx /\ w.freed_in_tx_old = m.freed_in_tx_old
        /\ w.freed_logically = m.freed_logically /\ w.reusable = m.reusable
        /\ w.allocated = m.allocated /\ w.buf[T[1]].ptrs = p
    BY <1>4 DEF PtrsChanged
  <2>3. ASSUME NEW i \in Buffer
        PROVE  /\ i # T[1] => w.buf[i].ptrs = m.buf[i].ptrs
               /\ w.buf[i].rollback_next_ptr = m.buf[i].rollback_next_ptr
               /\ w.buf[i].ts = m.buf[i].ts /\ w.buf[i].init_ts = m.buf[i].init_ts
               /\ w.buf[i].next = m.buf[i].next /\ w.buf[i].prev = m.buf[i].prev
    <3>1. CASE i = T[1]
      BY <2>1, <3>1
    <3>2. CASE i # T[1]
      BY <2>1, <3>2
    <3>3. QED BY <3>1, <3>2
  <2>4. QED BY <2>2, <2>3
<1>7. CASE n = 1
  <2>1. r = w
    BY <1>3, <1>5, <1>7
  <2>2. T[1] = T[n]
    BY <1>7
  <2>3. QED BY <1>2, <1>6, <1>7, <2>1, <2>2 DEF TakenBack
<1>8. CASE n > 1
  <2>1. m.buf[T[1]].next = T[2] /\ T[2] \in Buffer
    <3>1. 1 \in 1 .. n - 1 /\ 2 \in 1 .. n /\ 1 + 1 = 2
      BY <1>1, <1>8
    <3>2. QED BY <1>1, <1>2, <3>1 DEF Listed
  <2>2. T[1] # T[n]
    BY <1>3, <1>8
  <2>3. r = [PutInFront(w, "reusable", T[2], T[n]) EXCEPT !.freed_in_tx = T[1]]
    BY <1>5, <2>1, <2>2
  <2>4. PutBack(w, T[2], T[n], T[1], r)
    BY <1>1, <1>6, <2>1, <2>3, PutBackIs
  <2>5. /\ r \in Manager /\ r.freed_in_tx = T[1] /\ r.freed_in_tx_old = T[1]
        /\ r.freed_logically = m.freed_logically /\ r.allocated = m.allocated
        /\ r.reusable = T[2] /\ r.buf[T[1]].ptrs = p
    BY <1>1, <1>2, <1>6, <2>4 DEF PutBack
  <2>6. ASSUME NEW i \in Buffer
        PROVE  /\ i # T[1] => r.buf[i].ptrs = m.buf[i].ptrs
               /\ r.buf[i].rollback_next_ptr = m.buf[i].rollback_next_ptr
               /\ r.buf[i].ts = m.buf[i].ts /\ r.buf[i].init_ts = m.buf[i].init_ts
               /\ r.buf[i].next = IF i = T[n] THEN m.reusable ELSE m.buf[i].next
               /\ r.buf[i].prev = m.buf[i].prev \/ i \in {T[2], m.reusable}
    BY <1>6, <2>4 DEF PutBack
  <2>7. ~ (n = 1)
    BY <1>8
  <2>8. QED BY <1>8, <2>5, <2>6, <2>7 DEF TakenBack
<1>9. QED BY <1>1, <1>7, <1>8

LEMMA TakenBackIsOrderly ==
  ASSUME NEW m, NEW T, NEW n, NEW L, NEW k, NEW R, Orderly(m, T, n, L, k, R),
         NEW p, NEW z \in Nat, z = m.buf[T[1]].rollback_next_ptr, Len(p) = z,
         NEW r, TakenBack(m, T, n, p, r)
  PROVE  \E S, Q : Orderly(r, S, 1, L, k, Q) /\ S[1] = T[1]
<1> DEFINE S == [i \in 1 .. 1 |-> T[1]]
           Q == R \cup From(T, 2, n)
<1>1. /\ m \in Manager /\ n \in Nat \ {0} /\ k \in Nat
      /\ T \in [1 .. n -> Buffer] /\ L \in [1 .. k -> Buffer] /\ R \subseteq Buffer
      /\ 1 \in 1 .. n /\ n \in 1 .. n /\ T[1] \in Buffer
      /\ m.allocated \in 2 .. Buffers /\ m.reusable \in 0 .. Buffers
      /\ Buffers \in Nat /\ Size \in Nat \ {0} /\ 2 \in Buffer /\ NULL = 0
  BY OrderlyFields, ManagerFields, TwoIsBuffer
<1>2. FreesInOrder(m, T, n) /\ LogicalInOrder(m, L, k) /\ ReusableInOrder(m, R)
      /\ Apart(m, T, n, L, k, R) /\ AllocsInOrder(m)
  BY DEF Orderly
<1>3. Listed(m.buf, T, n) /\ Listed(m.buf, L, k) /\ Ends(m.buf, L, k)
  BY <1>2 DEF FreesInOrder, LogicalInOrder
<1>4. S \in [1 .. 1 -> Buffer] /\ S[1] = T[1] /\ 1 .. 1 = {1} /\ 1 .. 0 = {}
  BY <1>1
<1> HIDE DEF S
<1>5. /\ r \in Manager /\ r.freed_in_tx = T[1] /\ r.freed_in_tx_old = T[1]
      /\ r.freed_logically = m.freed_logically /\ r.allocated = m.allocated
      /\ r.reusable = IF n = 1 THEN m.reusable ELSE T[2]
      /\ r.buf[T[1]].ptrs = p
  BY DEF TakenBack
<1>6. \A i \in Buffer :
       /\ i # T[1] => r.buf[i].ptrs = m.buf[i].ptrs
       /\ r.buf[i].rollback_next_ptr = m.buf[i].rollback_next_ptr
       /\ r.buf[i].ts = m.buf[i].ts /\ r.buf[i].init_ts = m.buf[i].init_ts
       /\ r.buf[i].next = IF n > 1 /\ i = T[n] THEN m.reusable ELSE m.buf[i].next
       /\ r.buf[i].prev = m.buf[i].prev \/ (n > 1 /\ i \in {T[2], m.reusable})
  BY DEF TakenBack
<1>7. FreesInOrder(r, S, 1)
  <2>1. Listed(r.buf, S, 1)
    BY <1>4 DEF Listed
  <2>2. r.buf[S[1]].rollback_next_ptr = z /\ Len(r.buf[S[1]].ptrs) = z /\ ~ r.buf[S[1]].init_ts
    <3>1. S[1] \in Buffer /\ 1 \in 1 .. n
      BY <1>1, <1>4
    <3>2. r.buf[T[1]].rollback_next_ptr = m.buf[T[1]].rollback_next_ptr
          /\ r.buf[T[1]].init_ts = m.buf[T[1]].init_ts
      BY <1>4, <1>6, <3>1
    <3>3. ~ m.buf[T[1]].init_ts
      BY <1>2, <3>1 DEF FreesInOrder
    <3>4. QED BY <1>1, <1>4, <1>5, <3>2, <3>3
  <2>3. z < Size
    BY <1>2 DEF FreesInOrder
  <2>4. \A i \in 1 .. 1 - 1 : FALSE
    OBVIOUS
  <2>5. \A i \in 2 .. 1 : FALSE
    OBVIOUS
  <2>6. r.freed_in_tx_old = S[1] /\ r.freed_in_tx = S[1]
    BY <1>4, <1>5
  <2>7. \A i \in 1 .. 1 : ~ r.buf[S[i]].init_ts
    BY <1>4, <2>2
  <2>8. z <= z
    OBVIOUS
  <2>9. QED BY <2>1, <2>2, <2>3, <2>4, <2>5, <2>6, <2>7, <2>8 DEF FreesInOrder
<1>8. \A i \in 1 .. n : T[i] \in Buffer /\ T[i] <= m.allocated /\ T[i] # 2 /\ T[i] \notin R
  BY <1>1, <1>2 DEF Apart
<1>9. m.reusable \in R \cup {NULL}
  BY <1>2 DEF ReusableInOrder
<1>10. \A i \in 1 .. k :
         /\ r.buf[L[i]].ptrs = m.buf[L[i]].ptrs
         /\ r.buf[L[i]].ts = m.buf[L[i]].ts /\ r.buf[L[i]].init_ts = m.buf[L[i]].init_ts
         /\ r.buf[L[i]].next = m.buf[L[i]].next /\ r.buf[L[i]].prev = m.buf[L[i]].prev
  <2> SUFFICES ASSUME NEW i \in 1 .. k
               PROVE  /\ r.buf[L[i]].ptrs = m.buf[L[i]].ptrs
                      /\ r.buf[L[i]].ts = m.buf[L[i]].ts /\ r.buf[L[i]].init_ts = m.buf[L[i]].init_ts
                      /\ r.buf[L[i]].next = m.buf[L[i]].next /\ r.buf[L[i]].prev = m.buf[L[i]].prev
    OBVIOUS
  <2>1. L[i] \in Buffer /\ \A j \in 1 .. n : T[j] # L[i]
    BY <1>1, <1>2 DEF Apart
  <2>2. L[i] \notin R /\ L[i] # NULL
    BY <1>1, <1>2, <2>1 DEF Apart, Buffer
  <2>3. L[i] # T[1] /\ L[i] # T[n] /\ L[i] # m.reusable
    BY <1>1, <1>9, <2>1, <2>2
  <2>4. n > 1 => L[i] # T[2]
    BY <1>1, <2>1
  <2>5. QED BY <1>6, <2>1, <2>3, <2>4
<1>11. LogicalInOrder(r, L, k)
  <2>1. \A i \in 1 .. k - 1 : i \in 1 .. k /\ i + 1 \in 1 .. k
    BY <1>1
  <2>2. k > 0 => 1 \in 1 .. k /\ k \in 1 .. k
    BY <1>1
  <2>3. Listed(r.buf, L, k) /\ Ends(r.buf, L, k)
    BY <1>3, <1>10, <2>1, <2>2 DEF Listed, Ends
  <2>4. QED BY <1>2, <1>5, <1>10, <2>1, <2>2, <2>3 DEF LogicalInOrder
<1>12. From(T, 2, n) \subseteq Buffer /\ \A i \in 2 .. n : i \in 1 .. n /\ T[i] # T[1]
  <2>1. \A i \in 2 .. n : i \in 1 .. n /\ i # 1
    BY <1>1
  <2>2. \A i \in 2 .. n : T[i] # T[1]
    BY <1>1, <1>3, <2>1 DEF Listed
  <2>3. QED BY <1>1, <2>1, <2>2 DEF From
<1>13. ASSUME NEW i \in Q
       PROVE  i \in Buffer /\ i # T[1] /\ i # 2 /\ i <= m.allocated
  <2>1. CASE i \in R
    <3>1. i \in (1 .. m.allocated) \ {2}
      BY <1>2, <2>1 DEF Apart
    <3>2. QED BY <1>1, <1>8, <2>1, <3>1
  <2>2. CASE i \in From(T, 2, n)
    BY <1>8, <1>12, <2>2 DEF From
  <2>3. QED BY <2>1, <2>2
<1>14. ASSUME n > 1
       PROVE  /\ r.reusable = T[2] /\ T[2] \in From(T, 2, n) /\ 2 \in 2 .. n /\ n \in 2 .. n
              /\ T[n] \in Buffer /\ r.buf[T[n]].next = m.reusable
              /\ \A i \in 2 .. n - 1 : r.buf[T[i]].next = T[i + 1] /\ i + 1 \in 2 .. n /\ i \in 2 .. n
  <2>1. 2 \in 2 .. n /\ n \in 2 .. n /\ n # 1
    BY <1>1, <1>14
  <2>2. r.reusable = T[2] /\ T[2] \in From(T, 2, n)
    BY <1>5, <2>1 DEF From
  <2>3. T[n] \in Buffer /\ r.buf[T[n]].next = m.reusable
    BY <1>1, <1>6, <1>14
  <2>4. ASSUME NEW i \in 2 .. n - 1 PROVE r.buf[T[i]].next = T[i + 1] /\ i + 1 \in 2 .. n /\ i \in 2 .. n
    <3>1. i \in 1 .. n - 1 /\ i \in 1 .. n /\ i # n /\ i + 1 \in 2 .. n /\ i \in 2 .. n
      BY <1>1
    <3>2. m.buf[T[i]].next = T[i + 1] /\ T[i] # T[n] /\ T[i] \in Buffer
      BY <1>1, <1>3, <3>1 DEF Listed
    <3>3. QED BY <1>6, <3>1, <3>2
  <2>5. QED BY <2>1, <2>2, <2>3, <2>4
<1>15. \A i \in R : i \in Buffer /\ i # T[n] /\ r.buf[i].next = m.buf[i].next
  BY <1>1, <1>6, <1>8
<1>16. n = 1 => From(T, 2, n) = {} /\ r.reusable = m.reusable
  <2>1. n = 1 => 2 .. n = {}
    OBVIOUS
  <2>2. QED BY <1>5, <2>1 DEF From
<1>17. ReusableInOrder(r, Q)
  <2>1. /\ \A i \in R : m.buf[i].next \in R \cup {NULL} /\ m.buf[i].next \notin {m.reusable} \ {NULL}
        /\ \A i, j \in R : m.buf[i].next = m.buf[j].next /\ m.buf[i].next # NULL => i = j
    BY <1>2 DEF ReusableInOrder
  <2>2. CASE n = 1
    <3>1. Q = R /\ r.reusable = m.reusable
      BY <1>16, <2>2
    <3>2. QED BY <1>9, <1>15, <2>1, <3>1 DEF ReusableInOrder
  <2>3. CASE n > 1
    <3>1. r.reusable \in Q /\ r.reusable = T[2] /\ T[2] \notin R /\ T[2] # NULL
      <4>1. T[2] \notin R /\ T[2] \in Buffer
        BY <1>8, <1>12, <1>14, <2>3
      <4>2. QED BY <1>1, <1>14, <2>3, <4>1 DEF Buffer
    <3>2. ASSUME NEW i \in R
          PROVE  r.buf[i].next \in R \cup {NULL} /\ r.buf[i].next # T[2] /\ (r.buf[i].next = m.reusable => r.buf[i].next = NULL)
      BY <1>15, <2>1, <3>1
    <3>3. ASSUME NEW i \in 2 .. n
          PROVE  \/ i \in 2 .. n - 1 /\ i + 1 \in 2 .. n /\ r.buf[T[i]].next = T[i + 1]
                 \/ i = n /\ r.buf[T[i]].next = m.reusable
      <4>1. i \in 2 .. n - 1 \/ i = n
        BY <1>1
      <4>2. QED BY <1>14, <2>3, <4>1
    <3>4. \A i, j \in 2 .. n : T[i] = T[j] => i = j
      BY <1>3, <1>12 DEF Listed
    <3>5. ASSUME NEW i \in 2 .. n PROVE T[i] \notin R /\ T[i] # NULL
      <4>1. T[i] \notin R /\ T[i] \in Buffer
        BY <1>8, <1>12
      <4>2. QED BY <1>1, <4>1 DEF Buffer
    <3>6. \A i \in 2 .. n - 1 : i \in Int /\ i + 1 # 2
      BY <1>1
    <3>7. ASSUME NEW i \in 2 .. n
          PROVE  r.buf[T[i]].next \in Q \cup {NULL} /\ r.buf[T[i]].next # T[2]
      <4>1. CASE i = n /\ r.buf[T[i]].next = m.reusable
        BY <1>9, <3>1, <4>1
      <4>2. CASE i \in 2 .. n - 1 /\ i + 1 \in 2 .. n /\ r.buf[T[i]].next = T[i + 1]
        <5>1. i + 1 # 2 /\ 2 \in 2 .. n
          BY <1>14, <2>3, <3>6, <4>2
        <5>2. T[i + 1] # T[2]
          BY <3>4, <4>2, <5>1
        <5>3. T[i + 1] \in From(T, 2, n)
          BY <4>2 DEF From
        <5>4. QED BY <4>2, <5>2, <5>3
      <4>3. QED BY <3>3, <4>1, <4>2
    <3>8. ASSUME NEW i \in 2 .. n, NEW j \in 2 .. n, r.buf[T[i]].next = r.buf[T[j]].next
          PROVE  T[i] = T[j]
      <4>1. CASE i = n /\ r.buf[T[i]].next = m.reusable
        <5>1. ~ (j \in 2 .. n - 1 /\ j + 1 \in 2 .. n /\ r.buf[T[j]].next = T[j + 1])
          BY <1>9, <3>5, <3>8, <4>1
        <5>2. QED BY <3>3, <4>1, <5>1
      <4>2. CASE i \in 2 .. n - 1 /\ i + 1 \in 2 .. n /\ r.buf[T[i]].next = T[i + 1]
        <5>1. ~ (j = n /\ r.buf[T[j]].next = m.reusable)
          BY <1>9, <3>5, <3>8, <4>2
        <5>2. j + 1 \in 2 .. n /\ r.buf[T[j]].next = T[j + 1]
          BY <3>3, <5>1
        <5>3. i + 1 = j + 1
          BY <3>4, <3>8, <4>2, <5>2
        <5>4. QED BY <5>3
      <4>3. QED BY <3>3, <4>1, <4>2
    <3>9. ASSUME NEW i \in R, NEW j \in 2 .. n, r.buf[i].next = r.buf[T[j]].next, r.buf[i].next # NULL
          PROVE  FALSE
      <4>1. r.buf[i].next \in R /\ r.buf[i].next # m.reusable
        BY <3>2, <3>9
      <4>2. QED BY <3>3, <3>5, <3>9, <4>1
    <3>10. \A i \in Q : r.buf[i].next \in Q \cup {NULL} /\ r.buf[i].next # T[2]
      BY <3>2, <3>7 DEF From
    <3>11. ASSUME NEW i \in Q, NEW j \in Q, r.buf[i].next = r.buf[j].next, r.buf[i].next # NULL PROVE i = j
      <4>1. CASE i \in R /\ j \in R
        BY <1>15, <2>1, <3>11, <4>1
      <4>2. CASE i \in R /\ j \notin R
        BY <3>9, <3>11, <4>2 DEF From
      <4>3. CASE i \notin R /\ j \in R
        BY <3>9, <3>11, <4>3 DEF From
      <4>4. CASE i \notin R /\ j \notin R
        BY <3>8, <3>11, <4>4 DEF From
      <4>5. QED BY <4>1, <4>2, <4>3, <4>4
    <3> HIDE DEF Q
    <3>12. QED BY <3>1, <3>10, <3>11 DEF ReusableInOrder
  <2>4. QED BY <1>1, <2>2, <2>3
<1>18. Apart(r, S, 1, L, k, Q)
  <2>1. Q \subseteq (1 .. r.allocated) \ {2}
    <3>1. ASSUME NEW i \in Q PROVE i \in 1 .. m.allocated /\ i # 2
      <4>1. i \in Buffer /\ i # 2 /\ i <= m.allocated
        BY <1>13
      <4>2. QED BY <1>1, <4>1 DEF Buffer
    <3> HIDE DEF Q
    <3>2. QED BY <1>5, <3>1
  <2>2. S[1] <= r.allocated /\ S[1] # 2 /\ S[1] \notin Q
    <3>1. T[1] <= m.allocated /\ T[1] # 2
      BY <1>1, <1>8
    <3>2. T[1] \notin Q
      BY <1>13
    <3>3. QED BY <1>4, <1>5, <3>1, <3>2
  <2>3. ASSUME NEW i \in 1 .. k PROVE L[i] <= r.allocated /\ L[i] # 2 /\ L[i] \notin Q /\ L[i] # T[1]
    <3>1. L[i] <= m.allocated /\ L[i] # 2 /\ L[i] \notin R /\ \A j \in 1 .. n : T[j] # L[i]
      BY <1>2 DEF Apart
    <3>2. L[i] \notin From(T, 2, n)
      BY <1>12, <3>1 DEF From
    <3>3. QED BY <1>1, <1>5, <3>1, <3>2
  <2>4. ASSUME NEW i \in Buffer, i > r.allocated PROVE r.buf[i] = CleanBuffer
    <3>1. i > m.allocated /\ m.buf[i] = CleanBuffer
      BY <1>2, <1>5, <2>4 DEF Apart
    <3>2. i # T[1] /\ i # T[n]
      <4>1. T[1] \in Buffer /\ T[n] \in Buffer /\ T[1] <= m.allocated /\ T[n] <= m.allocated
        BY <1>1, <1>8
      <4>2. QED BY <1>1, <3>1, <4>1 DEF Buffer
    <3>3. i # m.reusable /\ (n > 1 => i # T[2])
      <4>1. m.reusable # NULL => m.reusable \in Buffer /\ m.reusable <= m.allocated
        BY <1>1, <1>2, <1>9 DEF Apart
      <4>2. n > 1 => T[2] \in Buffer /\ T[2] <= m.allocated
        BY <1>8, <1>12, <1>14
      <4>3. QED BY <1>1, <3>1, <4>1, <4>2 DEF Buffer
    <3>4. r.buf[i].ptrs = m.buf[i].ptrs /\ r.buf[i].rollback_next_ptr = m.buf[i].rollback_next_ptr
          /\ r.buf[i].ts = m.buf[i].ts /\ r.buf[i].init_ts = m.buf[i].init_ts
          /\ r.buf[i].next = m.buf[i].next /\ r.buf[i].prev = m.buf[i].prev
      BY <1>6, <3>2, <3>3
    <3>5. r.buf[i] \in BufferType /\ m.buf[i] \in BufferType
      BY <1>1, <1>5, BufferFields
    <3>6. r.buf[i] = m.buf[i]
      BY <3>4, <3>5, SameBuffer
    <3>7. QED BY <3>1, <3>6
  <2> HIDE DEF Q
  <2>5. \A i \in 1 .. 1 : i = 1
    BY <1>4
  <2>6. /\ \A i \in 1 .. 1 : S[i] <= r.allocated /\ S[i] # 2 /\ S[i] \notin Q
        /\ \A i \in 1 .. 1, j \in 1 .. k : S[i] # L[j]
    BY <1>4, <2>2, <2>3, <2>5
  <2>7. QED BY <2>1, <2>3, <2>4, <2>6 DEF Apart
<1>19. AllocsInOrder(r)
  <2>1. T[1] # 2 /\ T[n] # 2
    BY <1>1, <1>8
  <2>2. r.buf[2].ptrs = m.buf[2].ptrs /\ r.buf[2].next = m.buf[2].next
    BY <1>1, <1>6, <2>1
  <2>3. QED BY <1>2, <2>2 DEF AllocsInOrder
<1> HIDE DEF Q
<1>20. Orderly(r, S, 1, L, k, Q)
  BY <1>5, <1>7, <1>11, <1>17, <1>18, <1>19 DEF Orderly
<1>21. QED BY <1>4, <1>20

\* What is left of the frees, and what the allocations are.
Aborted(m, r) ==
  /\ InOrder(r)
  /\ Slots(r) = Slots(m) \ NowSlots(m) /\ NowSlots(r) = {}
  /\ \A s \in Slots(r) : Ptr(r, s) = Ptr(m, s)
  /\ \A x : Stamped(r, x) <=> Stamped(m, x)
  /\ \A x, s : Under(r, x, s) <=> Under(m, x, s) /\ s \in Slots(r)

StampsAgree(m, r) ==
  \A x : /\ Stamped(r, x) <=> Stamped(m, x)
         /\ \A s : s \in Slots(r) /\ s \in Slots(m) => (Under(r, x, s) <=> Under(m, x, s))

LEMMA SameStampsAgree ==
  ASSUME NEW m, NEW T, NEW n, NEW L, NEW k, NEW R, Orderly(m, T, n, L, k, R),
         NEW r, NEW S, NEW l, NEW Q, Orderly(r, S, l, L, k, Q),
         \A i \in 1 .. k : r.buf[L[i]].ts = m.buf[L[i]].ts /\ r.buf[L[i]].init_ts = m.buf[L[i]].init_ts
  PROVE  StampsAgree(m, r)
  BY SameStamps DEF StampsAgree

LEMMA TakenBackSeen ==
  ASSUME NEW m, NEW T, NEW n, NEW L, NEW k, NEW R, Orderly(m, T, n, L, k, R),
         NEW p \in Seq(Block), NEW z \in Nat, z = m.buf[T[1]].rollback_next_ptr, Len(p) = z,
         \A j \in 1 .. z : p[j] = m.buf[T[1]].ptrs[j],
         NEW r, TakenBack(m, T, n, p, r)
  PROVE  Aborted(m, r)
<1> DEFINE q == m.buf[T[1]].ptrs
<1>1. /\ m \in Manager /\ n \in Nat \ {0} /\ k \in Nat
      /\ T \in [1 .. n -> Buffer] /\ L \in [1 .. k -> Buffer]
      /\ 1 \in 1 .. n /\ T[1] \in Buffer
  BY OrderlyFields
<1>2. z \in Nat /\ q \in Seq(Block)
  BY <1>1, BufferFields
<1>3. z <= Len(q)
  BY DEF Orderly, FreesInOrder
<1>4. Len(p) = z /\ DOMAIN p = 1 .. z /\ DOMAIN q = 1 .. Len(q) /\ Len(q) \in Nat
      /\ \A j \in 1 .. z : p[j] = q[j] /\ j \in 1 .. Len(q)
  <2>1. \A j \in 1 .. z : p[j] = q[j]
    OBVIOUS
  <2> HIDE DEF q
  <2>2. QED BY <1>2, <1>3, <2>1
<1>5. PICK S, Q : Orderly(r, S, 1, L, k, Q) /\ S[1] = T[1]
  BY TakenBackIsOrderly
<1>6. InOrder(r)
  BY <1>5 DEF InOrder
<1>7. \A i \in 1 .. n, j \in 1 .. k : T[i] # L[j]
  BY DEF Orderly, Apart
<1>8. T[1] \in From(T, 1, n) /\ From(S, 1, 1) = {T[1]}
      /\ From(T, 1, n) \cap From(L, 1, k) = {} /\ From(L, 1, k) \subseteq Buffer
  <2>1. 1 .. 1 = {1}
    OBVIOUS
  <2>2. QED BY <1>1, <1>5, <1>7, <2>1 DEF From
<1>9. r.buf[T[1]].ptrs = p /\ r.buf[T[1]].rollback_next_ptr = z
      /\ \A i \in From(L, 1, k) : r.buf[i].ptrs = m.buf[i].ptrs
  BY <1>1, <1>8 DEF TakenBack
<1>10. ASSUME NEW i, NEW j
       PROVE  /\ <<i, j>> \in Slots(m) <=>
                   i \in From(T, 1, n) \cup From(L, 1, k) /\ j \in 1 .. Size /\ j \in DOMAIN m.buf[i].ptrs
              /\ <<i, j>> \in NowSlots(m) <=>
                   /\ i \in From(T, 1, n) /\ j \in 1 .. Size /\ j \in DOMAIN m.buf[i].ptrs
                   /\ i = T[1] => j > m.buf[i].rollback_next_ptr
  <2>1. Slots(m) = SlotsBy(m, T, n, L, k) /\ NowSlots(m) = NowBy(m, T, n)
    BY SlotsFrom
  <2>2. QED BY <2>1 DEF SlotsBy, NowBy
<1>11. ASSUME NEW i, NEW j
       PROVE  /\ <<i, j>> \in Slots(r) <=>
                   i \in {T[1]} \cup From(L, 1, k) /\ j \in 1 .. Size /\ j \in DOMAIN r.buf[i].ptrs
              /\ <<i, j>> \in NowSlots(r) <=>
                   /\ i = T[1] /\ j \in 1 .. Size /\ j \in DOMAIN r.buf[i].ptrs
                   /\ j > r.buf[i].rollback_next_ptr
  <2>1. Slots(r) = SlotsBy(r, S, 1, L, k) /\ NowSlots(r) = NowBy(r, S, 1)
    BY <1>5, SlotsFrom
  <2>2. QED BY <1>5, <1>8, <2>1 DEF SlotsBy, NowBy
<1>12. \A s \in Slots(r) \cup Slots(m) \cup NowSlots(r) : s = <<s[1], s[2]>>
  BY DEF Slots, NowSlots
<1>13. DOMAIN r.buf[T[1]].ptrs = 1 .. z
  BY <1>4, <1>9
<1>14. DOMAIN m.buf[T[1]].ptrs = 1 .. Len(q)
  BY <1>4
<1>15. ASSUME NEW i, NEW j PROVE <<i, j>> \in Slots(r) <=> <<i, j>> \in Slots(m) /\ <<i, j>> \notin NowSlots(m)
  <2>1. CASE i = T[1]
    <3>1. j \in 1 .. z <=> j \in 1 .. Len(q) /\ ~ (j > z)
      <4> HIDE DEF q
      <4>1. QED BY <1>2, <1>3, <1>4
    <3>2. <<i, j>> \in Slots(r) <=> j \in 1 .. Size /\ j \in 1 .. z
      BY <1>11, <1>13, <2>1
    <3>3. <<i, j>> \in Slots(m) <=> j \in 1 .. Size /\ j \in 1 .. Len(q)
      BY <1>8, <1>10, <1>14, <2>1
    <3>4. <<i, j>> \in NowSlots(m) <=> j \in 1 .. Size /\ j \in 1 .. Len(q) /\ j > z
      BY <1>8, <1>10, <1>14, <2>1
    <3>5. QED BY <3>1, <3>2, <3>3, <3>4
  <2>2. CASE i # T[1] /\ i \in From(T, 1, n)
    <3>1. i \notin From(L, 1, k)
      BY <1>8, <2>2
    <3>2. QED BY <1>10, <1>11, <2>2, <3>1
  <2>3. CASE i # T[1] /\ i \notin From(T, 1, n)
    BY <1>9, <1>10, <1>11, <2>3
  <2>4. QED BY <2>1, <2>2, <2>3
<1>16. Slots(r) = Slots(m) \ NowSlots(m)
  <2>1. Slots(r) \subseteq Slots(m) \ NowSlots(m)
    BY <1>12, <1>15
  <2>2. Slots(m) \ NowSlots(m) \subseteq Slots(r)
    BY <1>12, <1>15
  <2>3. QED BY <2>1, <2>2
<1>17. NowSlots(r) = {}
  <2>1. ASSUME NEW i, NEW j PROVE <<i, j>> \notin NowSlots(r)
    <3>1. ~ (j \in 1 .. z /\ j > z)
      BY <1>2
    <3>2. QED BY <1>9, <1>11, <1>13, <3>1
  <2>2. QED BY <1>12, <2>1
<1>18. \A s \in Slots(r) : Ptr(r, s) = Ptr(m, s)
  <2> SUFFICES ASSUME NEW s \in Slots(r) PROVE Ptr(r, s) = Ptr(m, s)
    OBVIOUS
  <2>1. s = <<s[1], s[2]>>
    BY <1>12
  <2>2. s[1] \in {T[1]} \cup From(L, 1, k) /\ s[2] \in DOMAIN r.buf[s[1]].ptrs
    BY <1>11, <2>1
  <2>3. CASE s[1] = T[1]
    <3>1. s[2] \in 1 .. z
      BY <1>13, <2>2, <2>3
    <3>2. p[s[2]] = q[s[2]]
      BY <1>4, <3>1
    <3>3. QED BY <1>9, <2>3, <3>2 DEF Ptr
  <2>4. CASE s[1] \in From(L, 1, k)
    BY <1>9, <2>4 DEF Ptr
  <2>5. QED BY <2>2, <2>3, <2>4
<1>19. ASSUME NEW x PROVE (Stamped(r, x) <=> Stamped(m, x)) /\ \A s : Under(r, x, s) <=> Under(m, x, s) /\ s \in Slots(r)
  <2>1. \A i \in 1 .. k : r.buf[L[i]].ts = m.buf[L[i]].ts /\ r.buf[L[i]].init_ts = m.buf[L[i]].init_ts
    BY <1>1 DEF TakenBack
  <2>2. /\ Stamped(r, x) <=> Stamped(m, x)
        /\ \A s : s \in Slots(r) /\ s \in Slots(m) => (Under(r, x, s) <=> Under(m, x, s))
    <3>1. Orderly(r, S, 1, L, k, Q)
      BY <1>5
    <3>2. StampsAgree(m, r)
      BY <2>1, <3>1, SameStampsAgree
    <3>3. QED BY <3>2 DEF StampsAgree
  <2>3. \A s : Under(r, x, s) => s \in Slots(r)
    BY DEF Under
  <2>4. QED BY <1>16, <2>2, <2>3
<1>20. QED BY <1>6, <1>16, <1>17, <1>18, <1>19 DEF Aborted

\* The buffer of allocations is emptied.
LEMMA ForgetAllocationsIs ==
  ASSUME NEW m, NEW T, NEW n, NEW L, NEW k, NEW R, Orderly(m, T, n, L, k, R),
         NEW r, r = ForgetAllocations(m)
  PROVE  /\ Orderly(r, T, n, L, k, R) /\ SameFrees(m, r) /\ Pointers(r, 2) = {}
         /\ Len(r.buf[2].ptrs) = 0 /\ PtrsChanged(m, 2, <<>>, r)
<1>1. m \in Manager /\ m.alloced_in_tx = 2 /\ m.alloced_in_tx_old = 2 /\ 2 \in Buffer
  BY OrderlyFields, ManagerFields, TwoIsBuffer
<1>2. r = WithPtrs(m, 2, <<>>)
  BY <1>1 DEF ForgetAllocations, WithPtrs
<1>3. PtrsChanged(m, 2, <<>>, r)
  <2>1. <<>> \in Seq(Block)
    OBVIOUS
  <2>2. QED BY <1>1, <1>2, <2>1, PtrsWith
<1>4. r.buf[2].ptrs = <<>> /\ r.buf[2].next = m.buf[2].next
  BY <1>3 DEF PtrsChanged
<1>5. Len(r.buf[2].ptrs) = 0 /\ DOMAIN r.buf[2].ptrs = {}
  BY <1>4
<1>6. AllocsInOrder(r)
  BY <1>4, <1>5, MemoryAssumption DEF Orderly, AllocsInOrder
<1>7. Orderly(r, T, n, L, k, R) /\ SameFrees(m, r)
  BY <1>3, <1>6, AllocFrame DEF PtrsChanged
<1>8. Pointers(r, 2) = {}
  BY <1>5 DEF Pointers
<1>9. QED BY <1>3, <1>5, <1>7, <1>8

\* The chain from the buffer of allocations is that buffer.
LEMMA ChainOfAllocs ==
  ASSUME NEW m \in Manager, m.buf[2].next = NULL
  PROVE  Chain(m, 2) = {2}
<1> DEFINE s == [i \in 1 .. 1 |-> 2]
<1>1. 1 .. 1 = {1} /\ 1 .. 0 = {} /\ 1 \in 1 .. 1 /\ 2 \in Buffer
  BY TwoIsBuffer
<1>2. s \in [1 .. 1 -> Buffer] /\ s[1] = 2
  BY <1>1
<1> HIDE DEF s
<1>3. Listed(m.buf, s, 1)
  BY <1>1, <1>2 DEF Listed
<1>4. Ends(m.buf, s, 1)
  BY <1>2 DEF Ends
<1>5. Chain(m, s[1]) = From(s, 1, 1)
  BY <1>1, <1>3, <1>4, ChainOf
<1>6. From(s, 1, 1) = {2}
  BY <1>1, <1>2 DEF From
<1>7. QED BY <1>2, <1>5, <1>6

LEMMA SameFreesAborted ==
  ASSUME NEW m, NEW d, NEW r, Aborted(m, d), InOrder(r), SameFrees(d, r)
  PROVE  Aborted(m, r)
  BY DEF Aborted, SameFrees

LEMMA AbortM ==
  ASSUME NEW m, InOrder(m), NEW r, r = TxAbort(m)
  PROVE  /\ Aborted(m, r) /\ Pointers(r, 2) = {} /\ Len(r.buf[2].ptrs) = 0
         /\ RolledBack(m) = Pointers(m, 2)
<1>1. PICK T, n, L, k, R : Orderly(m, T, n, L, k, R)
  BY DEF InOrder
<1>2. /\ m \in Manager /\ 1 \in 1 .. n /\ n \in Nat \ {0} /\ T \in [1 .. n -> Buffer] /\ T[1] \in Buffer
      /\ m.alloced_in_tx_old = 2 /\ 2 \in Buffer
  BY <1>1, OrderlyFields, ManagerFields, TwoIsBuffer
<1> DEFINE q == m.buf[T[1]].ptrs
           z == m.buf[T[1]].rollback_next_ptr
           p == SubSeq(q, 1, z)
           d == ForgetDeallocations(m)
<1>3. q \in Seq(Block) /\ z \in Nat
  BY <1>2, BufferFields
<1>4. z <= Len(q)
  BY <1>1 DEF Orderly, FreesInOrder
<1>5. p \in Seq(Block) /\ Len(p) = z /\ \A j \in 1 .. z : p[j] = q[j]
  <2> HIDE DEF q, z
  <2>1. QED BY <1>3, <1>4
<1>6. p = SubSeq(m.buf[T[1]].ptrs, 1, m.buf[T[1]].rollback_next_ptr) /\ d = ForgetDeallocations(m)
  OBVIOUS
<1>7. r = ForgetAllocations(d)
  BY DEF TxAbort
<1> HIDE DEF p, d
<1>8. TakenBack(m, T, n, p, d)
  BY <1>1, <1>5, <1>6, ForgetDeallocationsIs
<1>9. Aborted(m, d)
  <2>1. z \in Nat /\ z = m.buf[T[1]].rollback_next_ptr /\ \A j \in 1 .. z : p[j] = m.buf[T[1]].ptrs[j]
    BY <1>3, <1>5
  <2>2. QED BY <1>1, <1>5, <1>8, <2>1, TakenBackSeen
<1>10. PICK S, Q : Orderly(d, S, 1, L, k, Q)
  <2>1. z \in Nat /\ z = m.buf[T[1]].rollback_next_ptr
    BY <1>3
  <2>2. QED BY <1>1, <1>5, <1>8, <2>1, TakenBackIsOrderly
<1>11. Orderly(r, S, 1, L, k, Q) /\ SameFrees(d, r) /\ Pointers(r, 2) = {} /\ Len(r.buf[2].ptrs) = 0
  BY <1>7, <1>10, ForgetAllocationsIs
<1>12. InOrder(r)
  BY <1>11 DEF InOrder
<1>13. RolledBack(m) = Pointers(m, 2)
  <2>1. d \in Manager /\ d.buf[2].next = NULL
    BY <1>10 DEF Orderly, AllocsInOrder
  <2>2. Chain(d, 2) = {2}
    BY <2>1, ChainOfAllocs
  <2>3. RolledBack(m) = Pointers(d, 2)
    BY <1>2, <1>6, <2>2 DEF RolledBack
  <2>4. T[1] # 2
    BY <1>1, <1>2 DEF Orderly, Apart
  <2>5. d.buf[2].ptrs = m.buf[2].ptrs
    BY <1>2, <1>8, <2>4 DEF TakenBack
  <2>6. QED BY <2>3, <2>5 DEF Pointers
<1>14. Aborted(m, r)
  BY <1>9, <1>11, <1>12, SameFreesAborted
<1>15. QED BY <1>11, <1>13, <1>14

----------------------------------------------------------------------------
(* TxCommit *)

\* The frees of the transaction are kept, and its full buffers are stored,
\* stamped with x.
Kept(m, T, n, x, r) ==
  /\ r \in Manager /\ r.freed_in_tx = T[n] /\ r.freed_in_tx_old = T[n]
  /\ r.freed_logically = (IF n = 1 THEN m.freed_logically ELSE T[1])
  /\ r.reusable = m.reusable /\ r.allocated = m.allocated
  /\ \A i \in Buffer :
       /\ r.buf[i].ptrs = m.buf[i].ptrs
       /\ r.buf[i].rollback_next_ptr = (IF i = T[n] THEN Len(m.buf[i].ptrs) ELSE m.buf[i].rollback_next_ptr)
       /\ r.buf[i].ts = (IF n > 1 /\ i = T[1] THEN x ELSE m.buf[i].ts)
       /\ r.buf[i].init_ts = (IF n > 1 /\ i = T[1] THEN TRUE ELSE m.buf[i].init_ts)
       /\ r.buf[i].next = (IF n > 1 /\ i = T[n - 1] THEN m.freed_logically ELSE m.buf[i].next)
       /\ r.buf[i].prev = (IF n > 1 /\ i = T[1] THEN NULL
                           ELSE IF n > 1 /\ i = m.freed_logically THEN T[n - 1] ELSE m.buf[i].prev)

\* One buffer has changed.
HasChanged(m, i, new, r) ==
  /\ r \in Manager
  /\ r.freed_in_tx = m.freed_in_tx /\ r.freed_in_tx_old = m.freed_in_tx_old
  /\ r.freed_logically = m.freed_logically /\ r.reusable = m.reusable
  /\ r.allocated = m.allocated
  /\ r.buf[i] = new /\ \A j \in Buffer \ {i} : r.buf[j] = m.buf[j]

LEMMA BufferChanged ==
  ASSUME NEW m \in Manager, NEW i \in Buffer, NEW new \in BufferType, NEW r,
         r = [m EXCEPT !.buf = [m.buf EXCEPT ![i] = new]]
  PROVE  HasChanged(m, i, new, r)
<1> DEFINE buf == [m.buf EXCEPT ![i] = new]
<1>1. m.buf \in [Buffer -> BufferType]
  BY ManagerFields
<1>2. buf \in [Buffer -> BufferType] /\ buf[i] = new /\ \A j \in Buffer \ {i} : buf[j] = m.buf[j]
  BY <1>1
<1>3. r = [m EXCEPT !.buf = buf]
  OBVIOUS
<1> HIDE DEF buf
<1>4. r \in Manager /\ r.buf = buf
  BY <1>2, <1>3, ManagerWith
<1>5. /\ r.freed_in_tx = m.freed_in_tx /\ r.freed_in_tx_old = m.freed_in_tx_old
      /\ r.freed_logically = m.freed_logically /\ r.reusable = m.reusable
      /\ r.allocated = m.allocated
  BY <1>3 DEF Manager
<1>6. QED BY <1>2, <1>4, <1>5 DEF HasChanged

\* The transaction's timestamp has been set in buffer i, which is new then.
StampedAs(m, i, x, new, r) ==
  /\ new = [m.buf[i] EXCEPT !.ts = x, !.init_ts = TRUE]
  /\ r = [m EXCEPT !.buf[i].ts = x, !.buf[i].init_ts = TRUE]

LEMMA StampedChanges ==
  ASSUME NEW m \in Manager, NEW i \in Buffer, NEW x, NEW new \in BufferType, NEW r,
         StampedAs(m, i, x, new, r)
  PROVE  HasChanged(m, i, new, r)
<1>1. m.buf \in [Buffer -> BufferType] /\ m.buf[i] \in BufferType
  BY ManagerFields
<1>2. r = [m EXCEPT !.buf = [m.buf EXCEPT ![i] = new]]
  BY <1>1 DEF StampedAs, Manager, BufferType
<1>3. QED BY <1>2, BufferChanged

\* The chain from a to b has gone in front of the stored buffers.
IsStored(m, a, b, f, r) ==
  /\ r \in Manager /\ r.freed_in_tx = m.freed_in_tx /\ r.freed_in_tx_old = f
  /\ r.freed_logically = a /\ r.reusable = m.reusable /\ r.allocated = m.allocated
  /\ AreRelinked(m.buf, a, b, m.freed_logically, r.buf)

LEMMA StoredInFront ==
  ASSUME NEW m \in Manager, NEW a \in Buffer, NEW b \in Buffer, NEW f \in Buffer,
         NEW r, r = [PutInFront(m, "freed_logically", a, b) EXCEPT !.freed_in_tx_old = f]
  PROVE  IsStored(m, a, b, f, r)
<1> DEFINE buf == Relinked(m.buf, a, b, m.freed_logically)
<1>1. r = [[m EXCEPT !.freed_logically = a, !.buf = buf] EXCEPT !.freed_in_tx_old = f]
  BY InFrontOfLogical
<1>2. m.buf \in [Buffer -> BufferType] /\ m.freed_logically \in 0 .. Buffers
  BY ManagerFields
<1>3. AreRelinked(m.buf, a, b, m.freed_logically, buf)
  BY <1>2, RelinkedIs
<1> HIDE DEF buf
<1>4. a \in 0 .. Buffers /\ buf \in [Buffer -> BufferType]
  BY <1>3, TwoIsBuffer DEF Buffer, AreRelinked
<1>5. /\ r \in Manager /\ r.buf = buf /\ r.freed_in_tx = m.freed_in_tx /\ r.freed_in_tx_old = f
      /\ r.freed_logically = a /\ r.reusable = m.reusable /\ r.allocated = m.allocated
  BY <1>1, <1>4 DEF Manager
<1>6. QED BY <1>3, <1>5 DEF IsStored

LEMMA TxCommitIs ==
  ASSUME NEW m, NEW T, NEW n, NEW L, NEW k, NEW R, Orderly(m, T, n, L, k, R),
         NEW x \in Nat, NEW g, g = ForgetAllocations(m), Orderly(g, T, n, L, k, R),
         g.buf[T[n]].prev = m.buf[T[n]].prev,
         NEW r, r = TxCommit(m, x)
  PROVE  Kept(g, T, n, x, r)
<1>1. /\ g \in Manager /\ n \in Nat \ {0} /\ T \in [1 .. n -> Buffer]
      /\ 1 \in 1 .. n /\ n \in 1 .. n /\ T[1] \in Buffer /\ T[n] \in Buffer
  BY OrderlyFields
<1>2. /\ m.freed_in_tx_old = T[1] /\ m.freed_in_tx = T[n] /\ Listed(g.buf, T, n)
      /\ g.freed_in_tx_old = T[1] /\ g.freed_in_tx = T[n]
      /\ \A i \in 1 .. n - 1 : g.buf[T[i + 1]].prev = T[i]
  BY DEF Orderly, FreesInOrder
<1>3. T[1] = T[n] <=> n = 1
  BY <1>1, <1>2 DEF Listed
<1> DEFINE F == T[n]
           l == Len(g.buf[F].ptrs)
           w == [g EXCEPT !.buf[F].rollback_next_ptr = l]
           v == [w EXCEPT !.buf[T[1]].ts = x, !.buf[T[1]].init_ts = TRUE]
           old == g.buf[F]
           new == [old EXCEPT !.rollback_next_ptr = l]
<1>4. old \in BufferType /\ l \in Nat
  <2>1. old \in BufferType /\ old.ptrs \in Seq(Block)
    BY <1>1, BufferFields
  <2>2. QED BY <2>1
<1>5. /\ new \in BufferType /\ new.ptrs = old.ptrs /\ new.rollback_next_ptr = l
      /\ new.ts = old.ts /\ new.init_ts = old.init_ts /\ new.next = old.next /\ new.prev = old.prev
  <2> HIDE DEF old, l
  <2>1. QED BY <1>4 DEF BufferType
<1>6. w = [g EXCEPT !.buf = [g.buf EXCEPT ![F] = new]]
  OBVIOUS
<1>7. r = IF T[1] = F THEN w
          ELSE [PutInFront(v, "freed_logically", T[1], m.buf[F].prev) EXCEPT !.freed_in_tx_old = F]
  BY <1>2 DEF TxCommit
<1> HIDE DEF new
<1>8. /\ w \in Manager
      /\ w.freed_in_tx = g.freed_in_tx /\ w.freed_in_tx_old = g.freed_in_tx_old
      /\ w.freed_logically = g.freed_logically /\ w.reusable = g.reusable
      /\ w.allocated = g.allocated
      /\ w.buf[F] = new /\ \A j \in Buffer \ {F} : w.buf[j] = g.buf[j]
  <2> HIDE DEF w, F
  <2>1. F \in Buffer
    BY <1>1 DEF F
  <2>2. HasChanged(g, F, new, w)
    BY <1>1, <1>5, <1>6, <2>1, BufferChanged
  <2>3. QED BY <2>2 DEF HasChanged
<1>9. CASE n = 1
  <2>1. r = w /\ T[1] = F /\ F \in Buffer
    BY <1>1, <1>3, <1>7, <1>9
  <2> HIDE DEF w, F, l
  <2>2. /\ r \in Manager /\ r.freed_in_tx = F /\ r.freed_in_tx_old = F
        /\ r.freed_logically = g.freed_logically /\ r.reusable = g.reusable /\ r.allocated = g.allocated
    BY <1>2, <1>8, <2>1 DEF F
  <2>3. ASSUME NEW i \in Buffer
        PROVE  /\ r.buf[i].ptrs = g.buf[i].ptrs
               /\ r.buf[i].rollback_next_ptr = (IF i = F THEN Len(g.buf[i].ptrs) ELSE g.buf[i].rollback_next_ptr)
               /\ r.buf[i].ts = g.buf[i].ts /\ r.buf[i].init_ts = g.buf[i].init_ts
               /\ r.buf[i].next = g.buf[i].next /\ r.buf[i].prev = g.buf[i].prev
    <3>1. CASE i = F
      BY <1>5, <1>8, <2>1, <3>1 DEF l, old
    <3>2. CASE i # F
      BY <1>8, <2>1, <3>2
    <3>3. QED BY <3>1, <3>2
  <2>4. QED BY <1>9, <2>2, <2>3 DEF Kept, F
<1>10. CASE n > 1
  <2> DEFINE old1 == w.buf[T[1]]
             new1 == [old1 EXCEPT !.ts = x, !.init_ts = TRUE]
  <2>1. T[1] # F /\ T[1] \in Buffer \ {F} /\ ~ (n = 1)
    BY <1>1, <1>3, <1>10
  <2>2. m.buf[F].prev = T[n - 1] /\ T[n - 1] \in Buffer
    <3>1. n - 1 \in 1 .. n - 1 /\ n - 1 \in 1 .. n /\ n - 1 + 1 = n
      BY <1>1, <1>10
    <3>2. QED BY <1>1, <1>2, <3>1
  <2>3. r = [PutInFront(v, "freed_logically", T[1], T[n - 1]) EXCEPT !.freed_in_tx_old = F]
    BY <1>7, <2>1, <2>2
  <2>4. old1 \in BufferType
    <3> HIDE DEF w
    <3>1. QED BY <1>1, <1>8, BufferFields
  <2>5. /\ new1 \in BufferType /\ new1.ptrs = old1.ptrs /\ new1.rollback_next_ptr = old1.rollback_next_ptr
        /\ new1.ts = x /\ new1.init_ts = TRUE /\ new1.next = old1.next /\ new1.prev = old1.prev
    <3> HIDE DEF old1
    <3>1. QED BY <2>4 DEF BufferType
  <2>6. StampedAs(w, T[1], x, new1, v)
    BY DEF StampedAs
  <2> HIDE DEF new1
  <2>7. /\ v \in Manager
        /\ v.freed_in_tx = w.freed_in_tx /\ v.freed_in_tx_old = w.freed_in_tx_old
        /\ v.freed_logically = w.freed_logically /\ v.reusable = w.reusable
        /\ v.allocated = w.allocated
        /\ v.buf[T[1]] = new1 /\ \A j \in Buffer \ {T[1]} : v.buf[j] = w.buf[j]
    <3> HIDE DEF v, w
    <3>1. HasChanged(w, T[1], new1, v)
      BY <1>1, <1>8, <2>5, <2>6, StampedChanges
    <3>2. QED BY <3>1 DEF HasChanged
  <2>8. /\ r \in Manager /\ r.freed_in_tx = v.freed_in_tx /\ r.freed_in_tx_old = F
        /\ r.freed_logically = T[1] /\ r.reusable = v.reusable /\ r.allocated = v.allocated
        /\ AreRelinked(v.buf, T[1], T[n - 1], v.freed_logically, r.buf)
    <3> HIDE DEF v, F
    <3>1. F \in Buffer
      BY <1>1 DEF F
    <3>2. IsStored(v, T[1], T[n - 1], F, r)
      BY <1>1, <2>2, <2>3, <2>7, <3>1, StoredInFront
    <3>3. QED BY <3>2 DEF IsStored
  <2> HIDE DEF v, w, F, l
  <2>9. /\ r \in Manager /\ r.freed_in_tx = F /\ r.freed_in_tx_old = F
        /\ r.freed_logically = T[1] /\ r.reusable = g.reusable /\ r.allocated = g.allocated
    BY <1>2, <1>8, <2>7, <2>8 DEF F
  <2>10. ASSUME NEW i \in Buffer
        PROVE  /\ v.buf[i].ptrs = g.buf[i].ptrs
               /\ v.buf[i].rollback_next_ptr = (IF i = F THEN Len(g.buf[i].ptrs) ELSE g.buf[i].rollback_next_ptr)
               /\ v.buf[i].ts = (IF i = T[1] THEN x ELSE g.buf[i].ts)
               /\ v.buf[i].init_ts = (IF i = T[1] THEN TRUE ELSE g.buf[i].init_ts)
               /\ v.buf[i].next = g.buf[i].next /\ v.buf[i].prev = g.buf[i].prev
    <3>1. CASE i = F
      <4>1. v.buf[F] = new
        BY <1>8, <2>1, <2>7, <3>1
      <4>2. QED BY <1>5, <2>1, <3>1, <4>1 DEF l, old
    <3>2. CASE i = T[1]
      <4>1. w.buf[T[1]] = g.buf[T[1]]
        BY <1>8, <2>1
      <4>2. QED BY <2>1, <2>5, <2>7, <3>2, <4>1 DEF old1
    <3>3. CASE i # F /\ i # T[1]
      <4>1. v.buf[i] = g.buf[i]
        BY <1>8, <2>7, <3>3
      <4>2. QED BY <3>3, <4>1
    <3>4. QED BY <3>1, <3>2, <3>3
  <2>11. v.freed_logically = g.freed_logically
    BY <1>8, <2>7
  <2>12. ASSUME NEW i \in Buffer
        PROVE  /\ r.buf[i].ptrs = g.buf[i].ptrs
               /\ r.buf[i].rollback_next_ptr = (IF i = F THEN Len(g.buf[i].ptrs) ELSE g.buf[i].rollback_next_ptr)
               /\ r.buf[i].ts = (IF i = T[1] THEN x ELSE g.buf[i].ts)
               /\ r.buf[i].init_ts = (IF i = T[1] THEN TRUE ELSE g.buf[i].init_ts)
               /\ r.buf[i].next = (IF i = T[n - 1] THEN g.freed_logically ELSE g.buf[i].next)
               /\ r.buf[i].prev = (IF i = T[1] THEN NULL
                           ELSE IF i = g.freed_logically THEN T[n - 1] ELSE g.buf[i].prev)
    <3>1. AreRelinked(v.buf, T[1], T[n - 1], g.freed_logically, r.buf)
      BY <2>8, <2>11
    <3>2. /\ r.buf[i].ptrs = v.buf[i].ptrs /\ r.buf[i].rollback_next_ptr = v.buf[i].rollback_next_ptr
          /\ r.buf[i].ts = v.buf[i].ts /\ r.buf[i].init_ts = v.buf[i].init_ts
          /\ r.buf[i].next = (IF i = T[n - 1] THEN g.freed_logically ELSE v.buf[i].next)
          /\ r.buf[i].prev = (IF i = T[1] THEN NULL
                           ELSE IF i = g.freed_logically THEN T[n - 1] ELSE v.buf[i].prev)
      BY <3>1 DEF AreRelinked
    <3>3. QED BY <2>10, <3>2
  <2>13. ~ (n = 1) /\ n > 1
    BY <1>10, <2>1
  <2> HIDE DEF old1
  <2>14. ASSUME NEW i \in Buffer
         PROVE  /\ r.buf[i].ptrs = g.buf[i].ptrs
                /\ r.buf[i].rollback_next_ptr = (IF i = T[n] THEN Len(g.buf[i].ptrs) ELSE g.buf[i].rollback_next_ptr)
                /\ r.buf[i].ts = (IF n > 1 /\ i = T[1] THEN x ELSE g.buf[i].ts)
                /\ r.buf[i].init_ts = (IF n > 1 /\ i = T[1] THEN TRUE ELSE g.buf[i].init_ts)
                /\ r.buf[i].next = (IF n > 1 /\ i = T[n - 1] THEN g.freed_logically ELSE g.buf[i].next)
                /\ r.buf[i].prev = (IF n > 1 /\ i = T[1] THEN NULL
                                    ELSE IF n > 1 /\ i = g.freed_logically THEN T[n - 1] ELSE g.buf[i].prev)
    <3>1. /\ r.buf[i].ptrs = g.buf[i].ptrs
          /\ r.buf[i].rollback_next_ptr = (IF i = T[n] THEN Len(g.buf[i].ptrs) ELSE g.buf[i].rollback_next_ptr)
      BY <2>12 DEF F
    <3>2. /\ r.buf[i].ts = (IF n > 1 /\ i = T[1] THEN x ELSE g.buf[i].ts)
          /\ r.buf[i].init_ts = (IF n > 1 /\ i = T[1] THEN TRUE ELSE g.buf[i].init_ts)
      BY <2>12, <2>13
    <3>3. r.buf[i].next = (IF n > 1 /\ i = T[n - 1] THEN g.freed_logically ELSE g.buf[i].next)
      BY <2>12, <2>13
    <3>4. r.buf[i].prev = (IF n > 1 /\ i = T[1] THEN NULL
                           ELSE IF n > 1 /\ i = g.freed_logically THEN T[n - 1] ELSE g.buf[i].prev)
      BY <2>12, <2>13
    <3>5. QED BY <3>1, <3>2, <3>3, <3>4
  <2>15. /\ r \in Manager /\ r.freed_in_tx = T[n] /\ r.freed_in_tx_old = T[n]
         /\ r.freed_logically = T[1] /\ r.reusable = g.reusable /\ r.allocated = g.allocated
    BY <2>9 DEF F
  <2>16. QED BY <2>13, <2>14, <2>15 DEF Kept
<1>11. QED BY <1>1, <1>9, <1>10

\* S is the last buffer of T, and M the others with L behind them.
Moved(T, n, L, k, S, M, N) ==
  /\ N \in Nat /\ N = n - 1 + k /\ S \in [1 .. 1 -> Buffer] /\ S[1] = T[n] /\ M \in [1 .. N -> Buffer]
  /\ \A i \in 1 .. n - 1 : i \in 1 .. N /\ M[i] = T[i]
  /\ \A i \in 1 .. k : n - 1 + i \in 1 .. N /\ M[n - 1 + i] = L[i]
  /\ \A i \in 1 .. N : \/ i \in 1 .. n - 1 /\ M[i] = T[i]
                       \/ i - (n - 1) \in 1 .. k /\ i > n - 1 /\ M[i] = L[i - (n - 1)]

LEMMA MoveThem ==
  ASSUME NEW n \in Nat \ {0}, NEW k \in Nat, NEW T \in [1 .. n -> Buffer], NEW L \in [1 .. k -> Buffer]
  PROVE  \E S, M, N : Moved(T, n, L, k, S, M, N)
<1> DEFINE N == n - 1 + k
           S == [i \in 1 .. 1 |-> T[n]]
           M == [i \in 1 .. N |-> IF i <= n - 1 THEN T[i] ELSE L[i - (n - 1)]]
<1>1. N \in Nat /\ N = n - 1 + k
  OBVIOUS
<1>2. \A i \in 1 .. n - 1 : i \in 1 .. N /\ i <= n - 1 /\ i \in 1 .. n
  OBVIOUS
<1>3. \A i \in 1 .. k : n - 1 + i \in 1 .. N /\ ~ (n - 1 + i <= n - 1) /\ (n - 1 + i) - (n - 1) = i
  OBVIOUS
<1>4. \A i \in 1 .. N : \/ i \in 1 .. n - 1 /\ i <= n - 1
                        \/ i - (n - 1) \in 1 .. k /\ i > n - 1 /\ ~ (i <= n - 1)
  OBVIOUS
<1>5. S \in [1 .. 1 -> Buffer] /\ S[1] = T[n]
  OBVIOUS
<1> HIDE DEF N
<1>6. \A i \in 1 .. n - 1 : i \in 1 .. N /\ M[i] = T[i]
  BY <1>2
<1>7. \A i \in 1 .. k : n - 1 + i \in 1 .. N /\ M[n - 1 + i] = L[i]
  BY <1>3
<1>8. \A i \in 1 .. N : \/ i \in 1 .. n - 1 /\ M[i] = T[i]
                        \/ i - (n - 1) \in 1 .. k /\ i > n - 1 /\ M[i] = L[i - (n - 1)]
  BY <1>4
<1>9. M \in [1 .. N -> Buffer]
  BY <1>2, <1>4
<1> HIDE DEF S, M
<1>10. Moved(T, n, L, k, S, M, N)
  BY <1>1, <1>5, <1>6, <1>7, <1>8, <1>9 DEF Moved
<1>11. QED BY <1>10

LEMMA KeptIsOrderly ==
  ASSUME NEW m, NEW T, NEW n, NEW L, NEW k, NEW R, Orderly(m, T, n, L, k, R),
         NEW x \in Nat, n > 1 => \A y : StampedBy(m, L, k, y) => y <= x,
         NEW r, Kept(m, T, n, x, r),
         NEW S, NEW M, NEW N, Moved(T, n, L, k, S, M, N)
  PROVE  Orderly(r, S, 1, M, N, R)
<1>1. /\ m \in Manager /\ n \in Nat \ {0} /\ k \in Nat
      /\ T \in [1 .. n -> Buffer] /\ L \in [1 .. k -> Buffer] /\ R \subseteq Buffer
      /\ 1 \in 1 .. n /\ n \in 1 .. n /\ T[1] \in Buffer /\ T[n] \in Buffer
      /\ m.allocated \in 2 .. Buffers /\ m.reusable \in 0 .. Buffers /\ m.freed_logically \in 0 .. Buffers
      /\ Buffers \in Nat /\ Size \in Nat \ {0} /\ 2 \in Buffer /\ NULL = 0
  BY OrderlyFields, ManagerFields, TwoIsBuffer
<1>2. FreesInOrder(m, T, n) /\ LogicalInOrder(m, L, k) /\ ReusableInOrder(m, R)
      /\ Apart(m, T, n, L, k, R) /\ AllocsInOrder(m)
  BY DEF Orderly
<1>3. Listed(m.buf, T, n) /\ Listed(m.buf, L, k) /\ Ends(m.buf, L, k)
  BY <1>2 DEF FreesInOrder, LogicalInOrder
<1>4. /\ N \in Nat /\ N = n - 1 + k /\ S \in [1 .. 1 -> Buffer] /\ S[1] = T[n] /\ M \in [1 .. N -> Buffer]
      /\ 1 .. 1 = {1} /\ 1 .. 0 = {}
  BY DEF Moved
<1>5. \A i \in 1 .. n - 1 : i \in 1 .. N /\ M[i] = T[i]
  BY DEF Moved
<1>6. \A i \in 1 .. k : n - 1 + i \in 1 .. N /\ M[n - 1 + i] = L[i]
  BY DEF Moved
<1>7. \A i \in 1 .. N : \/ i \in 1 .. n - 1 /\ M[i] = T[i]
                        \/ i - (n - 1) \in 1 .. k /\ i > n - 1 /\ M[i] = L[i - (n - 1)]
  BY DEF Moved
<1>8. /\ r \in Manager /\ r.freed_in_tx = T[n] /\ r.freed_in_tx_old = T[n]
      /\ r.freed_logically = (IF n = 1 THEN m.freed_logically ELSE T[1])
      /\ r.reusable = m.reusable /\ r.allocated = m.allocated
  BY DEF Kept
<1>9. \A i \in Buffer :
       /\ r.buf[i].ptrs = m.buf[i].ptrs
       /\ r.buf[i].rollback_next_ptr = (IF i = T[n] THEN Len(m.buf[i].ptrs) ELSE m.buf[i].rollback_next_ptr)
       /\ r.buf[i].ts = (IF n > 1 /\ i = T[1] THEN x ELSE m.buf[i].ts)
       /\ r.buf[i].init_ts = (IF n > 1 /\ i = T[1] THEN TRUE ELSE m.buf[i].init_ts)
       /\ r.buf[i].next = (IF n > 1 /\ i = T[n - 1] THEN m.freed_logically ELSE m.buf[i].next)
       /\ r.buf[i].prev = (IF n > 1 /\ i = T[1] THEN NULL
                           ELSE IF n > 1 /\ i = m.freed_logically THEN T[n - 1] ELSE m.buf[i].prev)
  BY DEF Kept
<1>10. /\ \A i \in 1 .. n : T[i] \in Buffer /\ T[i] <= m.allocated /\ T[i] # 2 /\ T[i] \notin R
       /\ \A i \in 1 .. k : L[i] \in Buffer /\ L[i] <= m.allocated /\ L[i] # 2 /\ L[i] \notin R
       /\ \A i \in 1 .. n, j \in 1 .. k : T[i] # L[j]
  BY <1>1, <1>2 DEF Apart
<1>11. \A i \in 1 .. n - 1 : i \in 1 .. n /\ i + 1 \in 1 .. n
  BY <1>1
<1>12. n > 1 => 1 \in 1 .. n - 1 /\ n - 1 \in 1 .. n - 1 /\ n - 1 \in 1 .. n /\ n - 1 # n
  BY <1>1
<1>13. \A i, j \in 1 .. n : T[i] = T[j] => i = j
  BY <1>3 DEF Listed
<1>14. \A i, j \in 1 .. k : L[i] = L[j] => i = j
  BY <1>3 DEF Listed
<1>15. m.freed_logically = (IF k = 0 THEN NULL ELSE L[1])
  BY <1>2 DEF LogicalInOrder
<1>16. FreesInOrder(r, S, 1)
  <2>1. Listed(r.buf, S, 1)
    BY <1>4 DEF Listed
  <2> DEFINE l == Len(m.buf[T[n]].ptrs)
  <2>2. l < Size /\ ~ m.buf[T[n]].init_ts
    BY <1>1, <1>2 DEF FreesInOrder
  <2>3. l \in Nat
    <3>1. m.buf[T[n]].ptrs \in Seq(Block)
      BY <1>1, BufferFields
    <3>2. QED BY <3>1
  <2>4. n > 1 => T[n] # T[1]
    BY <1>1, <1>13
  <2>5. r.buf[T[n]].rollback_next_ptr = l /\ Len(r.buf[T[n]].ptrs) = l /\ ~ r.buf[T[n]].init_ts
    BY <1>1, <1>9, <2>2, <2>4
  <2> HIDE DEF l
  <2>6. \A i \in 1 .. 1 - 1 : FALSE
    OBVIOUS
  <2>7. \A i \in 2 .. 1 : FALSE
    OBVIOUS
  <2>8. l <= l
    BY <2>3
  <2>9. \A i \in 1 .. 1 : ~ r.buf[S[i]].init_ts
    BY <1>4, <2>5
  <2>10. QED BY <1>4, <1>8, <2>1, <2>2, <2>5, <2>6, <2>7, <2>8, <2>9 DEF FreesInOrder
<1>17. \A i \in 1 .. k :
         /\ r.buf[L[i]].ptrs = m.buf[L[i]].ptrs
         /\ r.buf[L[i]].ts = m.buf[L[i]].ts /\ r.buf[L[i]].init_ts = m.buf[L[i]].init_ts
         /\ r.buf[L[i]].next = m.buf[L[i]].next
         /\ r.buf[L[i]].prev = (IF n > 1 /\ i = 1 THEN T[n - 1] ELSE m.buf[L[i]].prev)
  <2> SUFFICES ASSUME NEW i \in 1 .. k
               PROVE  /\ r.buf[L[i]].ptrs = m.buf[L[i]].ptrs
                      /\ r.buf[L[i]].ts = m.buf[L[i]].ts /\ r.buf[L[i]].init_ts = m.buf[L[i]].init_ts
                      /\ r.buf[L[i]].next = m.buf[L[i]].next
                      /\ r.buf[L[i]].prev = (IF n > 1 /\ i = 1 THEN T[n - 1] ELSE m.buf[L[i]].prev)
    OBVIOUS
  <2>1. L[i] \in Buffer /\ L[i] # T[1] /\ L[i] # T[n] /\ (n > 1 => L[i] # T[n - 1])
    BY <1>1, <1>10, <1>12
  <2>2. k # 0 /\ 1 \in 1 .. k
    BY <1>1
  <2>3. L[i] = m.freed_logically <=> i = 1
    BY <1>14, <1>15, <2>2
  <2>4. QED BY <1>9, <2>1, <2>3
<1>18. \A i \in 1 .. n - 1 :
         /\ r.buf[T[i]].ptrs = m.buf[T[i]].ptrs
         /\ r.buf[T[i]].ts = (IF i = 1 THEN x ELSE m.buf[T[i]].ts)
         /\ r.buf[T[i]].init_ts = (IF i = 1 THEN TRUE ELSE m.buf[T[i]].init_ts)
         /\ r.buf[T[i]].next = (IF i = n - 1 THEN m.freed_logically ELSE m.buf[T[i]].next)
         /\ r.buf[T[i]].prev = (IF i = 1 THEN NULL ELSE m.buf[T[i]].prev)
  <2> SUFFICES ASSUME NEW i \in 1 .. n - 1
               PROVE  /\ r.buf[T[i]].ptrs = m.buf[T[i]].ptrs
                      /\ r.buf[T[i]].ts = (IF i = 1 THEN x ELSE m.buf[T[i]].ts)
                      /\ r.buf[T[i]].init_ts = (IF i = 1 THEN TRUE ELSE m.buf[T[i]].init_ts)
                      /\ r.buf[T[i]].next = (IF i = n - 1 THEN m.freed_logically ELSE m.buf[T[i]].next)
                      /\ r.buf[T[i]].prev = (IF i = 1 THEN NULL ELSE m.buf[T[i]].prev)
    OBVIOUS
  <2>1. n > 1 /\ i \in 1 .. n /\ T[i] \in Buffer
    BY <1>1, <1>10, <1>11
  <2>2. T[i] = T[1] <=> i = 1
    BY <1>1, <1>13, <2>1
  <2>3. T[i] = T[n - 1] <=> i = n - 1
    BY <1>12, <1>13, <2>1
  <2>4. T[i] # m.freed_logically
    <3>1. T[i] # NULL
      BY <1>1, <2>1 DEF Buffer
    <3>2. k # 0 => 1 \in 1 .. k
      BY <1>1
    <3>3. QED BY <1>10, <1>15, <2>1, <3>1, <3>2
  <2>5. QED BY <1>9, <2>1, <2>2, <2>3, <2>4
<1>19. Listed(r.buf, M, N)
  <2>1. ASSUME NEW i \in 1 .. N, NEW j \in 1 .. N, M[i] = M[j] PROVE i = j
    <3>1. CASE i \in 1 .. n - 1 /\ M[i] = T[i]
      <4>1. j \in 1 .. n - 1 /\ M[j] = T[j]
        BY <1>7, <1>10, <1>11, <2>1, <3>1
      <4>2. QED BY <1>11, <1>13, <2>1, <3>1, <4>1
    <3>2. CASE i - (n - 1) \in 1 .. k /\ i > n - 1 /\ M[i] = L[i - (n - 1)]
      <4>1. j - (n - 1) \in 1 .. k /\ M[j] = L[j - (n - 1)]
        BY <1>7, <1>10, <1>11, <2>1, <3>2
      <4>2. i - (n - 1) = j - (n - 1)
        BY <1>14, <2>1, <3>2, <4>1
      <4>3. QED BY <1>1, <1>4, <4>2
    <3>3. QED BY <1>7, <3>1, <3>2
  <2>2. ASSUME NEW i \in 1 .. N - 1 PROVE r.buf[M[i]].next = M[i + 1]
    <3>1. i \in 1 .. N /\ i + 1 \in 1 .. N /\ i \in Nat
      BY <1>4
    <3>2. CASE i \in 1 .. n - 1 /\ M[i] = T[i] /\ i # n - 1
      <4>1. i + 1 \in 1 .. n - 1
        BY <1>1, <3>2
      <4>2. m.buf[T[i]].next = T[i + 1]
        BY <1>3, <3>2 DEF Listed
      <4>3. M[i + 1] = T[i + 1]
        BY <1>5, <4>1
      <4>4. r.buf[T[i]].next = m.buf[T[i]].next
        BY <1>18, <3>2
      <4>5. QED BY <3>2, <4>2, <4>3, <4>4
    <3>3. CASE i \in 1 .. n - 1 /\ M[i] = T[i] /\ i = n - 1
      <4>1. k # 0 /\ 1 \in 1 .. k /\ n - 1 + 1 = i + 1
        BY <1>1, <1>4, <3>1, <3>3
      <4>2. M[i + 1] = L[1]
        BY <1>6, <4>1
      <4>3. QED BY <1>15, <1>18, <3>3, <4>1, <4>2
    <3>4. CASE i - (n - 1) \in 1 .. k /\ i > n - 1 /\ M[i] = L[i - (n - 1)]
      <4> DEFINE j == i - (n - 1)
      <4>1. j \in 1 .. k - 1 /\ j + 1 \in 1 .. k /\ n - 1 + (j + 1) = i + 1
        BY <1>1, <1>4, <3>1, <3>4
      <4>2. M[i + 1] = L[j + 1]
        BY <1>6, <4>1
      <4>3. m.buf[L[j]].next = L[j + 1]
        BY <1>3, <4>1 DEF Listed
      <4>4. QED BY <1>17, <3>4, <4>2, <4>3
    <3>5. QED BY <1>7, <3>1, <3>2, <3>3, <3>4
  <2>3. QED BY <1>4, <2>1, <2>2 DEF Listed
<1>20. Ends(r.buf, M, N)
  <2> SUFFICES ASSUME N > 0 PROVE r.buf[M[N]].next = NULL
    BY DEF Ends
  <2>1. CASE k = 0
    <3>1. N = n - 1 /\ N \in 1 .. n - 1
      BY <1>1, <1>4, <2>1
    <3>2. M[N] = T[n - 1]
      BY <1>5, <3>1
    <3>3. r.buf[T[n - 1]].next = m.freed_logically
      BY <1>18, <3>1
    <3>4. QED BY <1>15, <2>1, <3>2, <3>3
  <2>2. CASE k # 0
    <3>1. n - 1 + k = N /\ k \in 1 .. k /\ k > 0
      BY <1>1, <1>4, <2>2
    <3>2. M[N] = L[k]
      BY <1>6, <3>1
    <3>3. m.buf[L[k]].next = NULL
      BY <1>3, <3>1 DEF Ends
    <3>4. QED BY <1>17, <3>1, <3>2, <3>3
  <2>3. QED BY <2>1, <2>2
<1>21. r.freed_logically = (IF N = 0 THEN NULL ELSE M[1])
  <2>1. CASE n = 1
    <3>1. N = k
      BY <1>1, <1>4, <2>1
    <3>2. k # 0 => 1 \in 1 .. k /\ n - 1 + 1 = 1
      BY <1>1, <2>1
    <3>3. k # 0 => M[1] = L[1]
      BY <1>6, <3>2
    <3>4. QED BY <1>8, <1>15, <2>1, <3>1, <3>3
  <2>2. CASE n > 1
    <3>1. N # 0 /\ 1 \in 1 .. n - 1 /\ n # 1
      BY <1>1, <1>4, <2>2
    <3>2. QED BY <1>5, <1>8, <3>1
  <2>3. QED BY <1>1, <2>1, <2>2
<1>22. N > 0 => r.buf[M[1]].prev = NULL
  <2> SUFFICES ASSUME N > 0 PROVE r.buf[M[1]].prev = NULL
    OBVIOUS
  <2>1. CASE n = 1
    <3>1. k > 0 /\ 1 \in 1 .. k /\ n - 1 + 1 = 1 /\ ~ (n > 1)
      BY <1>1, <1>4, <2>1
    <3>2. M[1] = L[1]
      BY <1>6, <3>1
    <3>3. m.buf[L[1]].prev = NULL
      BY <1>2, <3>1 DEF LogicalInOrder
    <3>4. QED BY <1>17, <3>1, <3>2, <3>3
  <2>2. CASE n > 1
    BY <1>5, <1>12, <1>18, <2>2
  <2>3. QED BY <1>1, <2>1, <2>2
<1>23. ASSUME NEW i \in 1 .. N - 1 PROVE r.buf[M[i + 1]].prev = M[i]
  <2>1. i \in 1 .. N /\ i + 1 \in 1 .. N /\ i \in Nat
    BY <1>4
  <2>2. CASE i \in 1 .. n - 1 /\ M[i] = T[i] /\ i # n - 1
    <3>1. i + 1 \in 1 .. n - 1 /\ i + 1 # 1
      BY <1>1, <2>2
    <3>2. m.buf[T[i + 1]].prev = T[i]
      BY <1>2, <2>2 DEF FreesInOrder
    <3>3. M[i + 1] = T[i + 1]
      BY <1>5, <3>1
    <3>4. r.buf[T[i + 1]].prev = m.buf[T[i + 1]].prev
      BY <1>18, <3>1
    <3>5. QED BY <2>2, <3>2, <3>3, <3>4
  <2>3. CASE i \in 1 .. n - 1 /\ M[i] = T[i] /\ i = n - 1
    <3>1. k # 0 /\ 1 \in 1 .. k /\ n - 1 + 1 = i + 1 /\ n > 1
      BY <1>1, <1>4, <2>1, <2>3
    <3>2. M[i + 1] = L[1]
      BY <1>6, <3>1
    <3>3. QED BY <1>17, <2>3, <3>1, <3>2
  <2>4. CASE i - (n - 1) \in 1 .. k /\ i > n - 1 /\ M[i] = L[i - (n - 1)]
    <3> DEFINE j == i - (n - 1)
    <3>1. j \in 1 .. k - 1 /\ j + 1 \in 1 .. k /\ n - 1 + (j + 1) = i + 1 /\ j + 1 # 1
      BY <1>1, <1>4, <2>1, <2>4
    <3>2. M[i + 1] = L[j + 1]
      BY <1>6, <3>1
    <3>3. m.buf[L[j + 1]].prev = L[j]
      BY <1>2, <3>1 DEF LogicalInOrder
    <3>4. QED BY <1>17, <2>4, <3>1, <3>2, <3>3
  <2>5. QED BY <1>7, <2>1, <2>2, <2>3, <2>4
<1>24. ASSUME NEW i \in 1 .. N PROVE Len(r.buf[M[i]].ptrs) <= Size
  <2>1. CASE i \in 1 .. n - 1 /\ M[i] = T[i]
    <3>1. Len(m.buf[T[i]].ptrs) = Size
      BY <1>2, <2>1 DEF FreesInOrder
    <3>2. Size <= Size
      BY <1>1
    <3>3. QED BY <1>18, <2>1, <3>1, <3>2
  <2>2. CASE i - (n - 1) \in 1 .. k /\ i > n - 1 /\ M[i] = L[i - (n - 1)]
    BY <1>2, <1>17, <2>2 DEF LogicalInOrder
  <2>3. QED BY <1>7, <2>1, <2>2
<1>25. ASSUME NEW i \in 1 .. N, NEW j \in 1 .. N, i <= j, r.buf[M[i]].init_ts, r.buf[M[j]].init_ts
       PROVE  r.buf[M[j]].ts <= r.buf[M[i]].ts
  <2>1. \A a \in 1 .. n : ~ m.buf[T[a]].init_ts
    BY <1>2 DEF FreesInOrder
  <2>2. \A a \in 1 .. k : m.buf[L[a]].ts \in Nat
    BY <1>1, BufferFields
  <2>3. CASE i \in 1 .. n - 1 /\ M[i] = T[i]
    <3>1. i = 1 /\ r.buf[M[i]].ts = x /\ n > 1
      <4>1. r.buf[T[i]].init_ts /\ ~ m.buf[T[i]].init_ts
        BY <1>11, <1>25, <2>1, <2>3
      <4>2. i = 1
        BY <1>18, <2>3, <4>1
      <4>3. r.buf[T[1]].ts = x
        BY <1>18, <2>3, <4>2
      <4>4. n > 1
        BY <1>1, <2>3
      <4>5. QED BY <2>3, <4>2, <4>3, <4>4
    <3>2. CASE j \in 1 .. n - 1 /\ M[j] = T[j]
      <4>1. j = 1 /\ r.buf[M[j]].ts = x
        <5>1. r.buf[T[j]].init_ts /\ ~ m.buf[T[j]].init_ts
          BY <1>11, <1>25, <2>1, <3>2
        <5>2. j = 1
          BY <1>18, <3>2, <5>1
        <5>3. r.buf[T[1]].ts = x
          BY <1>18, <3>2, <5>2
        <5>4. QED BY <3>2, <5>2, <5>3
      <4>2. QED BY <3>1, <4>1
    <3>3. CASE j - (n - 1) \in 1 .. k /\ j > n - 1 /\ M[j] = L[j - (n - 1)]
      <4> DEFINE b == j - (n - 1)
      <4>1. m.buf[L[b]].init_ts /\ r.buf[M[j]].ts = m.buf[L[b]].ts
        BY <1>17, <1>25, <3>3
      <4>2. StampedBy(m, L, k, m.buf[L[b]].ts)
        BY <3>3, <4>1 DEF StampedBy
      <4>3. QED BY <3>1, <4>1, <4>2
    <3>4. QED BY <1>7, <3>2, <3>3
  <2>4. CASE i - (n - 1) \in 1 .. k /\ i > n - 1 /\ M[i] = L[i - (n - 1)]
    <3>1. j - (n - 1) \in 1 .. k /\ M[j] = L[j - (n - 1)] /\ i - (n - 1) <= j - (n - 1)
      <4>1. j \notin 1 .. n - 1
        BY <1>1, <1>4, <1>25, <2>4
      <4>2. j - (n - 1) \in 1 .. k /\ M[j] = L[j - (n - 1)]
        BY <1>7, <4>1
      <4>3. QED BY <1>1, <1>4, <1>25, <4>2
    <3> DEFINE a == i - (n - 1)
               b == j - (n - 1)
    <3>2. m.buf[L[a]].init_ts /\ r.buf[M[i]].ts = m.buf[L[a]].ts
      BY <1>17, <1>25, <2>4
    <3>3. m.buf[L[b]].init_ts /\ r.buf[M[j]].ts = m.buf[L[b]].ts
      BY <1>17, <1>25, <3>1
    <3>4. m.buf[L[b]].ts <= m.buf[L[a]].ts
      BY <1>2, <2>4, <3>1, <3>2, <3>3 DEF LogicalInOrder
    <3>5. QED BY <3>2, <3>3, <3>4
  <2>5. QED BY <1>7, <2>3, <2>4
<1>26. LogicalInOrder(r, M, N)
  BY <1>19, <1>20, <1>21, <1>22, <1>23, <1>24, <1>25 DEF LogicalInOrder
<1>27. ReusableInOrder(r, R)
  <2>1. \A i \in R : i \in Buffer /\ (n > 1 => i # T[n - 1])
    BY <1>1, <1>10, <1>12
  <2>2. \A i \in R : r.buf[i].next = m.buf[i].next
    BY <1>9, <2>1
  <2>3. QED BY <1>2, <1>8, <2>2 DEF ReusableInOrder
<1>28. Apart(r, S, 1, M, N, R)
  <2>1. R \subseteq (1 .. r.allocated) \ {2}
    BY <1>2, <1>8 DEF Apart
  <2>2. \A i \in 1 .. 1 : S[i] <= r.allocated /\ S[i] # 2 /\ S[i] \notin R
    BY <1>1, <1>4, <1>8, <1>10
  <2>3. ASSUME NEW i \in 1 .. N PROVE M[i] <= r.allocated /\ M[i] # 2 /\ M[i] \notin R /\ T[n] # M[i]
    <3>1. CASE i \in 1 .. n - 1 /\ M[i] = T[i]
      <4>1. i # n /\ i \in 1 .. n
        BY <1>1, <3>1
      <4>2. T[n] # T[i]
        BY <1>1, <1>13, <4>1
      <4>3. QED BY <1>8, <1>10, <3>1, <4>1, <4>2
    <3>2. CASE i - (n - 1) \in 1 .. k /\ i > n - 1 /\ M[i] = L[i - (n - 1)]
      BY <1>1, <1>8, <1>10, <3>2
    <3>3. QED BY <1>7, <3>1, <3>2
  <2>4. \A i \in 1 .. 1, j \in 1 .. N : S[i] # M[j]
    BY <1>4, <2>3
  <2>5. ASSUME NEW i \in Buffer, i > r.allocated PROVE r.buf[i] = CleanBuffer
    <3>1. i > m.allocated /\ m.buf[i] = CleanBuffer
      BY <1>2, <1>8, <2>5 DEF Apart
    <3>2. i # T[1] /\ i # T[n] /\ (n > 1 => i # T[n - 1])
      <4>1. \A j \in 1 .. n : T[j] # i
        BY <1>1, <1>10, <3>1 DEF Buffer
      <4>2. QED BY <1>1, <1>12, <4>1
    <3>3. i # m.freed_logically
      <4>1. k # 0 => L[1] \in Buffer /\ L[1] <= m.allocated
        <5>1. k # 0 => 1 \in 1 .. k
          BY <1>1
        <5>2. QED BY <1>10, <5>1
      <4>2. QED BY <1>1, <1>15, <3>1, <4>1 DEF Buffer
    <3>4. r.buf[i].ptrs = m.buf[i].ptrs /\ r.buf[i].rollback_next_ptr = m.buf[i].rollback_next_ptr
          /\ r.buf[i].ts = m.buf[i].ts /\ r.buf[i].init_ts = m.buf[i].init_ts
          /\ r.buf[i].next = m.buf[i].next /\ r.buf[i].prev = m.buf[i].prev
      BY <1>9, <3>2, <3>3
    <3>5. r.buf[i] \in BufferType /\ m.buf[i] \in BufferType
      BY <1>1, <1>8, BufferFields
    <3>6. r.buf[i] = m.buf[i]
      BY <3>4, <3>5, SameBuffer
    <3>7. QED BY <3>1, <3>6
  <2>6. QED BY <2>1, <2>2, <2>3, <2>4, <2>5 DEF Apart
<1>29. AllocsInOrder(r)
  <2>1. n > 1 => T[n - 1] # 2
    BY <1>10, <1>12
  <2>2. r.buf[2].ptrs = m.buf[2].ptrs /\ r.buf[2].next = m.buf[2].next
    BY <1>1, <1>9, <2>1
  <2>3. QED BY <1>2, <2>2 DEF AllocsInOrder
<1>30. QED BY <1>8, <1>16, <1>26, <1>27, <1>28, <1>29 DEF Orderly

\* What a commit with the timestamp x leaves.
Committed(m, x, r) ==
  /\ InOrder(r) /\ Slots(r) = Slots(m) /\ NowSlots(r) = {}
  /\ \A s \in Slots(m) : Ptr(r, s) = Ptr(m, s)
  /\ \A y : Stamped(r, y) => Stamped(m, y) \/ (y = x /\ Chained(m))
  /\ \A y, s : Under(r, y, s) => Under(m, y, s) \/ (y = x /\ Chained(m) /\ s \in Slots(m))

LEMMA KeptSeen ==
  ASSUME NEW m, NEW T, NEW n, NEW L, NEW k, NEW R, Orderly(m, T, n, L, k, R),
         NEW x \in Nat, NEW r, Kept(m, T, n, x, r),
         NEW S, NEW M, NEW N, Moved(T, n, L, k, S, M, N), Orderly(r, S, 1, M, N, R)
  PROVE  Committed(m, x, r)
<1>1. /\ m \in Manager /\ n \in Nat \ {0} /\ k \in Nat
      /\ T \in [1 .. n -> Buffer] /\ L \in [1 .. k -> Buffer]
      /\ 1 \in 1 .. n /\ n \in 1 .. n /\ T[1] \in Buffer /\ T[n] \in Buffer
  BY OrderlyFields
<1>2. InOrder(r)
  BY DEF InOrder
<1>3. N \in Nat /\ S[1] = T[n] /\ 1 .. 1 = {1}
  BY DEF Moved
<1>4. \A i \in 1 .. n - 1 : i \in 1 .. N /\ M[i] = T[i]
  BY DEF Moved
<1>5. \A i \in 1 .. k : n - 1 + i \in 1 .. N /\ M[n - 1 + i] = L[i]
  BY DEF Moved
<1>6. \A i \in 1 .. N : \/ i \in 1 .. n - 1 /\ M[i] = T[i]
                        \/ i - (n - 1) \in 1 .. k /\ i > n - 1 /\ M[i] = L[i - (n - 1)]
  BY DEF Moved
<1> DEFINE A == From(T, 1, n) \cup From(L, 1, k)
<1>7. From(S, 1, 1) \cup From(M, 1, N) = A
  <2>1. ASSUME NEW i \in From(S, 1, 1) \cup From(M, 1, N) PROVE i \in A
    <3>1. CASE i \in From(S, 1, 1)
      BY <1>1, <1>3, <3>1 DEF From
    <3>2. CASE i \in From(M, 1, N)
      <4>1. PICK j \in 1 .. N : i = M[j]
        BY <3>2 DEF From
      <4>2. CASE j \in 1 .. n - 1 /\ M[j] = T[j]
        <5>1. j \in 1 .. n
          BY <1>1, <4>2
        <5>2. QED BY <4>1, <4>2, <5>1 DEF From
      <4>3. CASE j - (n - 1) \in 1 .. k /\ j > n - 1 /\ M[j] = L[j - (n - 1)]
        BY <4>1, <4>3 DEF From
      <4>4. QED BY <1>6, <4>2, <4>3
    <3>3. QED BY <2>1, <3>1, <3>2
  <2>2. ASSUME NEW i \in A PROVE i \in From(S, 1, 1) \cup From(M, 1, N)
    <3>1. CASE i \in From(T, 1, n)
      <4>1. PICK j \in 1 .. n : i = T[j]
        BY <3>1 DEF From
      <4>2. CASE j = n
        BY <1>3, <4>1, <4>2 DEF From
      <4>3. CASE j # n
        <5>1. j \in 1 .. n - 1
          BY <1>1, <4>3
        <5>2. QED BY <1>4, <4>1, <5>1 DEF From
      <4>4. QED BY <4>2, <4>3
    <3>2. CASE i \in From(L, 1, k)
      <4>1. PICK j \in 1 .. k : i = L[j]
        BY <3>2 DEF From
      <4>2. QED BY <1>5, <4>1 DEF From
    <3>3. QED BY <2>2, <3>1, <3>2
  <2>3. QED BY <2>1, <2>2
<1>8. A \subseteq Buffer
  BY <1>1 DEF From
<1>9. \A i \in A : r.buf[i].ptrs = m.buf[i].ptrs
  BY <1>8 DEF Kept
<1>10. Slots(r) = Slots(m)
  <2>1. Slots(m) = SlotsBy(m, T, n, L, k)
    BY SlotsFrom
  <2>2. Slots(r) = SlotsBy(r, S, 1, M, N)
    BY SlotsFrom
  <2>3. Slots(m) = {s \in A \X (1 .. Size) : s[2] \in DOMAIN m.buf[s[1]].ptrs}
    BY <2>1 DEF SlotsBy
  <2>4. Slots(r) = {s \in A \X (1 .. Size) : s[2] \in DOMAIN r.buf[s[1]].ptrs}
    BY <1>7, <2>2 DEF SlotsBy
  <2> HIDE DEF A
  <2>5. QED BY <1>9, <2>3, <2>4
<1>11. NowSlots(r) = {}
  <2>1. NowSlots(r) = NowBy(r, S, 1)
    BY SlotsFrom
  <2> DEFINE q == r.buf[T[n]].ptrs
  <2>2. q = m.buf[T[n]].ptrs /\ q \in Seq(Block)
    BY <1>1, BufferFields DEF Kept
  <2>3. r.buf[T[n]].rollback_next_ptr = Len(q)
    BY <1>1, <2>2 DEF Kept
  <2>4. DOMAIN q = 1 .. Len(q) /\ Len(q) \in Nat
    <3> HIDE DEF q
    <3>1. QED BY <2>2
  <2>5. ASSUME NEW s \in NowBy(r, S, 1) PROVE FALSE
    <3>1. s[1] = T[n] /\ s[2] \in DOMAIN r.buf[s[1]].ptrs /\ s[2] > r.buf[s[1]].rollback_next_ptr
      BY <1>3 DEF NowBy, From
    <3>2. s[2] \in 1 .. Len(q) /\ s[2] > Len(q)
      BY <2>3, <2>4, <3>1
    <3> HIDE DEF q
    <3>3. QED BY <2>4, <3>2
  <2>6. QED BY <2>1, <2>5
<1>12. \A s \in Slots(m) : Ptr(r, s) = Ptr(m, s)
  <2>1. Slots(m) = SlotsBy(m, T, n, L, k)
    BY SlotsFrom
  <2>2. \A s \in Slots(m) : s[1] \in A
    BY <2>1 DEF SlotsBy
  <2>3. QED BY <1>9, <2>2 DEF Ptr
<1>13. n > 1 <=> Chained(m)
  BY TxLogFrom
<1>14. \A i \in 1 .. n - 1 : /\ r.buf[T[i]].init_ts => i = 1 /\ r.buf[T[i]].ts = x /\ n > 1
  <2> SUFFICES ASSUME NEW i \in 1 .. n - 1, r.buf[T[i]].init_ts
               PROVE  i = 1 /\ r.buf[T[i]].ts = x /\ n > 1
    OBVIOUS
  <2>1. i \in 1 .. n /\ n > 1
    BY <1>1
  <2>2. ~ m.buf[T[i]].init_ts /\ T[i] \in Buffer
    BY <1>1, <2>1 DEF Orderly, FreesInOrder
  <2>3. T[i] = T[1]
    BY <2>2 DEF Kept
  <2>4. i = 1
    BY <1>1, <2>1, <2>3 DEF Orderly, FreesInOrder, Listed
  <2>5. r.buf[T[i]].ts = x
    <3>1. r.buf[T[i]].ts = (IF n > 1 /\ T[i] = T[1] THEN x ELSE m.buf[T[i]].ts)
      BY <2>2 DEF Kept
    <3>2. QED BY <2>1, <2>3, <3>1
  <2>6. QED BY <2>1, <2>4, <2>5
<1>15. \A i \in 1 .. k : r.buf[L[i]].init_ts = m.buf[L[i]].init_ts /\ r.buf[L[i]].ts = m.buf[L[i]].ts
  <2> SUFFICES ASSUME NEW i \in 1 .. k
               PROVE  r.buf[L[i]].init_ts = m.buf[L[i]].init_ts /\ r.buf[L[i]].ts = m.buf[L[i]].ts
    OBVIOUS
  <2>1. L[i] \in Buffer /\ L[i] # T[1]
    BY <1>1 DEF Orderly, Apart
  <2>2. QED BY <2>1 DEF Kept
<1>16. ASSUME NEW y, NEW a \in 1 .. N, r.buf[M[a]].init_ts, r.buf[M[a]].ts = y
       PROVE  \/ y = x /\ Chained(m)
              \/ /\ a - (n - 1) \in 1 .. k /\ a > n - 1
                 /\ m.buf[L[a - (n - 1)]].init_ts /\ m.buf[L[a - (n - 1)]].ts = y
  <2>1. CASE a \in 1 .. n - 1 /\ M[a] = T[a]
    BY <1>13, <1>14, <1>16, <2>1
  <2>2. CASE a - (n - 1) \in 1 .. k /\ a > n - 1 /\ M[a] = L[a - (n - 1)]
    BY <1>15, <1>16, <2>2
  <2>3. QED BY <1>6, <2>1, <2>2
<1>17. ASSUME NEW y, Stamped(r, y) PROVE Stamped(m, y) \/ (y = x /\ Chained(m))
  <2>1. StampedBy(r, M, N, y)
    BY <1>17, StampedFrom
  <2>2. PICK a \in 1 .. N : r.buf[M[a]].init_ts /\ r.buf[M[a]].ts = y
    BY <2>1 DEF StampedBy
  <2>3. ASSUME a - (n - 1) \in 1 .. k,
               m.buf[L[a - (n - 1)]].init_ts /\ m.buf[L[a - (n - 1)]].ts = y
        PROVE  Stamped(m, y)
    <3>1. StampedBy(m, L, k, y)
      BY <2>3 DEF StampedBy
    <3>2. QED BY <3>1, StampedFrom
  <2>4. QED BY <1>16, <2>2, <2>3
<1>18. ASSUME NEW y, NEW s, Under(r, y, s)
       PROVE  Under(m, y, s) \/ (y = x /\ Chained(m) /\ s \in Slots(m))
  <2>1. s \in Slots(r) /\ UnderBy(r, M, N, y, s)
    BY <1>18, StampedFrom
  <2>2. PICK a \in 1 .. N : \E b \in a .. N : r.buf[M[a]].init_ts /\ r.buf[M[a]].ts = y /\ s[1] = M[b]
    BY <2>1 DEF UnderBy
  <2>3. PICK b \in a .. N : r.buf[M[a]].init_ts /\ r.buf[M[a]].ts = y /\ s[1] = M[b]
    BY <2>2
  <2> DEFINE c == a - (n - 1)
             d == b - (n - 1)
  <2>4. ASSUME c \in 1 .. k, a > n - 1, m.buf[L[c]].init_ts /\ m.buf[L[c]].ts = y
        PROVE  Under(m, y, s)
    <3>1. b \in 1 .. N /\ b \notin 1 .. n - 1
      BY <1>1, <1>3, <2>4
    <3>2. d \in 1 .. k /\ M[b] = L[d]
      BY <1>6, <3>1
    <3>3. d \in c .. k
      BY <1>1, <1>3, <2>4, <3>2
    <3> HIDE DEF c, d
    <3>4. UnderBy(m, L, k, y, s)
      BY <2>3, <2>4, <3>2, <3>3 DEF UnderBy
    <3>5. s \in Slots(m)
      BY <1>10, <2>1
    <3>6. QED BY <3>4, <3>5, StampedFrom
  <2>5. QED BY <1>10, <1>16, <2>1, <2>3, <2>4
<1>19. QED BY <1>2, <1>10, <1>11, <1>12, <1>17, <1>18 DEF Committed

LEMMA SameFreesCommitted ==
  ASSUME NEW m, NEW g, NEW x, NEW r, SameFrees(m, g), Committed(g, x, r), Chained(g) <=> Chained(m)
  PROVE  Committed(m, x, r)
  BY DEF Committed, SameFrees

LEMMA CommitM ==
  ASSUME NEW m, InOrder(m), NEW x \in Nat, Chained(m) => \A y : Stamped(m, y) => y <= x,
         NEW r, r = TxCommit(m, x)
  PROVE  Committed(m, x, r) /\ Pointers(r, 2) = {} /\ Len(r.buf[2].ptrs) = 0
<1>1. PICK T, n, L, k, R : Orderly(m, T, n, L, k, R)
  BY DEF InOrder
<1> DEFINE g == ForgetAllocations(m)
<1>2. g = ForgetAllocations(m)
  OBVIOUS
<1> HIDE DEF g
<1>3. Orderly(g, T, n, L, k, R) /\ SameFrees(m, g) /\ Pointers(g, 2) = {} /\ Len(g.buf[2].ptrs) = 0
      /\ PtrsChanged(m, 2, <<>>, g)
  BY <1>1, <1>2, ForgetAllocationsIs
<1>4. /\ n \in Nat \ {0} /\ k \in Nat /\ T \in [1 .. n -> Buffer] /\ L \in [1 .. k -> Buffer]
      /\ n \in 1 .. n /\ T[n] \in Buffer /\ 2 \in Buffer
  BY <1>1, OrderlyFields, TwoIsBuffer
<1>5. g.buf[T[n]].prev = m.buf[T[n]].prev
  <2>1. T[n] # 2
    BY <1>1, <1>4 DEF Orderly, Apart
  <2>2. QED BY <1>3, <1>4, <2>1 DEF PtrsChanged
<1>6. Kept(g, T, n, x, r)
  BY <1>1, <1>2, <1>3, <1>5, TxCommitIs
<1>7. PICK S, M, N : Moved(T, n, L, k, S, M, N)
  BY <1>4, MoveThem
<1>8. Chained(g) <=> Chained(m)
  BY <1>3 DEF PtrsChanged, Chained
<1>9. ASSUME n > 1, NEW y, StampedBy(g, L, k, y) PROVE y <= x
  <2>1. Chained(m)
    BY <1>1, <1>9, TxLogFrom
  <2>2. Stamped(g, y)
    BY <1>3, <1>9, StampedFrom
  <2>3. Stamped(m, y)
    BY <1>3, <2>2 DEF SameFrees
  <2>4. QED BY <2>1, <2>3
<1>10. Orderly(r, S, 1, M, N, R)
  BY <1>3, <1>6, <1>7, <1>9, KeptIsOrderly
<1>11. Committed(g, x, r)
  BY <1>3, <1>6, <1>7, <1>10, KeptSeen
<1>12. Committed(m, x, r)
  BY <1>3, <1>8, <1>11, SameFreesCommitted
<1>13. r.buf[2].ptrs = g.buf[2].ptrs
  BY <1>4, <1>6 DEF Kept
<1>14. QED BY <1>3, <1>12, <1>13 DEF Pointers

----------------------------------------------------------------------------
(* FreeDominated *)

LEMMA ReusableInFront ==
  ASSUME NEW m \in Manager, NEW a \in Buffer, NEW b \in Buffer,
         NEW r, r = PutInFront(m, "reusable", a, b)
  PROVE  PutBack(m, a, b, m.freed_in_tx, r)
<1> DEFINE buf == Relinked(m.buf, a, b, m.reusable)
<1>1. r = [m EXCEPT !.reusable = a, !.buf = buf]
  BY InFrontOfReusable
<1>2. m.buf \in [Buffer -> BufferType] /\ m.reusable \in 0 .. Buffers
  BY ManagerFields
<1>3. AreRelinked(m.buf, a, b, m.reusable, buf)
  BY <1>2, RelinkedIs
<1> HIDE DEF buf
<1>4. a \in 0 .. Buffers /\ buf \in [Buffer -> BufferType]
  BY <1>3, TwoIsBuffer DEF Buffer, AreRelinked
<1>5. /\ r \in Manager /\ r.buf = buf /\ r.freed_in_tx = m.freed_in_tx
      /\ r.freed_in_tx_old = m.freed_in_tx_old
      /\ r.freed_logically = m.freed_logically /\ r.reusable = a
      /\ r.allocated = m.allocated
  BY <1>1, <1>4 DEF Manager
<1>6. QED BY <1>3, <1>5 DEF PutBack, AreRelinked

\* The minimum x frees the stored buffer i.
Frees(m, i, x) == m.buf[i].init_ts /\ m.buf[i].ts <= x

\* The dominated buffers are those from the f-th on.
DominatedFrom(m, L, k, f, x) ==
  /\ f \in 1 .. k /\ Dominated(m, x) = From(L, f, k) /\ Frees(m, L[f], x)
  /\ \A a \in 1 .. f - 1 : ~ Frees(m, L[a], x)

LEMMA DominatedIs ==
  ASSUME NEW m, NEW T, NEW n, NEW L, NEW k, NEW R, Orderly(m, T, n, L, k, R), NEW x \in Nat
  PROVE  Dominated(m, x) = {} \/ \E f : DominatedFrom(m, L, k, f, x)
<1>1. /\ Stored(m) = From(L, 1, k) /\ k \in Nat
      /\ \A a \in 1 .. k : Chain(m, L[a]) = From(L, a, k)
  BY StoredFrom, OrderlyFields
<1> DEFINE D == {a \in 1 .. k : Frees(m, L[a], x)}
<1>2. ASSUME NEW j
      PROVE  j \in Dominated(m, x) <=> \E a \in D : j \in From(L, a, k)
  <2>1. ASSUME j \in Dominated(m, x) PROVE \E a \in D : j \in From(L, a, k)
    <3>1. PICK i \in Stored(m) : Frees(m, i, x) /\ j \in Chain(m, i)
      BY <2>1 DEF Dominated, Stored, Frees
    <3>2. PICK a \in 1 .. k : i = L[a]
      BY <1>1, <3>1 DEF From
    <3>3. QED BY <1>1, <3>1, <3>2
  <2>2. ASSUME NEW a \in D, j \in From(L, a, k) PROVE j \in Dominated(m, x)
    <3>1. L[a] \in Stored(m) /\ j \in Chain(m, L[a])
      BY <1>1, <2>2 DEF From
    <3>2. a .. k \subseteq 1 .. k
      BY <1>1
    <3>3. j \in Stored(m)
      BY <1>1, <2>2, <3>2 DEF From
    <3>4. QED BY <3>1, <3>3 DEF Dominated, Stored, Frees
  <2>3. QED BY <2>1, <2>2
<1>3. CASE D = {}
  BY <1>2, <1>3
<1>4. CASE D # {}
  <2>1. D \subseteq Nat
    BY <1>1
  <2>2. PICK f \in D : \A a \in D : f <= a
    <3> HIDE DEF D
    <3>1. QED BY <1>4, <2>1, LeastOf
  <2>3. \A a \in 1 .. f - 1 : a \notin D
    BY <1>1, <2>2
  <2>4. \A a \in 1 .. f - 1 : ~ Frees(m, L[a], x)
    BY <1>1, <2>3
  <2>5. \A a \in D : a .. k \subseteq f .. k
    BY <1>1, <2>2
  <2>6. \A a \in D : From(L, a, k) \subseteq From(L, f, k)
    <3> HIDE DEF D
    <3>1. QED BY <2>5 DEF From
  <2>7. Dominated(m, x) = From(L, f, k)
    <3> HIDE DEF D
    <3>1. Dominated(m, x) \subseteq From(L, f, k)
      BY <1>2, <2>6
    <3>2. From(L, f, k) \subseteq Dominated(m, x)
      BY <1>2, <2>2
    <3>3. QED BY <3>1, <3>2
  <2>8. QED BY <2>2, <2>4, <2>7 DEF DominatedFrom
<1>5. QED BY <1>3, <1>4

\* The stored buffers from the f-th on are reusable.
Cut(m, L, k, f, r) ==
  /\ r \in Manager /\ r.freed_in_tx = m.freed_in_tx /\ r.freed_in_tx_old = m.freed_in_tx_old
  /\ r.freed_logically = (IF f = 1 THEN NULL ELSE m.freed_logically)
  /\ r.reusable = L[f] /\ r.allocated = m.allocated
  /\ \A i \in Buffer :
       /\ r.buf[i].ptrs = m.buf[i].ptrs /\ r.buf[i].rollback_next_ptr = m.buf[i].rollback_next_ptr
       /\ r.buf[i].ts = m.buf[i].ts /\ r.buf[i].init_ts = m.buf[i].init_ts
       /\ r.buf[i].next = (IF i = L[k] THEN m.reusable ELSE IF f > 1 /\ i = L[f - 1] THEN NULL
                           ELSE m.buf[i].next)
       /\ r.buf[i].prev = (IF i = L[f] THEN NULL ELSE IF i = m.reusable THEN L[k] ELSE m.buf[i].prev)

FirstOf(m, D) == CHOOSE i \in D : D \subseteq Chain(m, i)
LastOf(m, D) == CHOOSE i \in D : m.buf[i].next = NULL
CutFrom(m, x, first) ==
  IF m.buf[first].prev = NULL THEN [[m EXCEPT !.last_minimum_ts = x] EXCEPT !.freed_logically = NULL]
  ELSE [[m EXCEPT !.last_minimum_ts = x] EXCEPT !.buf[m.buf[first].prev].next = NULL]

LEMMA FreeDominatedBy ==
  ASSUME NEW m, NEW x, Dominated(m, x) # {}
  PROVE  FreeDominated(m, x) =
           PutInFront(CutFrom(m, x, FirstOf(m, Dominated(m, x))), "reusable",
                      FirstOf(m, Dominated(m, x)), LastOf(m, Dominated(m, x)))
  BY DEF FreeDominated, FirstOf, LastOf, CutFrom

LEMMA FirstAndLast ==
  ASSUME NEW m, NEW T, NEW n, NEW L, NEW k, NEW R, Orderly(m, T, n, L, k, R), NEW f \in 1 .. k,
         NEW D, D = From(L, f, k)
  PROVE  FirstOf(m, D) = L[f] /\ LastOf(m, D) = L[k]
<1>1. /\ \A a \in 1 .. k : Chain(m, L[a]) = From(L, a, k)
      /\ k \in Nat /\ L \in [1 .. k -> Buffer] /\ f \in f .. k /\ k \in f .. k /\ k \in 1 .. k
      /\ f .. k \subseteq 1 .. k /\ \A a \in f .. k : a \in 1 .. k /\ a \in Nat /\ a >= f
  BY StoredFrom, OrderlyFields
<1>2. Listed(m.buf, L, k) /\ Ends(m.buf, L, k)
  BY DEF Orderly, LogicalInOrder
<1>3. \A a, b \in 1 .. k : L[a] = L[b] => a = b
  BY <1>2 DEF Listed
<1>4. \A i \in D : D \subseteq Chain(m, i) <=> i = L[f]
  <2> SUFFICES ASSUME NEW i \in D PROVE D \subseteq Chain(m, i) <=> i = L[f]
    OBVIOUS
  <2>1. PICK a \in f .. k : i = L[a]
    BY DEF From
  <2>2. Chain(m, i) = From(L, a, k)
    BY <1>1, <2>1
  <2>3. ASSUME D \subseteq Chain(m, i) PROVE a = f
    <3>1. L[f] \in From(L, a, k)
      BY <1>1, <2>2, <2>3 DEF From
    <3>2. PICK b \in a .. k : L[f] = L[b]
      BY <3>1 DEF From
    <3>3. a \in Nat /\ a >= f /\ b \in 1 .. k /\ b >= a /\ f \in 1 .. k
      BY <1>1
    <3>4. b = f
      BY <1>3, <3>2, <3>3
    <3>5. QED BY <3>3, <3>4
  <2>4. i = L[f] => Chain(m, i) = D
    BY <1>1
  <2>5. QED BY <2>1, <2>3, <2>4
<1>5. L[f] \in D /\ L[k] \in D
  BY <1>1 DEF From
<1>6. \A i \in D : m.buf[i].next = NULL <=> i = L[k]
  <2> SUFFICES ASSUME NEW i \in D PROVE m.buf[i].next = NULL <=> i = L[k]
    OBVIOUS
  <2>1. PICK a \in f .. k : i = L[a]
    BY DEF From
  <2>2. m.buf[L[k]].next = NULL
    <3>1. k > 0
      BY <1>1
    <3>2. QED BY <1>2, <3>1 DEF Ends
  <2>3. ASSUME a # k PROVE m.buf[i].next # NULL
    <3>1. a \in 1 .. k - 1 /\ a + 1 \in 1 .. k
      BY <1>1, <2>3
    <3>2. m.buf[i].next = L[a + 1]
      BY <1>2, <2>1, <3>1 DEF Listed
    <3>3. L[a + 1] \in Buffer
      BY <1>1, <3>1
    <3>4. QED BY <3>2, <3>3, TwoIsBuffer DEF Buffer
  <2>4. QED BY <2>1, <2>2, <2>3
<1>7. FirstOf(m, D) = L[f]
  BY <1>4, <1>5 DEF FirstOf
<1>8. LastOf(m, D) = L[k]
  BY <1>5, <1>6 DEF LastOf
<1>9. QED BY <1>7, <1>8

LEMMA FreeDominatedIs ==
  ASSUME NEW m, NEW T, NEW n, NEW L, NEW k, NEW R, Orderly(m, T, n, L, k, R), NEW x \in Nat,
         NEW f, DominatedFrom(m, L, k, f, x), NEW r, r = FreeDominated(m, x)
  PROVE  Cut(m, L, k, f, r)
<1>1. /\ m \in Manager /\ k \in Nat /\ L \in [1 .. k -> Buffer] /\ f \in 1 .. k
      /\ f \in Nat /\ k \in 1 .. k /\ L[f] \in Buffer /\ L[k] \in Buffer
  <2>1. m \in Manager /\ k \in Nat /\ L \in [1 .. k -> Buffer] /\ f \in 1 .. k
    BY OrderlyFields DEF DominatedFrom
  <2>2. QED BY <2>1
<1> DEFINE D == Dominated(m, x)
           known == [m EXCEPT !.last_minimum_ts = x]
           prev == m.buf[L[f]].prev
           cut == IF prev = NULL THEN [known EXCEPT !.freed_logically = NULL]
                  ELSE [known EXCEPT !.buf[prev].next = NULL]
<1>2. D = From(L, f, k) /\ L[f] \in D
  BY <1>1 DEF DominatedFrom, From
<1>3. r = PutInFront(cut, "reusable", L[f], L[k])
  <2>1. FirstOf(m, D) = L[f] /\ LastOf(m, D) = L[k]
    <3> HIDE DEF D
    <3>1. QED BY <1>1, <1>2, FirstAndLast
  <2>2. D # {}
    BY <1>2
  <2>3. r = PutInFront(CutFrom(m, x, L[f]), "reusable", L[f], L[k])
    BY <2>1, <2>2, FreeDominatedBy
  <2>4. CutFrom(m, x, L[f]) = cut
    BY DEF CutFrom
  <2> HIDE DEF cut
  <2>5. QED BY <2>3, <2>4
<1>4. prev = IF f = 1 THEN NULL ELSE L[f - 1]
  <2>1. CASE f = 1
    <3>1. k > 0
      BY <1>1
    <3>2. QED BY <2>1, <3>1 DEF Orderly, LogicalInOrder
  <2>2. CASE f # 1
    <3>1. f - 1 \in 1 .. k - 1 /\ f - 1 + 1 = f
      BY <1>1, <2>2
    <3>2. m.buf[L[f - 1 + 1]].prev = L[f - 1]
      BY <3>1 DEF Orderly, LogicalInOrder
    <3>3. QED BY <2>2, <3>1, <3>2
  <2>3. QED BY <2>1, <2>2
<1>5. /\ known \in Manager /\ known.buf = m.buf
      /\ known.freed_in_tx = m.freed_in_tx /\ known.freed_in_tx_old = m.freed_in_tx_old
      /\ known.freed_logically = m.freed_logically /\ known.reusable = m.reusable
      /\ known.allocated = m.allocated
  BY <1>1 DEF Manager
<1> HIDE DEF known, prev
<1>6. /\ cut \in Manager /\ cut.freed_in_tx = m.freed_in_tx /\ cut.freed_in_tx_old = m.freed_in_tx_old
      /\ cut.freed_logically = (IF f = 1 THEN NULL ELSE m.freed_logically)
      /\ cut.reusable = m.reusable /\ cut.allocated = m.allocated
      /\ \A i \in Buffer :
           /\ cut.buf[i].ptrs = m.buf[i].ptrs /\ cut.buf[i].rollback_next_ptr = m.buf[i].rollback_next_ptr
           /\ cut.buf[i].ts = m.buf[i].ts /\ cut.buf[i].init_ts = m.buf[i].init_ts
           /\ cut.buf[i].next = (IF f > 1 /\ i = L[f - 1] THEN NULL ELSE m.buf[i].next)
           /\ cut.buf[i].prev = m.buf[i].prev
  <2>1. CASE f = 1
    <3>1. cut = [known EXCEPT !.freed_logically = NULL]
      BY <1>4, <2>1
    <3>2. NULL \in 0 .. Buffers
      BY TwoIsBuffer
    <3> HIDE DEF cut
    <3>3. /\ cut \in Manager /\ cut.buf = m.buf /\ cut.freed_logically = NULL
          /\ cut.freed_in_tx = m.freed_in_tx /\ cut.freed_in_tx_old = m.freed_in_tx_old
          /\ cut.reusable = m.reusable /\ cut.allocated = m.allocated
      BY <1>5, <3>1, <3>2 DEF Manager
    <3>4. ~ (f > 1)
      BY <2>1
    <3>5. QED BY <2>1, <3>3, <3>4
  <2>2. CASE f # 1
    <3>1. L[f - 1] \in Buffer /\ f > 1
      BY <1>1, <2>2
    <3>2. prev = L[f - 1] /\ prev # NULL
      BY <1>4, <2>2, <3>1, TwoIsBuffer DEF Buffer
    <3> DEFINE old == known.buf[prev]
               new == [old EXCEPT !.next = NULL]
    <3>3. old \in BufferType /\ NULL \in 0 .. Buffers
      BY <1>5, <3>1, <3>2, BufferFields, TwoIsBuffer
    <3>4. /\ new \in BufferType /\ new.ptrs = old.ptrs /\ new.rollback_next_ptr = old.rollback_next_ptr
          /\ new.ts = old.ts /\ new.init_ts = old.init_ts /\ new.next = NULL /\ new.prev = old.prev
      <4> HIDE DEF old
      <4>1. QED BY <3>3 DEF BufferType
    <3>5. cut = [known EXCEPT !.buf = [known.buf EXCEPT ![prev] = new]]
      BY <3>2
    <3> HIDE DEF cut, new
    <3>6. HasChanged(known, prev, new, cut)
      BY <1>5, <3>1, <3>2, <3>4, <3>5, BufferChanged
    <3>7. /\ cut \in Manager /\ cut.freed_in_tx = m.freed_in_tx /\ cut.freed_in_tx_old = m.freed_in_tx_old
          /\ cut.freed_logically = m.freed_logically
          /\ cut.reusable = m.reusable /\ cut.allocated = m.allocated
          /\ cut.buf[prev] = new /\ \A j \in Buffer \ {prev} : cut.buf[j] = m.buf[j]
      BY <1>5, <3>6 DEF HasChanged
    <3>8. ASSUME NEW i \in Buffer
          PROVE  /\ cut.buf[i].ptrs = m.buf[i].ptrs /\ cut.buf[i].rollback_next_ptr = m.buf[i].rollback_next_ptr
                 /\ cut.buf[i].ts = m.buf[i].ts /\ cut.buf[i].init_ts = m.buf[i].init_ts
                 /\ cut.buf[i].next = (IF i = L[f - 1] THEN NULL ELSE m.buf[i].next)
                 /\ cut.buf[i].prev = m.buf[i].prev
      <4>1. CASE i = prev
        <5>1. old = m.buf[prev]
          BY <1>5
        <5>2. QED BY <3>2, <3>4, <3>7, <4>1, <5>1
      <4>2. CASE i # prev
        BY <3>2, <3>7, <4>2
      <4>3. QED BY <4>1, <4>2
    <3>9. QED BY <2>2, <3>1, <3>7, <3>8
  <2>3. QED BY <2>1, <2>2
<1> HIDE DEF cut
<1>7. PutBack(cut, L[f], L[k], cut.freed_in_tx, r)
  BY <1>1, <1>3, <1>6, ReusableInFront
<1>8. /\ r \in Manager /\ r.freed_in_tx = m.freed_in_tx /\ r.freed_in_tx_old = m.freed_in_tx_old
      /\ r.freed_logically = (IF f = 1 THEN NULL ELSE m.freed_logically)
      /\ r.reusable = L[f] /\ r.allocated = m.allocated
  BY <1>6, <1>7 DEF PutBack
<1>9. ASSUME NEW i \in Buffer
      PROVE  /\ r.buf[i].ptrs = m.buf[i].ptrs /\ r.buf[i].rollback_next_ptr = m.buf[i].rollback_next_ptr
             /\ r.buf[i].ts = m.buf[i].ts /\ r.buf[i].init_ts = m.buf[i].init_ts
             /\ r.buf[i].next = (IF i = L[k] THEN m.reusable ELSE IF f > 1 /\ i = L[f - 1] THEN NULL
                                 ELSE m.buf[i].next)
             /\ r.buf[i].prev = (IF i = L[f] THEN NULL ELSE IF i = m.reusable THEN L[k] ELSE m.buf[i].prev)
  BY <1>6, <1>7 DEF PutBack
<1>10. QED BY <1>8, <1>9 DEF Cut

LEMMA CutIsOrderly ==
  ASSUME NEW m, NEW T, NEW n, NEW L, NEW k, NEW R, Orderly(m, T, n, L, k, R),
         NEW f \in 1 .. k, NEW r, Cut(m, L, k, f, r),
         NEW M, M = [i \in 1 .. f - 1 |-> L[i]], NEW Q, Q = R \cup From(L, f, k)
  PROVE  Orderly(r, T, n, M, f - 1, Q)
<1>1. /\ m \in Manager /\ n \in Nat \ {0} /\ k \in Nat
      /\ T \in [1 .. n -> Buffer] /\ L \in [1 .. k -> Buffer] /\ R \subseteq Buffer
      /\ 1 \in 1 .. n /\ n \in 1 .. n
      /\ m.allocated \in 2 .. Buffers /\ m.reusable \in 0 .. Buffers /\ m.freed_logically \in 0 .. Buffers
      /\ Buffers \in Nat /\ Size \in Nat \ {0} /\ 2 \in Buffer /\ NULL = 0
  BY OrderlyFields, ManagerFields, TwoIsBuffer
<1>2. FreesInOrder(m, T, n) /\ LogicalInOrder(m, L, k) /\ ReusableInOrder(m, R)
      /\ Apart(m, T, n, L, k, R) /\ AllocsInOrder(m)
  BY DEF Orderly
<1>3. Listed(m.buf, T, n) /\ Listed(m.buf, L, k) /\ Ends(m.buf, L, k)
  BY <1>2 DEF FreesInOrder, LogicalInOrder
<1> DEFINE z == f - 1
<1>4. /\ f \in Nat /\ f > 0 /\ z \in Nat /\ k \in 1 .. k /\ k > 0 /\ f \in f .. k /\ k \in f .. k
      /\ \A i \in 1 .. z : i \in 1 .. k /\ i # k /\ i < f /\ i \in Nat
      /\ \A i \in f .. k : i \in 1 .. k /\ i >= f /\ i \in Nat
      /\ (f > 1 => z \in 1 .. z)
  BY <1>1
<1>5. M \in [1 .. z -> Buffer] /\ \A i \in 1 .. z : M[i] = L[i]
  BY <1>1, <1>4
<1>6. /\ r \in Manager /\ r.freed_in_tx = m.freed_in_tx /\ r.freed_in_tx_old = m.freed_in_tx_old
      /\ r.freed_logically = (IF f = 1 THEN NULL ELSE m.freed_logically)
      /\ r.reusable = L[f] /\ r.allocated = m.allocated
  BY DEF Cut
<1>7. \A i \in Buffer :
       /\ r.buf[i].ptrs = m.buf[i].ptrs /\ r.buf[i].rollback_next_ptr = m.buf[i].rollback_next_ptr
       /\ r.buf[i].ts = m.buf[i].ts /\ r.buf[i].init_ts = m.buf[i].init_ts
       /\ r.buf[i].next = (IF i = L[k] THEN m.reusable ELSE IF f > 1 /\ i = L[f - 1] THEN NULL
                           ELSE m.buf[i].next)
       /\ r.buf[i].prev = (IF i = L[f] THEN NULL ELSE IF i = m.reusable THEN L[k] ELSE m.buf[i].prev)
  BY DEF Cut
<1>8. /\ \A i \in 1 .. n : T[i] \in Buffer /\ T[i] <= m.allocated /\ T[i] # 2 /\ T[i] \notin R
      /\ \A i \in 1 .. k : L[i] \in Buffer /\ L[i] <= m.allocated /\ L[i] # 2 /\ L[i] \notin R
      /\ \A i \in 1 .. n, j \in 1 .. k : T[i] # L[j]
  BY <1>1, <1>2 DEF Apart
<1>9. \A i, j \in 1 .. k : L[i] = L[j] => i = j
  BY <1>3 DEF Listed
<1>10. m.reusable \in R \cup {NULL}
  BY <1>2 DEF ReusableInOrder
<1>11. f > 1 => f - 1 \in 1 .. k
  BY <1>4
<1>12. \A i \in 1 .. n :
         /\ r.buf[T[i]].ptrs = m.buf[T[i]].ptrs /\ r.buf[T[i]].rollback_next_ptr = m.buf[T[i]].rollback_next_ptr
         /\ r.buf[T[i]].init_ts = m.buf[T[i]].init_ts
         /\ r.buf[T[i]].next = m.buf[T[i]].next /\ r.buf[T[i]].prev = m.buf[T[i]].prev
  <2> SUFFICES ASSUME NEW i \in 1 .. n
               PROVE  /\ r.buf[T[i]].ptrs = m.buf[T[i]].ptrs
                      /\ r.buf[T[i]].rollback_next_ptr = m.buf[T[i]].rollback_next_ptr
                      /\ r.buf[T[i]].init_ts = m.buf[T[i]].init_ts
                      /\ r.buf[T[i]].next = m.buf[T[i]].next /\ r.buf[T[i]].prev = m.buf[T[i]].prev
    OBVIOUS
  <2>1. T[i] \in Buffer /\ T[i] # L[k] /\ T[i] # L[f] /\ (f > 1 => T[i] # L[f - 1])
    BY <1>4, <1>8, <1>11
  <2>2. T[i] # m.reusable
    <3>1. T[i] # NULL
      BY <2>1, TwoIsBuffer DEF Buffer
    <3>2. T[i] \notin R
      BY <1>8
    <3>3. QED BY <1>10, <3>1, <3>2
  <2>3. QED BY <1>7, <2>1, <2>2
<1>13. FreesInOrder(r, T, n)
  <2>1. \A i \in 1 .. n - 1 : i \in 1 .. n /\ i + 1 \in 1 .. n
    BY <1>1
  <2>2. \A i \in 2 .. n : i \in 1 .. n
    BY <1>1
  <2>3. Listed(r.buf, T, n)
    BY <1>3, <1>12, <2>1 DEF Listed
  <2>4. FreesInOrder(m, T, n) /\ 1 \in 1 .. n /\ n \in 1 .. n
    BY <1>1, <1>2
  <2>5. n > 0 /\ r.freed_in_tx_old = T[1] /\ r.freed_in_tx = T[n] /\ (n > 1 => r.buf[T[n]].next = NULL)
    BY <1>6, <1>12, <2>4 DEF FreesInOrder
  <2>6. \A i \in 1 .. n - 1 : r.buf[T[i + 1]].prev = T[i] /\ Len(r.buf[T[i]].ptrs) = Size
    BY <1>12, <2>1, <2>4 DEF FreesInOrder
  <2>7. /\ Len(r.buf[T[n]].ptrs) < Size
        /\ r.buf[T[1]].rollback_next_ptr <= Len(r.buf[T[1]].ptrs)
        /\ r.buf[T[1]].rollback_next_ptr < Size
    BY <1>12, <2>4 DEF FreesInOrder
  <2>8. /\ \A i \in 2 .. n : r.buf[T[i]].rollback_next_ptr = 0
        /\ \A i \in 1 .. n : ~ r.buf[T[i]].init_ts
    BY <1>12, <2>2, <2>4 DEF FreesInOrder
  <2>9. QED BY <2>3, <2>5, <2>6, <2>7, <2>8 DEF FreesInOrder
<1>14. \A i \in 1 .. z :
         /\ r.buf[L[i]].ptrs = m.buf[L[i]].ptrs
         /\ r.buf[L[i]].ts = m.buf[L[i]].ts /\ r.buf[L[i]].init_ts = m.buf[L[i]].init_ts
         /\ r.buf[L[i]].next = (IF i = z THEN NULL ELSE m.buf[L[i]].next)
         /\ r.buf[L[i]].prev = m.buf[L[i]].prev
  <2> SUFFICES ASSUME NEW i \in 1 .. z
               PROVE  /\ r.buf[L[i]].ptrs = m.buf[L[i]].ptrs
                      /\ r.buf[L[i]].ts = m.buf[L[i]].ts /\ r.buf[L[i]].init_ts = m.buf[L[i]].init_ts
                      /\ r.buf[L[i]].next = (IF i = z THEN NULL ELSE m.buf[L[i]].next)
                      /\ r.buf[L[i]].prev = m.buf[L[i]].prev
    OBVIOUS
  <2>1. i \in 1 .. k /\ i # k /\ i # f /\ f > 1
    BY <1>4
  <2>2. L[i] \in Buffer /\ L[i] # L[k] /\ L[i] # L[f]
    BY <1>4, <1>8, <1>9, <2>1
  <2>3. L[i] # m.reusable
    BY <1>1, <1>8, <1>10, <2>1, <2>2 DEF Buffer
  <2>4. L[i] = L[f - 1] <=> i = z
    BY <1>9, <1>11, <2>1
  <2>5. QED BY <1>7, <2>1, <2>2, <2>3, <2>4
<1>15. LogicalInOrder(r, M, z)
  <2>1. \A i \in 1 .. z - 1 : i \in 1 .. z /\ i + 1 \in 1 .. z /\ i \in 1 .. k - 1 /\ i # z
    BY <1>4
  <2>2. Listed(r.buf, M, z)
    <3>1. \A i, j \in 1 .. z : M[i] = M[j] => i = j
      BY <1>4, <1>5, <1>9
    <3>2. ASSUME NEW i \in 1 .. z - 1 PROVE r.buf[M[i]].next = M[i + 1]
      <4>1. m.buf[L[i]].next = L[i + 1]
        BY <1>3, <2>1 DEF Listed
      <4>2. QED BY <1>5, <1>14, <2>1, <4>1
    <3>3. QED BY <1>4, <1>5, <3>1, <3>2 DEF Listed
  <2>3. Ends(r.buf, M, z)
    <3> SUFFICES ASSUME z > 0 PROVE r.buf[M[z]].next = NULL
      BY DEF Ends
    <3>1. z \in 1 .. z
      BY <1>4
    <3>2. QED BY <1>5, <1>14, <3>1
  <2>4. r.freed_logically = (IF z = 0 THEN NULL ELSE M[1])
    <3>1. m.freed_logically = L[1]
      BY <1>2, <1>4 DEF LogicalInOrder
    <3>2. z = 0 <=> f = 1
      BY <1>4
    <3>3. z # 0 => 1 \in 1 .. z
      BY <1>4
    <3>4. QED BY <1>5, <1>6, <3>1, <3>2, <3>3
  <2>5. z > 0 => r.buf[M[1]].prev = NULL
    <3>1. z > 0 => 1 \in 1 .. z
      BY <1>4
    <3>2. m.buf[L[1]].prev = NULL
      BY <1>2, <1>4 DEF LogicalInOrder
    <3>3. QED BY <1>5, <1>14, <3>1, <3>2
  <2>6. ASSUME NEW i \in 1 .. z - 1 PROVE r.buf[M[i + 1]].prev = M[i]
    <3>1. m.buf[L[i + 1]].prev = L[i]
      BY <1>2, <2>1 DEF LogicalInOrder
    <3>2. QED BY <1>5, <1>14, <2>1, <3>1
  <2>7. \A i \in 1 .. z : Len(r.buf[M[i]].ptrs) <= Size
    BY <1>2, <1>4, <1>5, <1>14 DEF LogicalInOrder
  <2>8. ASSUME NEW i \in 1 .. z, NEW j \in 1 .. z, i <= j, r.buf[M[i]].init_ts, r.buf[M[j]].init_ts
        PROVE  r.buf[M[j]].ts <= r.buf[M[i]].ts
    <3>1. /\ r.buf[M[i]].init_ts = m.buf[L[i]].init_ts /\ r.buf[M[i]].ts = m.buf[L[i]].ts
          /\ r.buf[M[j]].init_ts = m.buf[L[j]].init_ts /\ r.buf[M[j]].ts = m.buf[L[j]].ts
      BY <1>5, <1>14
    <3>2. i \in 1 .. k /\ j \in 1 .. k
      BY <1>4
    <3>3. m.buf[L[j]].ts <= m.buf[L[i]].ts
      BY <1>2, <2>8, <3>1, <3>2 DEF LogicalInOrder
    <3>4. QED BY <3>1, <3>3
  <2> HIDE DEF z
  <2>9. QED BY <2>2, <2>3, <2>4, <2>5, <2>6, <2>7, <2>8 DEF LogicalInOrder
<1>16. ASSUME NEW i \in Q PROVE i \in Buffer /\ i # 2 /\ i <= m.allocated
  <2>1. CASE i \in R
    <3>1. i \in (1 .. m.allocated) \ {2}
      BY <1>2, <2>1 DEF Apart
    <3>2. QED BY <1>1, <2>1, <3>1
  <2>2. CASE i \in From(L, f, k)
    BY <1>4, <1>8, <2>2 DEF From
  <2>3. QED BY <1>16, <2>1, <2>2
<1>17. ReusableInOrder(r, Q)
  <2>1. /\ \A i \in R : m.buf[i].next \in R \cup {NULL} /\ m.buf[i].next \notin {m.reusable} \ {NULL}
        /\ \A i, j \in R : m.buf[i].next = m.buf[j].next /\ m.buf[i].next # NULL => i = j
    BY <1>2 DEF ReusableInOrder
  <2>2. r.reusable = L[f] /\ L[f] \in Q /\ L[f] \notin R /\ L[f] # NULL
    <3>1. L[f] \in Buffer /\ L[f] \notin R /\ L[f] \in From(L, f, k)
      BY <1>4, <1>8 DEF From
    <3>2. QED BY <1>1, <1>6, <3>1 DEF Buffer
  <2>3. \A i \in R : i \in Buffer /\ r.buf[i].next = m.buf[i].next
    <3> SUFFICES ASSUME NEW i \in R PROVE i \in Buffer /\ r.buf[i].next = m.buf[i].next
      OBVIOUS
    <3>1. i \in Buffer /\ i # L[k] /\ (f > 1 => i # L[f - 1])
      BY <1>1, <1>4, <1>8, <1>11
    <3>2. QED BY <1>7, <3>1
  <2>4. ASSUME NEW i \in R
        PROVE  r.buf[i].next \in R \cup {NULL} /\ r.buf[i].next # L[f]
               /\ (r.buf[i].next = m.reusable => r.buf[i].next = NULL)
    BY <2>1, <2>2, <2>3
  <2>5. ASSUME NEW i \in f .. k
        PROVE  \/ i + 1 \in f .. k /\ i + 1 # f /\ r.buf[L[i]].next = L[i + 1]
               \/ i = k /\ r.buf[L[i]].next = m.reusable
    <3>1. i \in 1 .. k /\ L[i] \in Buffer
      BY <1>4, <1>8
    <3>2. CASE i = k
      BY <1>7, <3>1, <3>2
    <3>3. CASE i # k
      <4>1. i \in 1 .. k - 1 /\ i + 1 \in f .. k /\ i + 1 # f /\ (f > 1 => i # f - 1)
        BY <1>4, <3>3
      <4>2. L[i] # L[k] /\ (f > 1 => L[i] # L[f - 1])
        BY <1>4, <1>9, <1>11, <3>1, <3>3, <4>1
      <4>3. m.buf[L[i]].next = L[i + 1]
        BY <1>3, <4>1 DEF Listed
      <4>4. QED BY <1>7, <3>1, <4>1, <4>2, <4>3
    <3>4. QED BY <3>2, <3>3
  <2>6. \A i, j \in f .. k : L[i] = L[j] => i = j
    BY <1>4, <1>9
  <2>7. ASSUME NEW i \in f .. k PROVE L[i] \notin R /\ L[i] # NULL /\ L[i] \in From(L, f, k)
    <3>1. L[i] \in Buffer /\ L[i] \notin R /\ L[i] \in From(L, f, k)
      BY <1>4, <1>8 DEF From
    <3>2. QED BY <1>1, <3>1 DEF Buffer
  <2>8. ASSUME NEW i \in f .. k
        PROVE  r.buf[L[i]].next \in Q \cup {NULL} /\ r.buf[L[i]].next # L[f]
    <3>1. CASE i = k /\ r.buf[L[i]].next = m.reusable
      BY <1>10, <2>2, <3>1
    <3>2. CASE i + 1 \in f .. k /\ i + 1 # f /\ r.buf[L[i]].next = L[i + 1]
      <4>1. L[i + 1] # L[f]
        BY <1>4, <2>6, <3>2
      <4>2. QED BY <2>7, <3>2, <4>1
    <3>3. QED BY <2>5, <3>1, <3>2
  <2>9. ASSUME NEW i \in f .. k, NEW j \in f .. k, r.buf[L[i]].next = r.buf[L[j]].next
        PROVE  L[i] = L[j]
    <3>1. CASE i = k /\ r.buf[L[i]].next = m.reusable
      <4>1. ~ (j + 1 \in f .. k /\ j + 1 # f /\ r.buf[L[j]].next = L[j + 1])
        BY <1>10, <2>7, <2>9, <3>1
      <4>2. QED BY <2>5, <3>1, <4>1
    <3>2. CASE i + 1 \in f .. k /\ i + 1 # f /\ r.buf[L[i]].next = L[i + 1]
      <4>1. ~ (j = k /\ r.buf[L[j]].next = m.reusable)
        BY <1>10, <2>7, <2>9, <3>2
      <4>2. j + 1 \in f .. k /\ r.buf[L[j]].next = L[j + 1]
        BY <2>5, <4>1
      <4>3. i + 1 = j + 1
        BY <2>6, <2>9, <3>2, <4>2
      <4>4. QED BY <4>3
    <3>3. QED BY <2>5, <3>1, <3>2
  <2>10. ASSUME NEW i \in R, NEW j \in f .. k, r.buf[i].next = r.buf[L[j]].next, r.buf[i].next # NULL
         PROVE  FALSE
    <3>1. r.buf[i].next \in R /\ r.buf[i].next # m.reusable
      BY <2>4, <2>10
    <3>2. QED BY <2>5, <2>7, <2>10, <3>1
  <2>11. \A i \in Q : r.buf[i].next \in Q \cup {NULL} /\ r.buf[i].next # L[f]
    BY <2>4, <2>8 DEF From
  <2>12. ASSUME NEW i \in Q, NEW j \in Q, r.buf[i].next = r.buf[j].next, r.buf[i].next # NULL PROVE i = j
    <3>1. CASE i \in R /\ j \in R
      BY <2>1, <2>3, <2>12, <3>1
    <3>2. CASE i \in R /\ j \notin R
      BY <2>10, <2>12, <3>2 DEF From
    <3>3. CASE i \notin R /\ j \in R
      BY <2>10, <2>12, <3>3 DEF From
    <3>4. CASE i \notin R /\ j \notin R
      BY <2>9, <2>12, <3>4 DEF From
    <3>5. QED BY <3>1, <3>2, <3>3, <3>4
  <2>13. QED BY <2>2, <2>11, <2>12 DEF ReusableInOrder
<1>18. Apart(r, T, n, M, z, Q)
  <2>1. Q \subseteq (1 .. r.allocated) \ {2}
    <3>1. ASSUME NEW i \in Q PROVE i \in 1 .. m.allocated /\ i # 2
      <4>1. i \in Buffer /\ i # 2 /\ i <= m.allocated
        BY <1>16
      <4>2. QED BY <1>1, <4>1 DEF Buffer
    <3>2. QED BY <1>6, <3>1
  <2>2. ASSUME NEW i \in 1 .. n PROVE T[i] <= r.allocated /\ T[i] # 2 /\ T[i] \notin Q
    <3>1. T[i] \notin From(L, f, k)
      BY <1>4, <1>8 DEF From
    <3>2. QED BY <1>6, <1>8, <3>1
  <2>3. ASSUME NEW i \in 1 .. z PROVE M[i] <= r.allocated /\ M[i] # 2 /\ M[i] \notin Q
    <3>1. i \in 1 .. k /\ M[i] = L[i] /\ i < f
      BY <1>4, <1>5
    <3>2. L[i] \notin From(L, f, k)
      <4>1. ASSUME NEW j \in f .. k PROVE L[i] # L[j]
        <5>1. i # j /\ j \in 1 .. k
          BY <1>4, <3>1
        <5>2. QED BY <1>9, <3>1, <5>1
      <4>2. QED BY <4>1 DEF From
    <3>3. QED BY <1>6, <1>8, <3>1, <3>2
  <2>4. \A i \in 1 .. n, j \in 1 .. z : T[i] # M[j]
    BY <1>4, <1>5, <1>8
  <2>5. ASSUME NEW i \in Buffer, i > r.allocated PROVE r.buf[i] = CleanBuffer
    <3>1. i > m.allocated /\ m.buf[i] = CleanBuffer
      BY <1>2, <1>6, <2>5 DEF Apart
    <3>2. i # L[k] /\ i # L[f] /\ (f > 1 => i # L[f - 1])
      <4>1. \A j \in 1 .. k : L[j] # i
        BY <1>1, <1>8, <3>1 DEF Buffer
      <4>2. QED BY <1>4, <1>11, <4>1
    <3>3. i # m.reusable
      <4>1. m.reusable # NULL => m.reusable <= m.allocated
        BY <1>1, <1>2, <1>10 DEF Apart
      <4>2. QED BY <1>1, <3>1, <4>1 DEF Buffer
    <3>4. r.buf[i].ptrs = m.buf[i].ptrs /\ r.buf[i].rollback_next_ptr = m.buf[i].rollback_next_ptr
          /\ r.buf[i].ts = m.buf[i].ts /\ r.buf[i].init_ts = m.buf[i].init_ts
          /\ r.buf[i].next = m.buf[i].next /\ r.buf[i].prev = m.buf[i].prev
      BY <1>7, <3>2, <3>3
    <3>5. r.buf[i] \in BufferType /\ m.buf[i] \in BufferType
      BY <1>1, <1>6, BufferFields
    <3>6. r.buf[i] = m.buf[i]
      BY <3>4, <3>5, SameBuffer
    <3>7. QED BY <3>1, <3>6
  <2> HIDE DEF z
  <2>6. QED BY <2>1, <2>2, <2>3, <2>4, <2>5 DEF Apart
<1>19. AllocsInOrder(r)
  <2>1. 2 # L[k] /\ (f > 1 => 2 # L[f - 1])
    BY <1>4, <1>8, <1>11
  <2>2. r.buf[2].ptrs = m.buf[2].ptrs /\ r.buf[2].next = m.buf[2].next
    BY <1>1, <1>7, <2>1
  <2>3. QED BY <1>2, <2>2 DEF AllocsInOrder
<1>20. QED BY <1>6, <1>13, <1>15, <1>17, <1>18, <1>19 DEF Orderly

\* What a minimum x leaves.
Dominates(m, x, r) ==
  /\ InOrder(r) /\ Slots(r) \subseteq Slots(m) /\ NowSlots(r) = NowSlots(m)
  /\ \A s \in Slots(r) : Ptr(r, s) = Ptr(m, s)
  /\ \A y : Stamped(r, y) => Stamped(m, y)
  /\ \A y, s : Under(r, y, s) => Under(m, y, s)
  /\ \A s \in Slots(m) \ Slots(r) : \E y \in Nat : y <= x /\ Under(m, y, s)
  /\ Freed(m, x) = {Ptr(m, s) : s \in Slots(m) \ Slots(r)}
  /\ r.buf[2].ptrs = m.buf[2].ptrs

LEMMA CutSeen ==
  ASSUME NEW m, NEW T, NEW n, NEW L, NEW k, NEW R, Orderly(m, T, n, L, k, R), NEW x \in Nat,
         NEW f, DominatedFrom(m, L, k, f, x), NEW r, Cut(m, L, k, f, r),
         NEW M, M = [i \in 1 .. f - 1 |-> L[i]], NEW Q, Orderly(r, T, n, M, f - 1, Q)
  PROVE  Dominates(m, x, r)
<1>1. /\ m \in Manager /\ n \in Nat \ {0} /\ k \in Nat /\ f \in 1 .. k
      /\ T \in [1 .. n -> Buffer] /\ L \in [1 .. k -> Buffer]
      /\ Size \in Nat \ {0} /\ 2 \in Buffer
  BY OrderlyFields, TwoIsBuffer DEF DominatedFrom
<1>2. InOrder(r)
  BY DEF InOrder
<1> DEFINE z == f - 1
<1>3. /\ z \in Nat /\ f \in Nat /\ \A i \in 1 .. z : i \in 1 .. k /\ i < f /\ i \in Nat
      /\ \A i \in f .. k : i \in 1 .. k /\ i >= f
      /\ \A i \in 1 .. k : i \in 1 .. z \/ i \in f .. k
      /\ f \in f .. k
  BY <1>1
<1>4. \A i \in 1 .. z : M[i] = L[i]
  OBVIOUS
<1>5. \A i \in Buffer : /\ r.buf[i].ptrs = m.buf[i].ptrs
                        /\ r.buf[i].rollback_next_ptr = m.buf[i].rollback_next_ptr
                        /\ r.buf[i].ts = m.buf[i].ts /\ r.buf[i].init_ts = m.buf[i].init_ts
  BY DEF Cut
<1>6. \A i, j \in 1 .. k : L[i] = L[j] => i = j
  BY DEF Orderly, LogicalInOrder, Listed
<1>7. \A i \in 1 .. n, j \in 1 .. k : T[i] # L[j]
  BY DEF Orderly, Apart
<1>8. /\ From(M, 1, z) \subseteq From(L, 1, k) /\ From(L, 1, k) \subseteq From(M, 1, z) \cup From(L, f, k)
      /\ From(L, f, k) \subseteq From(L, 1, k)
      /\ From(M, 1, z) \cap From(L, f, k) = {} /\ From(T, 1, n) \cap From(L, 1, k) = {}
      /\ From(T, 1, n) \subseteq Buffer /\ From(L, 1, k) \subseteq Buffer
  <2>1. From(M, 1, z) = From(L, 1, z)
    BY <1>4 DEF From
  <2>2. From(L, 1, z) \subseteq From(L, 1, k) /\ From(L, f, k) \subseteq From(L, 1, k)
    BY <1>3 DEF From
  <2>3. From(L, 1, k) \subseteq From(L, 1, z) \cup From(L, f, k)
    BY <1>3 DEF From
  <2>4. From(L, 1, z) \cap From(L, f, k) = {}
    <3>1. \A i \in 1 .. z, j \in f .. k : i # j
      BY <1>3
    <3>2. \A i \in 1 .. z, j \in f .. k : L[i] # L[j]
      BY <1>3, <1>6, <3>1
    <3>3. QED BY <3>2 DEF From
  <2>5. From(T, 1, n) \cap From(L, 1, k) = {} /\ From(T, 1, n) \subseteq Buffer /\ From(L, 1, k) \subseteq Buffer
    BY <1>1, <1>7 DEF From
  <2>6. QED BY <2>1, <2>2, <2>3, <2>4, <2>5
<1> HIDE DEF z
<1>9. ASSUME NEW i, NEW j
      PROVE  <<i, j>> \in Slots(m) <=>
               i \in From(T, 1, n) \cup From(L, 1, k) /\ j \in 1 .. Size /\ j \in DOMAIN m.buf[i].ptrs
  <2>1. Slots(m) = SlotsBy(m, T, n, L, k)
    BY SlotsFrom
  <2>2. QED BY <2>1 DEF SlotsBy
<1>10. ASSUME NEW i, NEW j
       PROVE  <<i, j>> \in Slots(r) <=>
                i \in From(T, 1, n) \cup From(M, 1, z) /\ j \in 1 .. Size /\ j \in DOMAIN m.buf[i].ptrs
  <2>1. Slots(r) = SlotsBy(r, T, n, M, z)
    BY SlotsFrom DEF z
  <2>2. \A a \in From(T, 1, n) \cup From(M, 1, z) : r.buf[a].ptrs = m.buf[a].ptrs
    BY <1>5, <1>8
  <2>3. QED BY <2>1, <2>2 DEF SlotsBy
<1>11. \A s \in Slots(m) \cup Slots(r) : s = <<s[1], s[2]>>
  BY DEF Slots
<1>12. Slots(r) \subseteq Slots(m)
  <2> SUFFICES ASSUME NEW s \in Slots(r) PROVE s \in Slots(m)
    OBVIOUS
  <2>1. s = <<s[1], s[2]>>
    BY <1>11
  <2>2. /\ s[1] \in From(T, 1, n) \cup From(M, 1, z) /\ s[2] \in 1 .. Size
        /\ s[2] \in DOMAIN m.buf[s[1]].ptrs
    BY <1>10, <2>1
  <2>3. s[1] \in From(T, 1, n) \cup From(L, 1, k)
    BY <1>8, <2>2
  <2>4. <<s[1], s[2]>> \in Slots(m)
    BY <1>9, <2>2, <2>3
  <2>5. QED BY <2>1, <2>4
<1>13. NowSlots(r) = NowSlots(m)
  <2>1. NowSlots(m) = NowBy(m, T, n)
    BY SlotsFrom
  <2>2. NowSlots(r) = NowBy(r, T, n)
    BY SlotsFrom
  <2>3. NowBy(r, T, n) = NowBy(m, T, n)
    BY <1>5, <1>8 DEF NowBy
  <2>4. QED BY <2>1, <2>2, <2>3
<1>14. \A s \in Slots(r) : Ptr(r, s) = Ptr(m, s)
  <2> SUFFICES ASSUME NEW s \in Slots(r) PROVE Ptr(r, s) = Ptr(m, s)
    OBVIOUS
  <2>1. s = <<s[1], s[2]>>
    BY <1>11
  <2>2. s[1] \in Buffer
    BY <1>8, <1>10, <2>1
  <2>3. QED BY <1>5, <2>2 DEF Ptr
<1>15. \A a \in 1 .. z : r.buf[M[a]].init_ts = m.buf[L[a]].init_ts /\ r.buf[M[a]].ts = m.buf[L[a]].ts
  <2> SUFFICES ASSUME NEW a \in 1 .. z
               PROVE  r.buf[M[a]].init_ts = m.buf[L[a]].init_ts /\ r.buf[M[a]].ts = m.buf[L[a]].ts
    OBVIOUS
  <2>1. a \in 1 .. k /\ L[a] \in Buffer /\ M[a] = L[a]
    BY <1>1, <1>3, <1>4
  <2>2. QED BY <1>5, <2>1
<1>16. ASSUME NEW y, Stamped(r, y) PROVE Stamped(m, y)
  <2>1. StampedBy(r, M, z, y)
    BY <1>16, StampedFrom DEF z
  <2>2. StampedBy(m, L, k, y)
    BY <1>3, <1>15, <2>1 DEF StampedBy
  <2>3. QED BY <2>2, StampedFrom
<1>17. ASSUME NEW y, NEW s, Under(r, y, s) PROVE Under(m, y, s)
  <2>1. s \in Slots(r) /\ UnderBy(r, M, z, y, s)
    BY <1>17, StampedFrom DEF z
  <2>2. PICK a \in 1 .. z : \E b \in a .. z : r.buf[M[a]].init_ts /\ r.buf[M[a]].ts = y /\ s[1] = M[b]
    BY <2>1 DEF UnderBy
  <2>3. PICK b \in a .. z : r.buf[M[a]].init_ts /\ r.buf[M[a]].ts = y /\ s[1] = M[b]
    BY <2>2
  <2>4. a \in 1 .. k /\ b \in 1 .. z /\ b \in a .. k
    BY <1>1, <1>3
  <2>5. m.buf[L[a]].init_ts /\ m.buf[L[a]].ts = y /\ s[1] = L[b]
    BY <1>4, <1>15, <2>3, <2>4
  <2>6. UnderBy(m, L, k, y, s)
    BY <2>4, <2>5 DEF UnderBy
  <2>7. QED BY <1>12, <2>1, <2>6, StampedFrom
<1>18. m.buf[L[f]].init_ts /\ m.buf[L[f]].ts <= x /\ m.buf[L[f]].ts \in Nat
  <2>1. L[f] \in Buffer
    BY <1>1
  <2>2. QED BY <1>1, <2>1, BufferFields DEF DominatedFrom, Frees
<1>19. \A i \in From(L, f, k) : i \notin From(T, 1, n) \cup From(M, 1, z) /\ i \in From(L, 1, k)
  BY <1>8
<1>20. ASSUME NEW s \in Slots(m) \ Slots(r) PROVE s[1] \in From(L, f, k)
  <2>1. s = <<s[1], s[2]>>
    BY <1>11
  <2>2. QED BY <1>8, <1>9, <1>10, <2>1
<1>21. ASSUME NEW s \in Slots(m) \ Slots(r) PROVE \E y \in Nat : y <= x /\ Under(m, y, s)
  <2>1. PICK b \in f .. k : s[1] = L[b]
    BY <1>20 DEF From
  <2>2. UnderBy(m, L, k, m.buf[L[f]].ts, s)
    BY <1>1, <1>18, <2>1 DEF UnderBy
  <2>3. Under(m, m.buf[L[f]].ts, s)
    BY <2>2, StampedFrom
  <2>4. QED BY <1>18, <2>3
<1>22. Freed(m, x) = {Ptr(m, s) : s \in Slots(m) \ Slots(r)}
  <2>1. Freed(m, x) = UNION {Pointers(m, i) : i \in From(L, f, k)}
    BY DEF Freed, DominatedFrom
  <2>2. ASSUME NEW b \in Freed(m, x) PROVE \E s \in Slots(m) \ Slots(r) : b = Ptr(m, s)
    <3>1. PICK i \in From(L, f, k) : b \in Pointers(m, i)
      BY <2>1
    <3>2. PICK j \in DOMAIN m.buf[i].ptrs : b = m.buf[i].ptrs[j]
      BY <3>1 DEF Pointers
    <3>3. PICK a \in 1 .. k : i = L[a]
      BY <1>8 DEF From
    <3>4. Len(m.buf[i].ptrs) <= Size
      BY <3>3 DEF Orderly, LogicalInOrder
    <3>5. m.buf[i].ptrs \in Seq(Block)
      BY <1>1, <3>3, BufferFields
    <3>6. j \in 1 .. Size
      <4>1. j \in 1 .. Len(m.buf[i].ptrs) /\ Len(m.buf[i].ptrs) \in Nat
        BY <3>5
      <4>2. QED BY <1>1, <3>4, <4>1
    <3>7. <<i, j>> \in Slots(m) /\ <<i, j>> \notin Slots(r)
      BY <1>9, <1>10, <1>19, <3>6
    <3>8. b = Ptr(m, <<i, j>>)
      BY <3>2 DEF Ptr
    <3>9. QED BY <3>7, <3>8
  <2>3. ASSUME NEW s \in Slots(m) \ Slots(r) PROVE Ptr(m, s) \in Freed(m, x)
    <3>1. s[1] \in From(L, f, k) /\ s = <<s[1], s[2]>>
      BY <1>11, <1>20
    <3>2. s[2] \in DOMAIN m.buf[s[1]].ptrs
      BY <1>9, <3>1
    <3>3. Ptr(m, s) \in Pointers(m, s[1])
      BY <3>2 DEF Ptr, Pointers
    <3>4. QED BY <2>1, <3>1, <3>3
  <2>4. QED BY <2>2, <2>3
<1>23. r.buf[2].ptrs = m.buf[2].ptrs
  BY <1>1, <1>5
<1>24. QED BY <1>2, <1>12, <1>13, <1>14, <1>16, <1>17, <1>21, <1>22, <1>23 DEF Dominates

LEMMA DomM ==
  ASSUME NEW m, InOrder(m), NEW x \in Nat, NEW r, r = FreeDominated(m, x)
  PROVE  Dominates(m, x, r)
<1>1. PICK T, n, L, k, R : Orderly(m, T, n, L, k, R)
  BY DEF InOrder
<1>2. CASE Dominated(m, x) = {}
  <2>1. m \in Manager
    BY <1>1, OrderlyFields
  <2>2. r = [m EXCEPT !.last_minimum_ts = x]
    BY <1>2 DEF FreeDominated
  <2>3. /\ r \in Manager /\ r.buf = m.buf
        /\ r.freed_in_tx = m.freed_in_tx /\ r.freed_in_tx_old = m.freed_in_tx_old
        /\ r.freed_logically = m.freed_logically /\ r.reusable = m.reusable
        /\ r.allocated = m.allocated
    BY <2>1, <2>2 DEF Manager
  <2>4. AllocsInOrder(r)
    BY <1>1, <2>3 DEF Orderly, AllocsInOrder
  <2>5. Orderly(r, T, n, L, k, R) /\ SameFrees(m, r)
    <3>1. \A j \in Buffer \ {2} : r.buf[j] = m.buf[j]
      BY <2>3
    <3>2. QED BY <1>1, <2>3, <2>4, <3>1, AllocFrame
  <2>6. Freed(m, x) = {}
    BY <1>2 DEF Freed
  <2>7. Slots(m) \ Slots(r) = {}
    BY <2>5 DEF SameFrees
  <2>8. Freed(m, x) = {Ptr(m, s) : s \in Slots(m) \ Slots(r)}
    BY <2>6, <2>7
  <2>9. InOrder(r)
    BY <2>5 DEF InOrder
  <2>10. r.buf[2].ptrs = m.buf[2].ptrs
    BY <2>3
  <2>11. Slots(r) \subseteq Slots(m) /\ \A s \in Slots(r) : Ptr(r, s) = Ptr(m, s)
    BY <2>5 DEF SameFrees
  <2>12. NowSlots(r) = NowSlots(m) /\ \A y : Stamped(r, y) => Stamped(m, y)
    BY <2>5 DEF SameFrees
  <2>13. \A y, s : Under(r, y, s) => Under(m, y, s)
    BY <2>5 DEF SameFrees
  <2>14. QED BY <2>7, <2>8, <2>9, <2>10, <2>11, <2>12, <2>13 DEF Dominates
<1>3. CASE Dominated(m, x) # {}
  <2>1. PICK f : DominatedFrom(m, L, k, f, x)
    BY <1>1, <1>3, DominatedIs
  <2>2. Cut(m, L, k, f, r)
    BY <1>1, <2>1, FreeDominatedIs
  <2> DEFINE M == [i \in 1 .. f - 1 |-> L[i]]
             Q == R \cup From(L, f, k)
  <2>3. f \in 1 .. k /\ M = [i \in 1 .. f - 1 |-> L[i]] /\ Q = R \cup From(L, f, k)
    BY <2>1 DEF DominatedFrom
  <2> HIDE DEF M, Q
  <2>4. Orderly(r, T, n, M, f - 1, Q)
    BY <1>1, <2>2, <2>3, CutIsOrderly
  <2>5. QED BY <1>1, <2>1, <2>2, <2>3, <2>4, CutSeen
<1>4. QED BY <1>2, <1>3

----------------------------------------------------------------------------
(* A manager in order, seen from outside *)

\* What the transaction has allocated, and what is to be freed.
Own(m) == Pointers(m, 2)
InFree(m) == {Ptr(m, s) : s \in Slots(m)}
InNow(m) == {Ptr(m, s) : s \in NowSlots(m)}

LEMMA InitialIsOrdered ==
  /\ InOrder(InitialManager) /\ Slots(InitialManager) = {} /\ NowSlots(InitialManager) = {}
  /\ Own(InitialManager) = {} /\ \A x : ~ Stamped(InitialManager, x)
<1> DEFINE m == InitialManager
           T == [i \in 1 .. 1 |-> 1]
           L == [i \in 1 .. 0 |-> 1]
<1>1. /\ m.freed_in_tx = 1 /\ m.freed_in_tx_old = 1 /\ m.alloced_in_tx = 2 /\ m.alloced_in_tx_old = 2
      /\ m.freed_logically = NULL /\ m.reusable = NULL /\ m.last_minimum_ts = 0 /\ m.allocated = 2
      /\ m.buf = [i \in 1 .. Buffers |-> CleanBuffer] /\ m = InitialManager
  BY DEF InitialManager, MINIMUM_TS
<1>2. /\ CleanBuffer \in BufferType /\ CleanBuffer.ptrs = <<>> /\ CleanBuffer.rollback_next_ptr = 0
      /\ CleanBuffer.next = NULL /\ CleanBuffer.prev = NULL /\ CleanBuffer.init_ts = FALSE
  BY TwoIsBuffer DEF CleanBuffer, BufferType
<1>3. m.buf \in [Buffer -> BufferType] /\ \A i \in Buffer : m.buf[i] = CleanBuffer
  BY <1>1, <1>2 DEF Buffer
<1>4. m \in Manager
  BY <1>1, <1>3, TwoIsBuffer DEF Manager, InitialManager, Buffer, MINIMUM_TS
<1> HIDE DEF m
<1>5. T \in [1 .. 1 -> Buffer] /\ T[1] = 1 /\ 1 .. 1 = {1} /\ \A i \in 1 .. 1 : i = 1
  BY TwoIsBuffer
<1>6. L \in [1 .. 0 -> Buffer] /\ 1 .. 0 = {}
  BY TwoIsBuffer
<1> HIDE DEF T, L
<1>7. m.buf[1] = CleanBuffer /\ m.buf[2] = CleanBuffer
  BY <1>3, TwoIsBuffer
<1>8. Size \in Nat \ {0} /\ MaxAlloc \in Nat /\ Len(<<>>) = 0 /\ DOMAIN <<>> = {}
  BY MemoryAssumption
<1>9. FreesInOrder(m, T, 1)
  BY <1>1, <1>2, <1>5, <1>7, <1>8 DEF FreesInOrder, Listed
<1>10. LogicalInOrder(m, L, 0)
  BY <1>1, <1>6 DEF LogicalInOrder, Listed, Ends
<1>11. ReusableInOrder(m, {})
  BY <1>1 DEF ReusableInOrder
<1>12. Apart(m, T, 1, L, 0, {})
  <2>1. \A i \in 1 .. 1 : T[i] <= m.allocated /\ T[i] # 2 /\ T[i] \notin {}
    BY <1>1, <1>5
  <2>2. /\ \A i \in 1 .. 0 : L[i] <= m.allocated /\ L[i] # 2 /\ L[i] \notin {}
        /\ \A i \in 1 .. 1, j \in 1 .. 0 : T[i] # L[j]
    BY <1>6
  <2>3. QED BY <1>3, <2>1, <2>2 DEF Apart
<1>13. AllocsInOrder(m)
  BY <1>2, <1>7, <1>8 DEF AllocsInOrder
<1>14. Orderly(m, T, 1, L, 0, {})
  BY <1>4, <1>9, <1>10, <1>11, <1>12, <1>13 DEF Orderly
<1>15. Slots(m) = SlotsBy(m, T, 1, L, 0) /\ NowSlots(m) = NowBy(m, T, 1)
  BY <1>14, SlotsFrom
<1>16. From(T, 1, 1) = {1} /\ From(L, 1, 0) = {}
  BY <1>5, <1>6 DEF From
<1>17. \A s \in {1} \X (1 .. Size) : s[2] \notin DOMAIN m.buf[s[1]].ptrs
  BY <1>2, <1>7, <1>8
<1>18. Slots(m) = {} /\ NowSlots(m) = {}
  BY <1>15, <1>16, <1>17 DEF SlotsBy, NowBy
<1>19. \A x : ~ Stamped(m, x)
  <2>1. \A x : ~ StampedBy(m, L, 0, x)
    BY <1>6 DEF StampedBy
  <2>2. QED BY <1>14, <2>1, StampedFrom
<1>20. Own(m) = {}
  BY <1>2, <1>7, <1>8 DEF Own, Pointers
<1>21. InOrder(m)
  BY <1>14 DEF InOrder
<1>22. QED BY <1>18, <1>19, <1>20, <1>21 DEF m

\* The places are finitely many, and a block is in each.
LEMMA SlotsTyped ==
  ASSUME NEW m, InOrder(m)
  PROVE  /\ m \in Manager /\ Slots(m) \subseteq Buffer \X (1 .. Size) /\ IsFiniteSet(Slots(m))
         /\ \A s \in Slots(m) : Ptr(m, s) \in Block
         /\ Own(m) \subseteq Block
<1>1. PICK T, n, L, k, R : Orderly(m, T, n, L, k, R)
  BY DEF InOrder
<1>2. m \in Manager /\ T \in [1 .. n -> Buffer] /\ L \in [1 .. k -> Buffer]
  BY <1>1, OrderlyFields
<1>3. From(T, 1, n) \subseteq Buffer /\ From(L, 1, k) \subseteq Buffer
  BY <1>2 DEF From
<1>4. Slots(m) \subseteq Buffer \X (1 .. Size)
  BY <1>1, <1>3, SlotsFrom DEF SlotsBy
<1>5. IsFiniteSet(Slots(m))
  <2>1. IsFiniteSet(Buffer) /\ IsFiniteSet(1 .. Size)
    BY TwoIsBuffer, FS_Interval DEF Buffer
  <2>2. IsFiniteSet(Buffer \X (1 .. Size))
    BY <2>1, FS_Product
  <2>3. QED BY <1>4, <2>2, FS_Subset
<1>6. ASSUME NEW s \in Slots(m) PROVE Ptr(m, s) \in Block
  <2>1. s[1] \in Buffer /\ s[2] \in DOMAIN m.buf[s[1]].ptrs
    BY <1>4 DEF Slots
  <2>2. m.buf[s[1]].ptrs \in Seq(Block)
    BY <1>2, <2>1, BufferFields
  <2>3. QED BY <2>1, <2>2 DEF Ptr
<1>7. Own(m) \subseteq Block
  <2>1. m.buf[2].ptrs \in Seq(Block)
    BY <1>2, BufferFields, TwoIsBuffer
  <2>2. QED BY <2>1 DEF Own, Pointers
<1>8. QED BY <1>2, <1>4, <1>5, <1>6, <1>7

\* A transaction that has filled a buffer has freed something: the buffer was
\* not full when it started.
LEMMA ChainedHasNow == ASSUME NEW m, InOrder(m), Chained(m) PROVE NowSlots(m) # {}
<1>1. PICK T, n, L, k, R : Orderly(m, T, n, L, k, R)
  BY DEF InOrder
<1>2. m \in Manager /\ n \in Nat \ {0} /\ T \in [1 .. n -> Buffer] /\ n > 1 /\ 1 \in 1 .. n - 1
  BY <1>1, OrderlyFields, TxLogFrom
<1>3. Len(m.buf[T[1]].ptrs) = Size /\ m.buf[T[1]].rollback_next_ptr < Size
  BY <1>1, <1>2 DEF Orderly, FreesInOrder
<1>4. T[1] \in Buffer /\ T[1] \in From(T, 1, n)
  BY <1>2 DEF From
<1>5. m.buf[T[1]].ptrs \in Seq(Block) /\ Size \in Nat \ {0}
  BY <1>2, <1>4, BufferFields, TwoIsBuffer
<1>6. Size \in DOMAIN m.buf[T[1]].ptrs /\ Size \in 1 .. Size
  BY <1>3, <1>5
<1> DEFINE s == <<T[1], Size>>
<1>7. s \in From(T, 1, n) \X (1 .. Size) /\ s[1] = T[1] /\ s[2] = Size
  BY <1>4, <1>6
<1> HIDE DEF s
<1>8. s \in NowBy(m, T, n)
  BY <1>3, <1>6, <1>7 DEF NowBy
<1>9. QED BY <1>1, <1>8, SlotsFrom

\* The allocations are counted by their blocks, which differ.
LEMMA OwnCount == ASSUME NEW m, InOrder(m) PROVE Len(m.buf[2].ptrs) = Cardinality(Own(m))
<1> DEFINE q == m.buf[2].ptrs
<1>1. m \in Manager /\ AllocsInOrder(m)
  BY DEF InOrder, Orderly
<1>2. q \in Seq(Block) /\ Len(q) \in Nat /\ DOMAIN q = 1 .. Len(q)
  BY <1>1, BufferFields, TwoIsBuffer
<1>3. Own(m) = {q[k] : k \in DOMAIN q}
  BY DEF Own, Pointers
<1>4. \A i, j \in DOMAIN q : q[i] = q[j] => i = j
  BY <1>1 DEF AllocsInOrder
<1> HIDE DEF q
<1> DEFINE f == [i \in 1 .. Len(q) |-> q[i]]
<1>5. f \in Bijection(1 .. Len(q), Own(m))
  BY <1>2, <1>3, <1>4 DEF Bijection, Injection, Surjection, IsInjective
<1>6. IsFiniteSet(1 .. Len(q)) /\ Cardinality(1 .. Len(q)) = Len(q)
  BY <1>2, FS_Interval
<1>7. Cardinality(1 .. Len(q)) = Cardinality(Own(m))
  <2>1. ExistsBijection(1 .. Len(q), Own(m))
    BY <1>5 DEF ExistsBijection
  <2>2. QED BY <1>6, <2>1, FS_Bijection
<1>8. QED BY <1>6, <1>7 DEF q

\* The timestamps of one manager fall along its list.
LEMMA OldestLastOf ==
  ASSUME NEW m, InOrder(m), NEW i \in Stored(m), NEW j \in Chain(m, i),
         m.buf[i].init_ts, m.buf[j].init_ts
  PROVE  m.buf[j].ts <= m.buf[i].ts
<1>1. PICK T, n, L, k, R : Orderly(m, T, n, L, k, R)
  BY DEF InOrder
<1>2. PICK a \in 1 .. k : i = L[a]
  BY <1>1, StoredFrom DEF From
<1>3. PICK b \in a .. k : j = L[b]
  <2>1. Chain(m, L[a]) = From(L, a, k)
    BY <1>1, StoredFrom
  <2>2. j \in From(L, a, k)
    BY <1>2, <2>1
  <2>3. QED BY <2>2 DEF From
<1>4. k \in Nat
  BY <1>1, OrderlyFields
<1>5. b \in 1 .. k /\ a <= b
  BY <1>2, <1>3, <1>4
<1>6. LogicalInOrder(m, L, k)
  BY <1>1 DEF Orderly
<1>7. QED BY <1>2, <1>3, <1>5, <1>6 DEF LogicalInOrder

\* What the module calls these sets.
LEMMA Views ==
  ASSUME NEW t \in Task, InOrder(mm[t])
  PROVE  /\ Allocated(t) = Own(mm[t]) /\ FreeSlots(t) = Slots(mm[t])
         /\ InFreeSlots(t) = InFree(mm[t]) /\ FreedNow(t) = InNow(mm[t])
<1>1. mm[t] \in Manager
  BY SlotsTyped
<1>2. mm[t]["alloced_in_tx_old"] = 2 /\ mm[t]["alloced_in_tx"] = 2
  BY <1>1, ManagerFields DEF Manager
<1>3. Log(mm[t], "alloced_in_tx_old", "alloced_in_tx") = {2}
  BY <1>2 DEF Log
<1>4. Allocated(t) = Own(mm[t])
  BY <1>3 DEF Allocated, Own
<1>5. FreeSlots(t) = Slots(mm[t])
  BY DEF FreeSlots, Slots, FreeLog, TxLog, Stored
<1>6. InFreeSlots(t) = InFree(mm[t])
  BY <1>5 DEF InFreeSlots, InFree, Ptr
<1>7. FreedNow(t) = InNow(mm[t])
  BY DEF FreedNow, InNow, NowSlots, FreeLog, TxLog, Ptr
<1>8. QED BY <1>4, <1>5, <1>6, <1>7

----------------------------------------------------------------------------
(* The minimum of the observed timestamps *)

Thread == 0 .. Threads - 1

\* The clocks and counters are numbers, and a program thread's snapshot is of
\* a time that has come.
Clocks ==
  /\ pc \in [Task -> {"idle", "running", "ended", "committed", "abort", "free_dominated",
                      "update_minimum", "scan"}]
  /\ last_observed_ts \in [Task -> Nat]
  /\ minimum_observed_ts \in Nat
  /\ scan \in [Task -> [i : Nat, minimum_ts : Nat]]
  /\ commit_ts \in Nat \ {0}
  /\ valid_ts \in [Thread -> Nat \ {0}]
  /\ \A p \in Thread : valid_ts[p] <= commit_ts

\* A task has observed a time before the snapshot of its program thread; only
\* thus does the next one it observes not lie before the last.
ObservedIsPast == \A t \in Task : last_observed_ts[t] < valid_ts[prog_thread_id(t)]

\* No task has observed a time before the minimum.
MinimumIsLeast == \A t \in Task : minimum_observed_ts <= last_observed_ts[t]

\* Between the load of a task's timestamp and the store of the minimum the task
\* may observe a later time, but not an earlier one.
ScanIsLeast ==
  \A t \in Task : pc[t] = "scan" =>
    /\ scan[t].i \in 1 .. Threads * SpecDepth
    /\ minimum_observed_ts <= scan[t].minimum_ts
    /\ \A u \in Task : u < scan[t].i => scan[t].minimum_ts <= last_observed_ts[u]

\* minimum_observed_ts_lock.
OneScans == \A t, u \in Task : pc[t] = "scan" /\ pc[u] = "scan" => t = u

MinInv == Clocks /\ ObservedIsPast /\ MinimumIsLeast /\ ScanIsLeast /\ OneScans

----------------------------------------------------------------------------
(* The tasks and their program threads *)

LEMMA Counts == /\ Threads \in Nat \ {0} /\ SpecDepth \in Nat \ {0}
                /\ Threads * SpecDepth \in Nat \ {0} /\ 0 \in Task /\ Task \subseteq Nat
<1>1. Threads \in Nat \ {0} /\ SpecDepth \in Nat \ {0}
  BY MemoryAssumption
<1>2. ASSUME NEW a \in Nat \ {0}, NEW b \in Nat \ {0} PROVE a * b \in Nat /\ a * b >= 1
  OBVIOUS
<1>3. Threads * SpecDepth \in Nat /\ Threads * SpecDepth >= 1
  BY <1>1, <1>2
<1> DEFINE n == Threads * SpecDepth
<1>4. n \in Nat /\ n >= 1 /\ Task = 0 .. n - 1
  BY <1>3 DEF Task
<1> HIDE DEF n
<1>5. n \in Nat \ {0} /\ 0 \in Task /\ Task \subseteq Nat
  BY <1>4
<1>6. QED BY <1>1, <1>5 DEF n

LEMMA ThreadOfTask == \A t \in Task : prog_thread_id(t) \in Thread
<1>1. ASSUME NEW a \in Nat \ {0}, NEW b \in Nat \ {0}, NEW t \in Nat, t <= a * b - 1
      PROVE  t \div b \in 0 .. a - 1
  <2>1. PICK q \in Int : q = t \div b
    OBVIOUS
  <2>2. q >= 0 /\ q * b <= t
    BY <2>1
  <2>3. a * b \in Nat /\ q * b \in Int
    BY <2>1
  <2>4. ASSUME q >= a PROVE FALSE
    <3>1. (q - a) * b >= 0
      BY <2>4
    <3>2. q * b >= a * b
      BY <3>1
    <3>3. QED BY <3>2, <2>2, <2>3, <1>1
  <2>5. QED BY <2>1, <2>2, <2>4
<1>2. ASSUME NEW t \in Task PROVE t \div SpecDepth \in 0 .. Threads - 1
  <2>1. t \in Nat /\ t <= Threads * SpecDepth - 1
    BY Counts DEF Task
  <2>2. QED BY <2>1, <1>1, Counts
<1>3. QED BY <1>2 DEF Thread, prog_thread_id

----------------------------------------------------------------------------
(* The steps *)

\* A step that leaves the clocks alone and starts no scan.
Quiet ==
  /\ UNCHANGED <<last_observed_ts, minimum_observed_ts, scan, commit_ts, valid_ts>>
  /\ \A t \in Task : pc'[t] = "scan" => pc[t] = "scan"

LEMMA QuietStep ==
  ASSUME MinInv, Quiet,
         pc' \in [Task -> {"idle", "running", "ended", "committed", "abort", "free_dominated",
                           "update_minimum", "scan"}]
  PROVE  MinInv'
<1>1. Clocks'
  BY DEF MinInv, Clocks, Quiet
<1>2. ObservedIsPast' /\ MinimumIsLeast'
  BY DEF MinInv, ObservedIsPast, MinimumIsLeast, Quiet
<1>3. ScanIsLeast' /\ OneScans'
  BY DEF MinInv, ScanIsLeast, OneScans, Quiet
<1>4. QED BY <1>1, <1>2, <1>3 DEF MinInv

LEMMA MinInit == Init => MinInv
<1> SUFFICES ASSUME Init PROVE MinInv
  OBVIOUS
<1>1. Clocks
  BY DEF Init, Clocks, MINIMUM_TS, Thread
<1>2. ObservedIsPast /\ MinimumIsLeast
  BY ThreadOfTask DEF Init, ObservedIsPast, MinimumIsLeast, MINIMUM_TS, Thread
<1>3. ScanIsLeast /\ OneScans
  BY DEF Init, ScanIsLeast, OneScans
<1>4. QED BY <1>1, <1>2, <1>3 DEF MinInv

\* What the memory managers do with a minimum.
LEMMA UseQuiet ==
  ASSUME NEW t \in Task, NEW m, NEW l \in {"idle", "update_minimum"}, Use(t, m, l)
  PROVE  \/ pc' = [pc EXCEPT ![t] = l]
         \/ pc' = [pc EXCEPT ![t] = "idle"]
  BY DEF Use, Goto

\* The time a task observes does not lie before the one it has observed.
LEMMA StartStep ==
  ASSUME MinInv, NEW t \in Task, TxStart(t)
  PROVE  MinInv' /\ minimum_observed_ts' = minimum_observed_ts
<1> DEFINE now == valid_ts[prog_thread_id(t)]
<1>1. now \in Nat \ {0} /\ prog_thread_id(t) \in Thread
  BY ThreadOfTask DEF MinInv, Clocks
<1>2. /\ pc' = [pc EXCEPT ![t] = "running"]
      /\ UNCHANGED <<minimum_observed_ts, scan, commit_ts, valid_ts>>
      /\ \E v \in {now - 1, last_observed_ts[t]} :
           last_observed_ts' = [last_observed_ts EXCEPT ![t] = v]
  BY DEF TxStart, Goto, minimum, world
<1>3. PICK v \in {now - 1, last_observed_ts[t]} :
           last_observed_ts' = [last_observed_ts EXCEPT ![t] = v]
  BY <1>2
<1>4. v \in Nat /\ v >= last_observed_ts[t] /\ v < now
  BY <1>1, <1>3 DEF MinInv, Clocks, ObservedIsPast
<1>5. \A u \in Task : last_observed_ts'[u] >= last_observed_ts[u]
  BY <1>3, <1>4 DEF MinInv, Clocks
<1>6. Clocks'
  BY <1>2, <1>3, <1>4 DEF MinInv, Clocks
<1>7. ObservedIsPast'
  BY <1>2, <1>3, <1>4 DEF MinInv, Clocks, ObservedIsPast
<1>8. MinimumIsLeast'
  BY <1>2, <1>5, <1>6 DEF MinInv, Clocks, MinimumIsLeast
<1>9. ScanIsLeast'
  <2>1. SUFFICES ASSUME NEW w \in Task, pc'[w] = "scan"
                 PROVE  /\ scan[w].i \in 1 .. Threads * SpecDepth
                        /\ minimum_observed_ts <= scan[w].minimum_ts
                        /\ \A u \in Task : u < scan[w].i => scan[w].minimum_ts <= last_observed_ts'[u]
    BY <1>2 DEF ScanIsLeast
  <2>2. pc[w] = "scan"
    BY <1>2, <2>1 DEF MinInv, Clocks
  <2>3. scan[w].minimum_ts \in Nat
    BY DEF MinInv, Clocks
  <2>4. \A u \in Task : last_observed_ts[u] \in Nat /\ last_observed_ts'[u] \in Nat
    BY <1>6 DEF MinInv, Clocks
  <2>5. QED BY <2>2, <2>3, <2>4, <1>5 DEF MinInv, ScanIsLeast
<1>10. OneScans'
  BY <1>2 DEF MinInv, Clocks, OneScans
<1>11. QED BY <1>2, <1>6, <1>7, <1>8, <1>9, <1>10 DEF MinInv

LEMMA ExtendStep ==
  ASSUME MinInv, NEW p \in Thread, Extend(p)
  PROVE  MinInv' /\ minimum_observed_ts' = minimum_observed_ts
<1>1. /\ valid_ts[p] < commit_ts /\ valid_ts' = [valid_ts EXCEPT ![p] = commit_ts]
      /\ UNCHANGED <<pc, last_observed_ts, minimum_observed_ts, scan, commit_ts>>
  BY DEF Extend, epoch, minimum
<1>2. Clocks'
  BY <1>1 DEF MinInv, Clocks
<1>3. ObservedIsPast'
  BY <1>1, ThreadOfTask DEF MinInv, Clocks, ObservedIsPast
<1>4. MinimumIsLeast' /\ ScanIsLeast' /\ OneScans'
  BY <1>1 DEF MinInv, MinimumIsLeast, ScanIsLeast, OneScans
<1>5. QED BY <1>1, <1>2, <1>3, <1>4 DEF MinInv

LEMMA RollbackStep ==
  ASSUME MinInv, NEW t \in Task, RollbackTransaction(t)
  PROVE  MinInv' /\ minimum_observed_ts' = minimum_observed_ts
<1> DEFINE p == prog_thread_id(t)
<1>1. /\ pc' = [u \in Task |-> IF u \in Siblings(t) THEN "abort" ELSE pc[u]]
      /\ valid_ts' = [valid_ts EXCEPT ![p] = commit_ts]
      /\ UNCHANGED <<last_observed_ts, minimum_observed_ts, scan, commit_ts>>
  BY DEF RollbackTransaction, epoch, minimum
<1>2. p \in Thread
  BY ThreadOfTask
<1>3. Clocks'
  <2>1. \A u \in Task : pc'[u] \in {"abort", pc[u]}
    BY <1>1
  <2>2. pc' \in [Task -> {"idle", "running", "ended", "committed", "abort", "free_dominated",
                          "update_minimum", "scan"}]
    BY <1>1, <2>1 DEF MinInv, Clocks
  <2>3. QED BY <1>1, <1>2, <2>2 DEF MinInv, Clocks
<1>4. ObservedIsPast'
  BY <1>1, <1>2, ThreadOfTask DEF MinInv, Clocks, ObservedIsPast
<1>5. MinimumIsLeast'
  BY <1>1 DEF MinInv, MinimumIsLeast
<1>6. \A u \in Task : pc'[u] = "scan" => pc[u] = "scan"
  BY <1>1
<1>7. ScanIsLeast' /\ OneScans'
  BY <1>1, <1>6 DEF MinInv, ScanIsLeast, OneScans
<1>8. QED BY <1>1, <1>3, <1>4, <1>5, <1>7 DEF MinInv

\* The first timestamp is loaded under the lock.
LEMMA TryLockStep ==
  ASSUME MinInv, NEW t \in Task, TryLockMinimum(t)
  PROVE  MinInv'
<1>1. /\ pc' = [pc EXCEPT ![t] = "scan"]
      /\ scan' = [scan EXCEPT ![t] = [i |-> 1, minimum_ts |-> last_observed_ts[0]]]
      /\ UNCHANGED <<last_observed_ts, minimum_observed_ts, commit_ts, valid_ts>>
      /\ \A u \in Task : pc[u] # "scan"
  BY DEF TryLockMinimum, Goto, epoch, world, minimum_observed_ts_locked
<1>2. last_observed_ts[0] \in Nat
  BY Counts DEF MinInv, Clocks
<1>3. Clocks'
  BY <1>1, <1>2 DEF MinInv, Clocks
<1>4. ObservedIsPast' /\ MinimumIsLeast'
  BY <1>1 DEF MinInv, ObservedIsPast, MinimumIsLeast
<1>5. \A u \in Task : pc'[u] = "scan" => u = t
  BY <1>1 DEF MinInv, Clocks
<1>6. scan'[t].i = 1 /\ scan'[t].minimum_ts = last_observed_ts[0]
  BY <1>1 DEF MinInv, Clocks
<1>7. \A u \in Task : u < 1 => u = 0
  BY Counts
<1>8. 1 \in 1 .. Threads * SpecDepth
  BY Counts
<1>9. ScanIsLeast'
  BY <1>1, <1>2, <1>5, <1>6, <1>7, <1>8, Counts DEF MinInv, MinimumIsLeast, ScanIsLeast
<1>10. OneScans'
  BY <1>5 DEF OneScans
<1>11. QED BY <1>3, <1>4, <1>9, <1>10 DEF MinInv

LEMMA ScanStep ==
  ASSUME MinInv, NEW t \in Task, ScanObservedTs(t)
  PROVE  MinInv'
<1> DEFINE i == scan[t].i
           m == scan[t].minimum_ts
           observed == last_observed_ts[i]
           least == IF observed < m THEN observed ELSE m
<1>1. /\ pc[t] = "scan" /\ i \in Task
      /\ scan' = [scan EXCEPT ![t] = [i |-> i + 1, minimum_ts |-> least]]
      /\ UNCHANGED <<pc, last_observed_ts, minimum_observed_ts, commit_ts, valid_ts>>
  BY DEF ScanObservedTs, epoch, world
<1>2. i \in Nat /\ m \in Nat /\ observed \in Nat
  BY <1>1 DEF MinInv, Clocks
<1>3. least \in Nat /\ least <= m /\ least <= observed /\ least \in {m, observed}
  BY <1>2
<1> HIDE DEF least
<1>4. Clocks'
  BY <1>1, <1>2, <1>3 DEF MinInv, Clocks
<1>5. ObservedIsPast' /\ MinimumIsLeast' /\ OneScans'
  BY <1>1 DEF MinInv, ObservedIsPast, MinimumIsLeast, OneScans
<1>6. scan'[t].i = i + 1 /\ scan'[t].minimum_ts = least
  BY <1>1 DEF MinInv, Clocks
<1>7. i + 1 \in 1 .. Threads * SpecDepth
  BY <1>1, <1>2, Counts DEF Task
<1>8. minimum_observed_ts <= least
  BY <1>1, <1>3 DEF MinInv, MinimumIsLeast, ScanIsLeast
<1>9. ASSUME NEW u \in Task, u < i + 1 PROVE least <= last_observed_ts[u]
  <2>1. u \in Nat /\ last_observed_ts[u] \in Nat
    BY Counts DEF MinInv, Clocks
  <2>2. CASE u = i
    BY <1>3, <2>2
  <2>3. CASE u < i
    <3>1. m <= last_observed_ts[u]
      BY <1>1, <2>3 DEF MinInv, ScanIsLeast
    <3>2. QED BY <1>2, <1>3, <2>1, <3>1
  <2>4. QED BY <1>2, <1>9, <2>1, <2>2, <2>3
<1>10. \A u \in Task : pc[u] = "scan" => u = t
  BY <1>1 DEF MinInv, OneScans
<1>11. ScanIsLeast'
  BY <1>1, <1>6, <1>7, <1>8, <1>9, <1>10 DEF ScanIsLeast
<1>12. QED BY <1>4, <1>5, <1>11 DEF MinInv

\* What is stored is at most what any task has observed by now.
LEMMA StoreStep ==
  ASSUME MinInv, NEW t \in Task, StoreMinimum(t)
  PROVE  MinInv' /\ minimum_observed_ts' >= minimum_observed_ts
<1> DEFINE m == scan[t].minimum_ts
<1>1. /\ pc[t] = "scan" /\ scan[t].i \notin Task
      /\ minimum_observed_ts' = m
      /\ scan' = [scan EXCEPT ![t] = [i |-> 0, minimum_ts |-> 0]]
      /\ UNCHANGED <<last_observed_ts, commit_ts, valid_ts>>
      /\ Use(t, m, "idle")
  BY DEF StoreMinimum, epoch, world
<1>2. pc' = [pc EXCEPT ![t] = "idle"]
  BY <1>1, UseQuiet
<1>3. m \in Nat /\ m >= minimum_observed_ts
  BY <1>1 DEF MinInv, Clocks, ScanIsLeast
<1>4. \A u \in Task : m <= last_observed_ts[u]
  <2>1. scan[t].i = Threads * SpecDepth
    BY <1>1, Counts DEF MinInv, ScanIsLeast, Task
  <2>2. \A u \in Task : u < scan[t].i
    BY <2>1, Counts DEF Task
  <2>3. QED BY <1>1, <2>2 DEF MinInv, ScanIsLeast
<1>5. Clocks'
  BY <1>1, <1>2, <1>3 DEF MinInv, Clocks
<1>6. ObservedIsPast' /\ MinimumIsLeast'
  BY <1>1, <1>4 DEF MinInv, ObservedIsPast, MinimumIsLeast
<1>7. \A u \in Task : pc'[u] # "scan"
  BY <1>1, <1>2 DEF MinInv, Clocks, OneScans
<1>8. QED BY <1>1, <1>3, <1>5, <1>6, <1>7 DEF MinInv, ScanIsLeast, OneScans

\* The steps of the transactions and of the managers.
QuietAction(t) ==
  \/ TxMalloc(t) \/ TxFree(t) \/ TxTryCommit(t) \/ ManagerCommit(t) \/ TxRestart(t)
  \/ GetMinimumObservedTs(t) \/ MinimumLocked(t)

LEMMA QuietActionStep ==
  ASSUME MinInv, NEW t \in Task, QuietAction(t)
  PROVE  MinInv' /\ minimum_observed_ts' = minimum_observed_ts
<1>1. UNCHANGED <<last_observed_ts, minimum_observed_ts, scan, commit_ts, valid_ts>>
  BY DEF QuietAction, TxMalloc, TxFree, TxTryCommit, ManagerCommit, TxRestart,
         GetMinimumObservedTs, MinimumLocked, epoch, minimum, world
<1>2. \E l \in {"idle", "ended", "free_dominated", "update_minimum", pc[t]} :
        pc' = [pc EXCEPT ![t] = l]
  <2>1. CASE TxMalloc(t) \/ TxFree(t)
    BY <2>1 DEF TxMalloc, TxFree, MinInv, Clocks
  <2>2. CASE TxTryCommit(t) \/ ManagerCommit(t) \/ TxRestart(t)
    BY <2>2 DEF TxTryCommit, ManagerCommit, TxRestart, Goto
  <2>3. CASE GetMinimumObservedTs(t) \/ MinimumLocked(t)
    BY <2>3, UseQuiet DEF GetMinimumObservedTs, MinimumLocked
  <2>4. QED BY <2>1, <2>2, <2>3 DEF QuietAction
<1>3. Quiet
  BY <1>1, <1>2 DEF Quiet, MinInv, Clocks
<1>4. QED BY <1>1, <1>2, <1>3, QuietStep DEF MinInv, Clocks

LEMMA CommitStep ==
  ASSUME MinInv, NEW t \in Task, Commit(t)
  PROVE  MinInv' /\ minimum_observed_ts' = minimum_observed_ts
<1>1. /\ pc' = [u \in Task |-> IF u \in Siblings(t) THEN "committed" ELSE pc[u]]
      /\ UNCHANGED <<last_observed_ts, minimum_observed_ts, scan, valid_ts>>
      /\ commit_ts' \in {commit_ts, commit_ts + 1}
  BY DEF Commit, epoch, minimum
<1>2. \A u \in Task : pc'[u] \in {"committed", pc[u]}
  BY <1>1
<1>3. Clocks'
  BY <1>1, <1>2 DEF MinInv, Clocks
<1>4. ObservedIsPast' /\ MinimumIsLeast'
  BY <1>1 DEF MinInv, ObservedIsPast, MinimumIsLeast
<1>5. \A u \in Task : pc'[u] = "scan" => pc[u] = "scan"
  BY <1>2
<1>6. ScanIsLeast' /\ OneScans'
  BY <1>1, <1>5 DEF MinInv, ScanIsLeast, OneScans
<1>7. QED BY <1>1, <1>3, <1>4, <1>6 DEF MinInv

LEMMA MinStep == MinInv /\ [Next]_vars => MinInv' /\ minimum_observed_ts' >= minimum_observed_ts
<1> SUFFICES ASSUME MinInv, [Next]_vars
             PROVE  MinInv' /\ minimum_observed_ts' >= minimum_observed_ts
  OBVIOUS
<1>1. minimum_observed_ts \in Nat
  BY DEF MinInv, Clocks
<1>2. CASE UNCHANGED vars
  <2>1. UNCHANGED <<pc, last_observed_ts, minimum_observed_ts, scan, commit_ts, valid_ts>>
    BY <1>2 DEF vars, epoch, minimum, world
  <2>2. Quiet /\ pc' = pc
    BY <2>1 DEF Quiet
  <2>3. QED BY <1>1, <2>1, <2>2, QuietStep DEF MinInv, Clocks
<1>3. ASSUME NEW t \in Task, QuietAction(t) \/ Commit(t)
      PROVE  MinInv' /\ minimum_observed_ts' >= minimum_observed_ts
  BY <1>1, <1>3, QuietActionStep, CommitStep
<1>4. ASSUME NEW t \in Task, TxStart(t)
      PROVE  MinInv' /\ minimum_observed_ts' >= minimum_observed_ts
  BY <1>1, <1>4, StartStep
<1>5. ASSUME NEW t \in Task, RollbackTransaction(t)
      PROVE  MinInv' /\ minimum_observed_ts' >= minimum_observed_ts
  BY <1>1, <1>5, RollbackStep
<1>6. ASSUME NEW t \in Task, TryLockMinimum(t) \/ ScanObservedTs(t)
      PROVE  MinInv' /\ minimum_observed_ts' >= minimum_observed_ts
  BY <1>1, <1>6, TryLockStep, ScanStep DEF TryLockMinimum, ScanObservedTs
<1>7. ASSUME NEW t \in Task, StoreMinimum(t)
      PROVE  MinInv' /\ minimum_observed_ts' >= minimum_observed_ts
  BY <1>7, StoreStep
<1>8. ASSUME NEW p \in Thread, Extend(p)
      PROVE  MinInv' /\ minimum_observed_ts' >= minimum_observed_ts
  BY <1>1, <1>8, ExtendStep
<1>9. QED
  BY <1>2, <1>3, <1>4, <1>5, <1>6, <1>7, <1>8 DEF Next, QuietAction, Thread

----------------------------------------------------------------------------
(* Theorems *)

\* The clocks, the observed timestamps and the scan fit together in every state.
THEOREM MinimumInvariant == Spec => []MinInv
<1>1. MinInv /\ [Next]_vars => MinInv'
  BY MinStep
<1>2. QED BY MinInit, <1>1, PTL DEF Spec

\* What FreeDominated goes by: no task has observed a time before the minimum,
\* and the transaction it runs goes on from a later one still.
THEOREM NobodyIsBehind ==
  Spec => [](\A t \in Task : /\ minimum_observed_ts <= last_observed_ts[t]
                             /\ last_observed_ts[t] < valid_ts[prog_thread_id(t)])
<1>1. MinInv => \A t \in Task : /\ minimum_observed_ts <= last_observed_ts[t]
                                /\ last_observed_ts[t] < valid_ts[prog_thread_id(t)]
  BY DEF MinInv, MinimumIsLeast, ObservedIsPast
<1>2. QED BY MinimumInvariant, <1>1, PTL

\* A scan that was slow does not take back the minimum that a later one has
\* found (UpdateMinimumObservedTs): the lock covers the scan and the store.
THEOREM MinimumNeverFalls == Spec => MinimumRises
<1>1. MinInv /\ [Next]_vars => [minimum_observed_ts' >= minimum_observed_ts]_vars
  BY MinStep
<1>2. QED BY MinimumInvariant, <1>1, PTL DEF Spec, MinimumRises

----------------------------------------------------------------------------
(* The blocks *)

MemTypes ==
  /\ mm \in [Task -> Manager] /\ \A t \in Task : InOrder(mm[t])
  /\ held \in [Task -> SUBSET Block] /\ ts \in [Task -> Nat]
  /\ heap \subseteq Block /\ born \in [Block -> Nat]

\* What a task may still use, besides what it has just allocated.
Known(t) == held[t] \cup (IF pc[t] = "committed" THEN Own(mm[t]) ELSE {})

\* NoDangling and NoLeak.
HeapHolds ==
  \A t \in Task : /\ Live \subseteq heap /\ held[t] \subseteq heap
                  /\ Own(mm[t]) \subseteq heap /\ InFree(mm[t]) \subseteq heap
NothingLost ==
  \A b \in heap : b \in Live \/ \E t \in Task : b \in Own(mm[t]) \/ b \in InFree(mm[t])

\* No two places hold the same pointer.
PtrsDiffer ==
  \A t, u \in Task : \A s \in Slots(mm[t]), r \in Slots(mm[u]) :
    Ptr(mm[t], s) = Ptr(mm[u], r) => t = u /\ s = r

\* What a committed transaction has freed is not reachable.
FreedIsDead ==
  \A t \in Task : \A s \in Slots(mm[t]) :
    (s \notin NowSlots(mm[t]) \/ pc[t] = "committed") => Ptr(mm[t], s) \notin Live

\* What a transaction has allocated is its own until it commits.
AllocsAreOwn ==
  \A t \in Task : pc[t] # "committed" =>
    \A b \in Own(mm[t]) :
      /\ b \notin Live /\ \A u \in Task : b \notin held[u]
      /\ \A u \in Task : \A s \in Slots(mm[u]) :
           Ptr(mm[u], s) = b => u = t /\ s \in NowSlots(mm[t])
AllocsDiffer == \A t, u \in Task : t # u => Own(mm[t]) \cap Own(mm[u]) = {}

\* Once it has committed they can be reached, or are to be freed.
AllocsAreKept ==
  \A t \in Task : pc[t] = "committed" =>
    \A b \in Own(mm[t]) : b \in Live \/ \E u \in Task : b \in InFree(mm[u])

\* A transaction frees what can be reached or what it has allocated.
FreesAreLive ==
  \A t \in Task : pc[t] \in {"running", "ended", "abort"} =>
    InNow(mm[t]) \subseteq Live \cup Own(mm[t])
Resting == {"idle", "free_dominated", "update_minimum", "scan"}
RestIsEmpty == \A t \in Task : pc[t] \in Resting => NowSlots(mm[t]) = {} /\ Own(mm[t]) = {}
OnlyRunningHold == \A t \in Task : pc[t] \notin {"running", "abort"} => held[t] = {}

\* A task that may still use a block that was freed has observed a time
\* before the timestamp that the block is under, or will be.
StampsAreLate ==
  \A t, v \in Task : \A s \in Slots(mm[t]) : \A x \in Nat :
    Under(mm[t], x, s) /\ Ptr(mm[t], s) \in Known(v) => last_observed_ts[v] < x
StampsWillBeLate ==
  \A t, v \in Task : pc[t] = "committed" /\ Chained(mm[t]) =>
    \A s \in Slots(mm[t]) : Ptr(mm[t], s) \in Known(v) => last_observed_ts[v] < ts[t]

\* The timestamps of the buffers, of tasks and of the clocks.
Latest(t) == IF try_commit(t) THEN commit_ts ELSE valid_ts[prog_thread_id(t)]
StampsArePast ==
  \A t \in Task : ts[t] <= Latest(t) /\ \A x : Stamped(mm[t], x) => x \in Nat /\ x <= Latest(t)
EndsLate == \A t \in Task : pc[t] \in {"ended", "committed"} => last_observed_ts[t] < ts[t]
StampsAreOlder ==
  \A t \in Task :
    ((pc[t] = "ended" /\ ~ try_commit(t)) \/ (pc[t] = "committed" /\ Chained(mm[t])))
      => \A x : Stamped(mm[t], x) => x <= ts[t]

Blocks == HeapHolds /\ NothingLost /\ PtrsDiffer /\ FreedIsDead
Allocs == AllocsAreOwn /\ AllocsDiffer /\ AllocsAreKept /\ FreesAreLive /\ RestIsEmpty /\ OnlyRunningHold
Stamps == StampsAreLate /\ StampsWillBeLate /\ StampsArePast /\ EndsLate /\ StampsAreOlder
MemInv == MinInv /\ MemTypes /\ Blocks /\ Allocs /\ Stamps

----------------------------------------------------------------------------
(* Steps after which the managers know less *)

Fewer ==
  \A u \in Task :
    /\ Slots(mm'[u]) \subseteq Slots(mm[u]) /\ NowSlots(mm'[u]) \subseteq NowSlots(mm[u])
    /\ \A s \in Slots(mm'[u]) : Ptr(mm'[u], s) = Ptr(mm[u], s)
    /\ Own(mm'[u]) \subseteq Own(mm[u])

OlderStamps ==
  \A u \in Task :
    /\ \A x : Stamped(mm'[u], x) => Stamped(mm[u], x)
    /\ \A x, s : Under(mm'[u], x, s) => Under(mm[u], x, s)

LEMMA SameManagers == mm' = mm => Fewer /\ OlderStamps
BY DEF Fewer, OlderStamps

LEMMA FewerDiffer ==
  ASSUME PtrsDiffer, AllocsDiffer, Fewer PROVE PtrsDiffer' /\ AllocsDiffer'
<1>1. PtrsDiffer'
  <2> SUFFICES ASSUME NEW t \in Task, NEW u \in Task, NEW s \in Slots(mm'[t]), NEW r \in Slots(mm'[u]),
                      Ptr(mm'[t], s) = Ptr(mm'[u], r)
               PROVE  t = u /\ s = r
    BY DEF PtrsDiffer
  <2>1. /\ s \in Slots(mm[t]) /\ r \in Slots(mm[u])
        /\ Ptr(mm'[t], s) = Ptr(mm[t], s) /\ Ptr(mm'[u], r) = Ptr(mm[u], r)
    BY DEF Fewer
  <2>2. Ptr(mm[t], s) = Ptr(mm[u], r)
    BY <2>1
  <2>3. QED BY <2>1, <2>2 DEF PtrsDiffer
<1>2. AllocsDiffer'
  BY DEF AllocsDiffer, Fewer
<1>3. QED BY <1>1, <1>2

LEMMA FewerLate ==
  ASSUME StampsAreLate, Fewer, OlderStamps, last_observed_ts' = last_observed_ts,
         \A v \in Task : Known(v)' \subseteq Known(v)
  PROVE  StampsAreLate'
<1> SUFFICES ASSUME NEW t \in Task, NEW v \in Task, NEW s \in Slots(mm'[t]), NEW x \in Nat,
                    Under(mm'[t], x, s), Ptr(mm'[t], s) \in Known(v)'
             PROVE  last_observed_ts[v] < x
  BY DEF StampsAreLate
<1>1. s \in Slots(mm[t]) /\ Ptr(mm'[t], s) = Ptr(mm[t], s)
  BY DEF Fewer
<1>2. Under(mm[t], x, s)
  BY DEF OlderStamps
<1>3. Ptr(mm[t], s) \in Known(v)
  BY <1>1
<1>4. QED BY <1>1, <1>2, <1>3 DEF StampsAreLate

\* A step that changes where some tasks are and what they hold: only what is
\* reachable, and what they held.
Aside ==
  /\ mm' = mm /\ heap' = heap /\ born' = born
  /\ \A u \in Task : /\ pc'[u] = "committed" <=> pc[u] = "committed"
                     /\ pc'[u] \in Resting => pc[u] \in Resting
                     /\ held'[u] \subseteq held[u] \cup Live
                     /\ pc'[u] \notin {"running", "abort"} => held'[u] = {}

Places == {"idle", "running", "ended", "committed", "abort", "free_dominated", "update_minimum", "scan"}

LEMMA AsideBlocks ==
  ASSUME MemInv, Aside, pc' \in [Task -> Places] PROVE Blocks' /\ Allocs'
<1>1. mm' = mm /\ heap' = heap /\ Live' = Live
  BY DEF Aside, Live
<1>2. HeapHolds'
  BY <1>1 DEF HeapHolds, MemInv, Blocks, Aside
<1>3. NothingLost'
  BY <1>1 DEF NothingLost, MemInv, Blocks
<1>4. PtrsDiffer' /\ AllocsDiffer'
  BY <1>1 DEF PtrsDiffer, AllocsDiffer, MemInv, Blocks, Allocs
<1>5. FreedIsDead'
  BY <1>1 DEF FreedIsDead, Aside, MemInv, Blocks
<1>6. AllocsAreOwn'
  <2> SUFFICES ASSUME NEW t \in Task, pc'[t] # "committed", NEW b \in Own(mm[t])
               PROVE  /\ b \notin Live /\ \A u \in Task : b \notin held'[u]
                      /\ \A u \in Task : \A s \in Slots(mm[u]) :
                           Ptr(mm[u], s) = b => u = t /\ s \in NowSlots(mm[t])
    BY <1>1 DEF AllocsAreOwn
  <2>1. pc[t] # "committed"
    BY DEF Aside
  <2>2. QED BY <2>1 DEF AllocsAreOwn, Aside, MemInv, Allocs
<1>7. AllocsAreKept'
  BY <1>1 DEF AllocsAreKept, Aside, MemInv, Allocs
<1>8. RestIsEmpty'
  BY <1>1 DEF RestIsEmpty, Aside, MemInv, Allocs
<1>9. FreesAreLive'
  <2> SUFFICES ASSUME NEW t \in Task, pc'[t] \in {"running", "ended", "abort"}
               PROVE  InNow(mm[t]) \subseteq Live \cup Own(mm[t])
    BY <1>1 DEF FreesAreLive
  <2>1. pc[t] \in Places /\ pc[t] # "committed"
    BY DEF Aside, MemInv, MinInv, Clocks, Places
  <2>2. CASE pc[t] \in Resting
    BY <2>2 DEF RestIsEmpty, InNow, MemInv, Allocs
  <2>3. CASE pc[t] \notin Resting
    BY <2>1, <2>3 DEF FreesAreLive, Resting, Places, MemInv, Allocs
  <2>4. QED BY <2>2, <2>3
<1>10. OnlyRunningHold'
  BY DEF OnlyRunningHold, Aside
<1>11. QED
  BY <1>2, <1>3, <1>4, <1>5, <1>6, <1>7, <1>8, <1>9, <1>10 DEF Blocks, Allocs

\* Tasks that observe a time hold only what is reachable.
AsideObserved ==
  \A v \in Task : \/ last_observed_ts'[v] = last_observed_ts[v]
                  \/ held'[v] \subseteq Live /\ pc'[v] # "committed"

LEMMA AsideStamps ==
  ASSUME MemInv, Aside, AsideObserved, \A u \in Task : pc[u] = "committed" => ts'[u] = ts[u]
  PROVE  StampsAreLate' /\ StampsWillBeLate'
<1>1. mm' = mm
  BY DEF Aside
\* A block that is under a timestamp, or will be, is not reachable.
<1>2. ASSUME NEW t \in Task, NEW v \in Task, NEW s \in Slots(mm[t]), Ptr(mm[t], s) \notin Live,
             Ptr(mm[t], s) \in Known(v)'
      PROVE  last_observed_ts'[v] = last_observed_ts[v] /\ Ptr(mm[t], s) \in Known(v)
  <2>1. Known(v)' = held'[v] \cup (IF pc'[v] = "committed" THEN Own(mm[v]) ELSE {})
    BY <1>1 DEF Known
  <2>2. CASE Ptr(mm[t], s) \in held'[v]
    <3>1. Ptr(mm[t], s) \in held[v]
      BY <1>2, <2>2 DEF Aside
    <3>2. last_observed_ts'[v] = last_observed_ts[v]
      BY <1>2, <2>2 DEF AsideObserved
    <3>3. QED BY <3>1, <3>2 DEF Known
  <2>3. CASE Ptr(mm[t], s) \notin held'[v]
    <3>1. pc'[v] = "committed" /\ Ptr(mm[t], s) \in Own(mm[v])
      BY <1>2, <2>1, <2>3
    <3>2. pc[v] = "committed" /\ last_observed_ts'[v] = last_observed_ts[v]
      BY <3>1 DEF Aside, AsideObserved
    <3>3. QED BY <3>1, <3>2 DEF Known
  <2>4. QED BY <2>2, <2>3
<1>3. StampsAreLate'
  <2> SUFFICES ASSUME NEW t \in Task, NEW v \in Task, NEW s \in Slots(mm[t]), NEW x \in Nat,
                      Under(mm[t], x, s), Ptr(mm[t], s) \in Known(v)'
               PROVE  last_observed_ts'[v] < x
    BY <1>1 DEF StampsAreLate
  <2>1. s \notin NowSlots(mm[t])
    BY NowIsNotUnder DEF MemInv, MemTypes
  <2>2. Ptr(mm[t], s) \notin Live
    BY <2>1 DEF MemInv, Blocks, FreedIsDead
  <2>3. last_observed_ts'[v] = last_observed_ts[v] /\ Ptr(mm[t], s) \in Known(v)
    BY <1>2, <2>2
  <2>4. last_observed_ts[v] < x
    BY <2>3 DEF MemInv, Stamps, StampsAreLate
  <2>5. QED BY <2>3, <2>4
<1>4. StampsWillBeLate'
  <2> SUFFICES ASSUME NEW t \in Task, NEW v \in Task, pc'[t] = "committed", Chained(mm[t]),
                      NEW s \in Slots(mm[t]), Ptr(mm[t], s) \in Known(v)'
               PROVE  last_observed_ts'[v] < ts'[t]
    BY <1>1 DEF StampsWillBeLate
  <2>1. pc[t] = "committed" /\ ts'[t] = ts[t]
    BY DEF Aside
  <2>2. Ptr(mm[t], s) \notin Live
    BY <2>1 DEF MemInv, Blocks, FreedIsDead
  <2>3. last_observed_ts'[v] = last_observed_ts[v] /\ Ptr(mm[t], s) \in Known(v)
    BY <1>2, <2>2
  <2>4. last_observed_ts[v] < ts[t]
    BY <2>1, <2>3 DEF MemInv, Stamps, StampsWillBeLate
  <2>5. QED BY <2>1, <2>3, <2>4
<1>5. QED BY <1>3, <1>4

----------------------------------------------------------------------------
(* Steps of tasks that leave the managers alone *)

LEMMA ThreadClocks ==
  ASSUME MinInv, NEW t \in Task
  PROVE  /\ prog_thread_id(t) \in Thread /\ valid_ts[prog_thread_id(t)] \in Nat /\ commit_ts \in Nat
         /\ valid_ts[prog_thread_id(t)] <= commit_ts /\ Latest(t) \in Nat
         /\ valid_ts[prog_thread_id(t)] <= Latest(t) /\ Latest(t) <= commit_ts
         /\ last_observed_ts[t] \in Nat /\ last_observed_ts[t] < valid_ts[prog_thread_id(t)]
<1>1. prog_thread_id(t) \in Thread
  BY ThreadOfTask
<1>2. /\ valid_ts[prog_thread_id(t)] \in Nat /\ commit_ts \in Nat
      /\ valid_ts[prog_thread_id(t)] <= commit_ts
      /\ last_observed_ts[t] \in Nat
  BY <1>1 DEF MinInv, Clocks
<1>3. last_observed_ts[t] < valid_ts[prog_thread_id(t)]
  BY DEF MinInv, ObservedIsPast
<1>4. QED BY <1>1, <1>2, <1>3 DEF Latest

LEMMA LatestIsNat == MinInv => \A t \in Task : Latest(t) \in Nat
  BY ThreadClocks
LEMMA LatestIsNatNext == MinInv' => (\A t \in Task : Latest(t) \in Nat)'
  BY LatestIsNat, PTL

\* The clocks of a step do not fall.
ClocksRise == \A u \in Task : Latest(u) <= Latest(u)'

LEMMA PastStays ==
  ASSUME MemInv, MinInv', ClocksRise, OlderStamps, NEW u \in Task, ts'[u] \in {0, ts[u]}
  PROVE  ts'[u] <= Latest(u)' /\ \A x : Stamped(mm'[u], x) => x \in Nat /\ x <= Latest(u)'
<1>1. Latest(u) \in Nat /\ Latest(u)' \in Nat /\ Latest(u) <= Latest(u)'
  <2>1. Latest(u) \in Nat
    BY ThreadClocks DEF MemInv
  <2>2. Latest(u)' \in Nat
    <3>1. (\A v \in Task : Latest(v) \in Nat)'
      BY LatestIsNatNext
    <3>2. QED BY <3>1
  <2>3. QED BY <2>1, <2>2 DEF ClocksRise
<1>2. ts[u] \in Nat /\ ts[u] <= Latest(u) /\ \A x : Stamped(mm[u], x) => x \in Nat /\ x <= Latest(u)
  BY DEF MemInv, MemTypes, Stamps, StampsArePast
<1>3. \A x : Stamped(mm'[u], x) => Stamped(mm[u], x)
  BY DEF OlderStamps
<1> DEFINE l == Latest(u)'
<1>4. l \in Nat /\ Latest(u) <= l
  BY <1>1
<1> HIDE DEF l
<1>5. ts'[u] <= l
  BY <1>1, <1>2, <1>4
<1>6. \A x : Stamped(mm'[u], x) => x \in Nat /\ x <= l
  BY <1>1, <1>2, <1>3, <1>4
<1>7. QED BY <1>5, <1>6 DEF l

LEMMA StartBlocks == ASSUME MemInv, NEW t \in Task, TxStart(t) PROVE MemInv'
<1>1. /\ pc[t] = "idle" /\ pc' = [pc EXCEPT ![t] = "running"]
      /\ UNCHANGED <<mm, ts, heap, born, commit_ts, valid_ts>>
      /\ held' = [held EXCEPT ![t] = {b \in Live : born[b] <= valid_ts[prog_thread_id(t)]}]
      /\ \E x : last_observed_ts' = [last_observed_ts EXCEPT ![t] = x]
  BY DEF TxStart, Goto, world
<1>2. MinInv' /\ pc \in [Task -> Places] /\ pc' \in [Task -> Places]
  BY <1>1, StartStep DEF MemInv, MinInv, Clocks, Places
<1>3. held' \in [Task -> SUBSET Block] /\ held'[t] \subseteq Live
      /\ \A u \in Task \ {t} : held'[u] = held[u]
  BY <1>1 DEF MemInv, MemTypes, Live
<1>4. \A u \in Task \ {t} : pc'[u] = pc[u] /\ last_observed_ts'[u] = last_observed_ts[u]
  BY <1>1 DEF MemInv, MinInv, Clocks
<1>5. pc'[t] = "running"
  BY <1>1, <1>2
<1>6. Aside
  BY <1>1, <1>3, <1>4, <1>5 DEF Aside, Resting, MemInv, Allocs, OnlyRunningHold
<1>7. AsideObserved
  BY <1>3, <1>4, <1>5 DEF AsideObserved
<1>8. Blocks' /\ Allocs' /\ StampsAreLate' /\ StampsWillBeLate'
  BY <1>1, <1>2, <1>6, <1>7, AsideBlocks, AsideStamps
<1>9. MemTypes'
  BY <1>1, <1>3 DEF MemInv, MemTypes
<1>10. StampsArePast'
  BY <1>1 DEF MemInv, Stamps, StampsArePast, Latest
<1>11. EndsLate' /\ StampsAreOlder'
  BY <1>1, <1>4, <1>5 DEF MemInv, Stamps, EndsLate, StampsAreOlder
<1>12. QED BY <1>2, <1>8, <1>9, <1>10, <1>11 DEF MemInv, Stamps

LEMMA ExtendBlocks == ASSUME MemInv, NEW p \in Thread, Extend(p) PROVE MemInv'
<1>1. /\ UNCHANGED <<mm, pc, ts, heap, born, commit_ts, last_observed_ts>>
      /\ valid_ts[p] < commit_ts /\ valid_ts' = [valid_ts EXCEPT ![p] = commit_ts]
      /\ held' = [t \in Task |-> IF prog_thread_id(t) = p /\ pc[t] = "running" THEN Live ELSE held[t]]
  BY DEF Extend, epoch
<1>2. MinInv' /\ pc' \in [Task -> Places]
  BY <1>1, ExtendStep DEF MemInv, MinInv, Clocks, Places
<1>3. held' \in [Task -> SUBSET Block]
  BY <1>1 DEF MemInv, MemTypes, Live
<1>4. \A u \in Task : held'[u] \subseteq held[u] \cup Live /\ (pc[u] # "running" => held'[u] = held[u])
  BY <1>1
<1>5. Aside /\ AsideObserved
  BY <1>1, <1>4 DEF Aside, AsideObserved, MemInv, Allocs, OnlyRunningHold
<1>6. Blocks' /\ Allocs' /\ StampsAreLate' /\ StampsWillBeLate'
  BY <1>1, <1>2, <1>5, AsideBlocks, AsideStamps
<1>7. MemTypes'
  BY <1>1, <1>3 DEF MemInv, MemTypes
<1>8. ClocksRise
  <2>1. ASSUME NEW u \in Task PROVE valid_ts[prog_thread_id(u)] <= valid_ts'[prog_thread_id(u)]
    <3>1. prog_thread_id(u) \in Thread
      BY ThreadOfTask
    <3>2. QED BY <1>1, <3>1 DEF MemInv, MinInv, Clocks
  <2>2. commit_ts <= commit_ts'
    BY <1>1 DEF MemInv, MinInv, Clocks
  <2>3. QED BY <2>1, <2>2 DEF ClocksRise, Latest
<1>9. OlderStamps
  BY <1>1, SameManagers
<1>10. StampsArePast'
  BY <1>1, <1>2, <1>8, <1>9, PastStays DEF StampsArePast
<1>11. EndsLate' /\ StampsAreOlder'
  BY <1>1 DEF MemInv, Stamps, EndsLate, StampsAreOlder
<1>12. QED BY <1>2, <1>6, <1>7, <1>10, <1>11 DEF MemInv, Stamps

LEMMA TryCommitBlocks == ASSUME MemInv, NEW t \in Task, TxTryCommit(t) PROVE MemInv'
<1> DEFINE now == valid_ts[prog_thread_id(t)]
<1>1. /\ pc[t] = "running" /\ pc' = [pc EXCEPT ![t] = "ended"]
      /\ ts' = [ts EXCEPT ![t] = now] /\ held' = [held EXCEPT ![t] = {}]
      /\ UNCHANGED <<mm, heap, born, commit_ts, valid_ts, last_observed_ts>>
  BY DEF TxTryCommit, Goto, epoch, world
<1>2. MinInv' /\ pc \in [Task -> Places] /\ pc' \in [Task -> Places]
  BY <1>1, QuietActionStep DEF MemInv, MinInv, Clocks, Places, QuietAction
<1>3. now \in Nat /\ now <= Latest(t) /\ last_observed_ts[t] < now /\ Latest(t) \in Nat
  BY ThreadClocks DEF MemInv
<1>4. held' \in [Task -> SUBSET Block] /\ ts' \in [Task -> Nat] /\ held'[t] = {} /\ ts'[t] = now
      /\ \A u \in Task \ {t} : held'[u] = held[u] /\ ts'[u] = ts[u]
  BY <1>1, <1>3 DEF MemInv, MemTypes
<1>5. pc'[t] = "ended" /\ \A u \in Task \ {t} : pc'[u] = pc[u]
  BY <1>1, <1>2
<1>6. Aside /\ AsideObserved
  BY <1>1, <1>4, <1>5 DEF Aside, AsideObserved, Resting, MemInv, Allocs, OnlyRunningHold
<1>7. \A u \in Task : pc[u] = "committed" => ts'[u] = ts[u]
  BY <1>1, <1>4
<1>8. Blocks' /\ Allocs' /\ StampsAreLate' /\ StampsWillBeLate'
  BY <1>2, <1>6, <1>7, AsideBlocks, AsideStamps
<1>9. MemTypes'
  BY <1>1, <1>4 DEF MemInv, MemTypes
<1>10. \A u \in Task : Latest(u)' = Latest(u)
  BY <1>1 DEF Latest
<1>11. StampsArePast'
  BY <1>1, <1>3, <1>4, <1>10 DEF MemInv, Stamps, StampsArePast
<1>12. EndsLate'
  BY <1>1, <1>3, <1>4, <1>5 DEF MemInv, Stamps, EndsLate
<1>13. StampsAreOlder'
  <2> SUFFICES ASSUME NEW u \in Task, NEW x, Stamped(mm[u], x),
                      (pc'[u] = "ended" /\ ~ try_commit(u)) \/ (pc'[u] = "committed" /\ Chained(mm[u]))
               PROVE  x <= ts'[u]
    BY <1>1 DEF StampsAreOlder
  <2>1. CASE u = t
    <3>1. ~ try_commit(t)
      BY <1>5, <2>1
    <3>2. x <= Latest(t)
      BY <2>1 DEF MemInv, Stamps, StampsArePast
    <3>3. QED BY <1>4, <2>1, <3>1, <3>2 DEF Latest
  <2>2. CASE u # t
    BY <1>4, <1>5, <2>2 DEF MemInv, Stamps, StampsAreOlder
  <2>3. QED BY <2>1, <2>2
<1>14. QED BY <1>2, <1>8, <1>9, <1>11, <1>12, <1>13 DEF MemInv, Stamps

LEMMA RollbackBlocks == ASSUME MemInv, NEW t \in Task, RollbackTransaction(t) PROVE MemInv'
<1> DEFINE p == prog_thread_id(t)
<1>1. /\ pc[t] \in {"running", "ended"} /\ \A u \in Siblings(t) \ {t} : pc[u] = "ended"
      /\ pc' = [u \in Task |-> IF u \in Siblings(t) THEN "abort" ELSE pc[u]]
      /\ valid_ts' = [valid_ts EXCEPT ![p] = commit_ts]
      /\ UNCHANGED <<mm, held, ts, heap, born, commit_ts, last_observed_ts>>
  BY DEF RollbackTransaction, epoch
<1>2. MinInv' /\ pc \in [Task -> Places] /\ pc' \in [Task -> Places]
  BY <1>1, RollbackStep DEF MemInv, MinInv, Clocks, Places
<1>3. \A u \in Task : \/ u \in Siblings(t) /\ pc[u] \in {"running", "ended"} /\ pc'[u] = "abort"
                      \/ u \notin Siblings(t) /\ pc'[u] = pc[u]
  BY <1>1
<1>4. Aside /\ AsideObserved
  BY <1>1, <1>3 DEF Aside, AsideObserved, Resting, MemInv, Allocs, OnlyRunningHold
<1>5. Blocks' /\ Allocs' /\ StampsAreLate' /\ StampsWillBeLate'
  BY <1>1, <1>2, <1>4, AsideBlocks, AsideStamps
<1>6. MemTypes'
  BY <1>1 DEF MemInv, MemTypes
<1>7. ClocksRise
  <2>1. ASSUME NEW u \in Task PROVE valid_ts[prog_thread_id(u)] <= valid_ts'[prog_thread_id(u)]
    <3>1. prog_thread_id(u) \in Thread /\ p \in Thread
      BY ThreadOfTask
    <3>2. QED BY <1>1, <3>1 DEF MemInv, MinInv, Clocks
  <2>2. commit_ts <= commit_ts'
    BY <1>1 DEF MemInv, MinInv, Clocks
  <2>3. QED BY <2>1, <2>2 DEF ClocksRise, Latest
<1>8. OlderStamps
  BY <1>1, SameManagers
<1>9. StampsArePast'
  BY <1>1, <1>2, <1>7, <1>8, PastStays DEF StampsArePast
<1>10. EndsLate' /\ StampsAreOlder'
  BY <1>1, <1>3 DEF MemInv, Stamps, EndsLate, StampsAreOlder
<1>11. QED BY <1>2, <1>5, <1>6, <1>9, <1>10 DEF MemInv, Stamps

\* The scan for the minimum.
LEMMA ScanBlocks ==
  ASSUME MemInv, NEW t \in Task, TryLockMinimum(t) \/ ScanObservedTs(t) PROVE MemInv'
<1>1. /\ UNCHANGED <<mm, held, ts, heap, born, commit_ts, valid_ts, last_observed_ts>>
      /\ pc[t] \in Resting /\ (pc' = pc \/ pc' = [pc EXCEPT ![t] = "scan"])
  BY DEF TryLockMinimum, ScanObservedTs, Goto, epoch, world, Resting
<1>2. MinInv' /\ pc \in [Task -> Places] /\ pc' \in [Task -> Places]
  BY <1>1, TryLockStep, ScanStep DEF MemInv, MinInv, Clocks, Places
<1>3. \A u \in Task : pc'[u] = pc[u] \/ (pc[u] \in Resting /\ pc'[u] = "scan")
  BY <1>1, <1>2
<1>4. Aside /\ AsideObserved
  BY <1>1, <1>3 DEF Aside, AsideObserved, Resting, MemInv, Allocs, OnlyRunningHold
<1>5. Blocks' /\ Allocs' /\ StampsAreLate' /\ StampsWillBeLate'
  BY <1>1, <1>2, <1>4, AsideBlocks, AsideStamps
<1>6. MemTypes'
  BY <1>1 DEF MemInv, MemTypes
<1>7. StampsArePast'
  BY <1>1 DEF MemInv, Stamps, StampsArePast, Latest
<1>8. EndsLate' /\ StampsAreOlder'
  BY <1>1, <1>3 DEF MemInv, Stamps, EndsLate, StampsAreOlder, Resting
<1>9. QED BY <1>2, <1>5, <1>6, <1>7, <1>8 DEF MemInv, Stamps

----------------------------------------------------------------------------
(* TxMalloc and TxFree *)

LEMMA ViewsOfAll ==
  ASSUME MemInv, NEW t \in Task
  PROVE  /\ Allocated(t) = Own(mm[t]) /\ FreeSlots(t) = Slots(mm[t])
         /\ InFreeSlots(t) = InFree(mm[t]) /\ FreedNow(t) = InNow(mm[t])
  BY Views DEF MemInv, MemTypes

\* The frees of every manager are the same as before.
FreesStay ==
  \A u \in Task : /\ SameFrees(mm[u], mm'[u]) /\ InFree(mm'[u]) = InFree(mm[u])
                  /\ InNow(mm'[u]) = InNow(mm[u])

LEMMA SameFreesSame ==
  ASSUME NEW m, NEW r, InOrder(m), SameFrees(m, r) PROVE InFree(r) = InFree(m) /\ InNow(r) = InNow(m)
<1>1. NowSlots(m) \subseteq Slots(m)
  BY NowIsNotUnder
<1>2. QED BY <1>1 DEF SameFrees, InFree, InNow

LEMMA MallocBlocks == ASSUME MaxAlloc < Size, MemInv, NEW t \in Task, TxMalloc(t) PROVE MemInv'
<1>1. PICK b \in Block \ heap :
        /\ heap' = heap \cup {b}
        /\ mm' = [mm EXCEPT ![t] = Remember(mm[t], "alloced_in_tx", b)]
  BY DEF TxMalloc
<1>2. /\ pc[t] = "running" /\ Cardinality(Allocated(t)) < MaxAlloc
      /\ UNCHANGED <<pc, held, ts, born, commit_ts, valid_ts, last_observed_ts>>
  BY DEF TxMalloc, epoch, world
<1>3. MinInv'
  BY QuietActionStep DEF MemInv, QuietAction
<1> DEFINE m == mm[t]
           r == Remember(m, "alloced_in_tx", b)
<1>4. InOrder(m) /\ mm \in [Task -> Manager] /\ \A u \in Task : InOrder(mm[u])
  BY DEF MemInv, MemTypes
<1>5. b \notin Own(m) /\ Len(m.buf[2].ptrs) < MaxAlloc
  <2>1. Own(m) \subseteq heap
    BY DEF MemInv, Blocks, HeapHolds
  <2>2. QED BY <1>1, <1>2, <1>4, <2>1, ViewsOfAll, OwnCount
<1> DEFINE q == r
<1>6. q = Remember(m, "alloced_in_tx", b)
  OBVIOUS
<1> HIDE DEF q
<1>7. InOrder(q) /\ SameFrees(m, q) /\ Own(q) = Own(m) \cup {b}
  <2>1. b \notin Pointers(m, 2)
    BY <1>5 DEF Own
  <2>2. InOrder(q) /\ SameFrees(m, q) /\ Pointers(q, 2) = Pointers(m, 2) \cup {b}
    BY <1>1, <1>4, <1>5, <1>6, <2>1, MallocM
  <2>3. QED BY <2>2 DEF Own
<1>8. mm'[t] = q /\ \A u \in Task \ {t} : mm'[u] = mm[u]
  BY <1>1, <1>4, <1>6
<1>9. MemTypes'
  <2>1. q \in Manager
    BY <1>7, SlotsTyped
  <2>2. mm' \in [Task -> Manager] /\ \A u \in Task : InOrder(mm'[u])
    BY <1>1, <1>4, <1>6, <1>7, <1>8, <2>1
  <2>3. QED BY <1>1, <1>2, <2>2 DEF MemInv, MemTypes
<1> HIDE DEF m
<1>10. FreesStay
  <2>1. ASSUME NEW u \in Task PROVE SameFrees(mm[u], mm'[u])
    BY <1>7, <1>8 DEF SameFrees, m
  <2>2. QED BY <1>4, <2>1, SameFreesSame DEF FreesStay
<1>11. /\ Own(mm'[t]) = Own(mm[t]) \cup {b} /\ \A u \in Task \ {t} : Own(mm'[u]) = Own(mm[u])
  BY <1>7, <1>8 DEF m
\* The new block is nowhere.
<1>12. /\ b \notin Live
       /\ \A u \in Task : b \notin held[u] /\ b \notin Own(mm[u]) /\ b \notin InFree(mm[u])
  BY <1>1 DEF MemInv, Blocks, HeapHolds
<1>13. Live' = Live
  BY <1>2 DEF Live
<1>14. HeapHolds' /\ NothingLost'
  <2>1. HeapHolds'
    BY <1>1, <1>2, <1>10, <1>11, <1>13 DEF MemInv, Blocks, HeapHolds, FreesStay
  <2>2. NothingLost'
    BY <1>1, <1>10, <1>11, <1>13 DEF MemInv, Blocks, NothingLost, FreesStay
  <2>3. QED BY <2>1, <2>2
<1>15. PtrsDiffer'
  BY <1>10 DEF MemInv, Blocks, PtrsDiffer, FreesStay, SameFrees
<1>16. FreedIsDead'
  BY <1>2, <1>10, <1>13 DEF MemInv, Blocks, FreedIsDead, FreesStay, SameFrees
<1>17. AllocsAreOwn'
  <2> SUFFICES ASSUME NEW w \in Task, pc[w] # "committed", NEW a \in Own(mm'[w])
               PROVE  /\ a \notin Live /\ \A u \in Task : a \notin held[u]
                      /\ \A u \in Task : \A s \in Slots(mm'[u]) :
                           Ptr(mm'[u], s) = a => u = w /\ s \in NowSlots(mm'[w])
    BY <1>2, <1>13 DEF AllocsAreOwn
  <2>1. \A u \in Task : Slots(mm'[u]) = Slots(mm[u]) /\ NowSlots(mm'[u]) = NowSlots(mm[u])
                        /\ \A s \in Slots(mm[u]) : Ptr(mm'[u], s) = Ptr(mm[u], s)
    BY <1>10 DEF FreesStay, SameFrees
  <2>2. CASE a = b
    BY <1>12, <2>1, <2>2 DEF InFree
  <2>3. CASE a # b
    <3>1. a \in Own(mm[w])
      BY <1>11, <2>3
    <3>2. QED BY <2>1, <3>1 DEF MemInv, Allocs, AllocsAreOwn
  <2>4. QED BY <2>2, <2>3
<1>18. AllocsDiffer'
  BY <1>11, <1>12 DEF MemInv, Allocs, AllocsDiffer
<1>19. AllocsAreKept'
  BY <1>2, <1>10, <1>11, <1>13 DEF MemInv, Allocs, AllocsAreKept, FreesStay
<1>20. FreesAreLive'
  BY <1>2, <1>10, <1>11, <1>13 DEF MemInv, Allocs, FreesAreLive, FreesStay
<1>21. RestIsEmpty' /\ OnlyRunningHold'
  BY <1>2, <1>10, <1>11 DEF MemInv, Allocs, RestIsEmpty, OnlyRunningHold, FreesStay, SameFrees, Resting
<1>22. \A v \in Task : Known(v)' = Known(v)
  BY <1>2, <1>11 DEF Known
<1>23. StampsAreLate'
  <2> SUFFICES ASSUME NEW u \in Task, NEW v \in Task, NEW s \in Slots(mm'[u]), NEW x \in Nat,
                      Under(mm'[u], x, s), Ptr(mm'[u], s) \in Known(v)'
               PROVE  last_observed_ts[v] < x
    BY <1>2 DEF StampsAreLate
  <2>1. s \in Slots(mm[u]) /\ Under(mm[u], x, s) /\ Ptr(mm'[u], s) = Ptr(mm[u], s)
    BY <1>10 DEF FreesStay, SameFrees
  <2>2. Ptr(mm[u], s) \in Known(v)
    BY <1>22, <2>1
  <2>3. QED BY <2>1, <2>2 DEF MemInv, Stamps, StampsAreLate
<1>24. StampsWillBeLate'
  <2> SUFFICES ASSUME NEW u \in Task, NEW v \in Task, pc[u] = "committed", Chained(mm'[u]),
                      NEW s \in Slots(mm'[u]), Ptr(mm'[u], s) \in Known(v)'
               PROVE  last_observed_ts[v] < ts[u]
    BY <1>2 DEF StampsWillBeLate
  <2>1. mm'[u] = mm[u]
    BY <1>2, <1>8
  <2>2. Ptr(mm[u], s) \in Known(v)
    BY <1>22, <2>1
  <2>3. QED BY <2>1, <2>2 DEF MemInv, Stamps, StampsWillBeLate
<1>25. StampsArePast'
  BY <1>2, <1>10 DEF MemInv, Stamps, StampsArePast, Latest, FreesStay, SameFrees
<1>26. EndsLate'
  BY <1>2 DEF MemInv, Stamps, EndsLate
<1>27. StampsAreOlder'
  <2> SUFFICES ASSUME NEW u \in Task, NEW x, Stamped(mm'[u], x),
                      (pc[u] = "ended" /\ ~ try_commit(u)) \/ (pc[u] = "committed" /\ Chained(mm'[u]))
               PROVE  x <= ts[u]
    BY <1>2 DEF StampsAreOlder
  <2>1. mm'[u] = mm[u]
    BY <1>2, <1>8
  <2>2. QED BY <2>1 DEF MemInv, Stamps, StampsAreOlder
<1>28. QED
  BY <1>3, <1>9, <1>14, <1>15, <1>16, <1>17, <1>18, <1>19, <1>20, <1>21, <1>23, <1>24, <1>25, <1>26, <1>27
  DEF MemInv, Blocks, Allocs, Stamps

LEMMA FreeBlocks == ASSUME MemInv, NEW t \in Task, TxFree(t) PROVE MemInv'
<1>1. PICK b \in (held[t] \cap Live) \cup Allocated(t) :
        /\ \A u \in Task : b \notin FreedNow(u)
        /\ mm' = [mm EXCEPT ![t] = Remember(mm[t], "freed_in_tx", b)]
  BY DEF TxFree
<1>2. /\ pc[t] = "running" /\ MayRemember(mm[t], "freed_in_tx")
      /\ UNCHANGED <<pc, held, ts, heap, born, commit_ts, valid_ts, last_observed_ts>>
  BY DEF TxFree, epoch, world
<1>3. MinInv'
  BY QuietActionStep DEF MemInv, QuietAction
<1> DEFINE m == mm[t]
           q == Remember(m, "freed_in_tx", b)
<1>4. /\ InOrder(m) /\ mm \in [Task -> Manager] /\ \A u \in Task : InOrder(mm[u])
      /\ q = Remember(m, "freed_in_tx", b)
  BY DEF MemInv, MemTypes
<1>5. /\ b \in Live \/ b \in Own(m)
      /\ \A u \in Task : b \notin InNow(mm[u])
  BY <1>1, ViewsOfAll
<1>6. b \in Block /\ b \in heap
  <2>1. Own(m) \subseteq Block /\ Own(m) \subseteq heap /\ Live \subseteq heap /\ Live \subseteq Block
    BY <1>4, SlotsTyped DEF MemInv, Blocks, HeapHolds, Live
  <2>2. QED BY <1>5, <2>1
<1> HIDE DEF q
<1>7. InOrder(q) /\ OneMoreFree(m, q, b) /\ Own(q) = Own(m)
  <2>1. InOrder(q) /\ OneMoreFree(m, q, b) /\ q.buf[2].ptrs = m.buf[2].ptrs
    BY <1>2, <1>4, <1>6, FreeM
  <2>2. QED BY <2>1 DEF Own, Pointers
<1>8. mm'[t] = q /\ \A u \in Task \ {t} : mm'[u] = mm[u]
  BY <1>1, <1>4
<1>9. MemTypes'
  <2>1. q \in Manager
    BY <1>7, SlotsTyped
  <2>2. mm' \in [Task -> Manager] /\ \A u \in Task : InOrder(mm'[u])
    BY <1>1, <1>4, <1>7, <1>8, <2>1
  <2>3. QED BY <1>2, <2>2 DEF MemInv, MemTypes
<1>10. PICK new :
         /\ new \notin Slots(m)
         /\ Slots(q) = Slots(m) \cup {new} /\ NowSlots(q) = NowSlots(m) \cup {new}
         /\ Ptr(q, new) = b /\ \A s \in Slots(m) : Ptr(q, s) = Ptr(m, s)
         /\ \A x : Stamped(q, x) <=> Stamped(m, x)
         /\ \A x, s : Under(q, x, s) <=> Under(m, x, s)
  BY <1>7 DEF OneMoreFree
<1> HIDE DEF m
<1>11. \A u \in Task : /\ Own(mm'[u]) = Own(mm[u])
                       /\ \A s \in Slots(mm'[u]) : s \in Slots(mm[u]) \/ (u = t /\ s = new)
                       /\ \A s \in Slots(mm[u]) : /\ s \in Slots(mm'[u])
                                                  /\ Ptr(mm'[u], s) = Ptr(mm[u], s)
                                                  /\ s \in NowSlots(mm'[u]) <=> s \in NowSlots(mm[u])
  BY <1>7, <1>8, <1>10 DEF m
<1>12. new \in Slots(mm'[t]) /\ new \in NowSlots(mm'[t]) /\ Ptr(mm'[t], new) = b
  BY <1>8, <1>10
<1>13. /\ \A u \in Task \ {t} : InFree(mm'[u]) = InFree(mm[u]) /\ InNow(mm'[u]) = InNow(mm[u])
       /\ InFree(mm'[t]) = InFree(mm[t]) \cup {b} /\ InNow(mm'[t]) = InNow(mm[t]) \cup {b}
  <2>1. InFree(q) = InFree(m) \cup {b}
    BY <1>10 DEF InFree
  <2>2. InNow(q) = InNow(m) \cup {b}
    <3>1. NowSlots(m) \subseteq Slots(m)
      BY <1>4, NowIsNotUnder DEF m
    <3>2. QED BY <1>10, <3>1 DEF InNow
  <2>3. QED BY <1>8, <2>1, <2>2 DEF m
<1>14. \A u \in Task : /\ \A x : Stamped(mm'[u], x) <=> Stamped(mm[u], x)
                       /\ \A x, s : Under(mm'[u], x, s) <=> Under(mm[u], x, s)
  BY <1>8, <1>10 DEF m
<1>15. Live' = Live
  BY <1>2 DEF Live
\* The block is in no other place: nobody has freed it now, nor before.
<1>16. \A u \in Task : \A s \in Slots(mm[u]) : Ptr(mm[u], s) # b
  <2> SUFFICES ASSUME NEW u \in Task, NEW s \in Slots(mm[u]), Ptr(mm[u], s) = b PROVE FALSE
    OBVIOUS
  <2>1. s \notin NowSlots(mm[u])
    BY <1>5 DEF InNow
  <2>2. b \notin Live
    BY <2>1 DEF MemInv, Blocks, FreedIsDead
  <2>3. b \in Own(mm[t]) /\ pc[t] # "committed"
    BY <1>2, <1>5, <2>2 DEF m
  <2>4. u = t /\ s \in NowSlots(mm[t])
    BY <2>3 DEF MemInv, Allocs, AllocsAreOwn
  <2>5. QED BY <2>1, <2>4
<1>17. HeapHolds' /\ NothingLost'
  <2>1. HeapHolds'
    BY <1>2, <1>6, <1>11, <1>13, <1>15 DEF MemInv, Blocks, HeapHolds
  <2>2. NothingLost'
    BY <1>2, <1>11, <1>13, <1>15 DEF MemInv, Blocks, NothingLost
  <2>3. QED BY <2>1, <2>2
<1>18. PtrsDiffer'
  <2> SUFFICES ASSUME NEW u \in Task, NEW w \in Task, NEW s \in Slots(mm'[u]), NEW r \in Slots(mm'[w]),
                      Ptr(mm'[u], s) = Ptr(mm'[w], r)
               PROVE  u = w /\ s = r
    BY DEF PtrsDiffer
  <2>1. CASE s \in Slots(mm[u]) /\ r \in Slots(mm[w])
    <3>1. Ptr(mm[u], s) = Ptr(mm[w], r)
      BY <1>11, <2>1
    <3>2. QED BY <2>1, <3>1 DEF MemInv, Blocks, PtrsDiffer
  <2>2. CASE s \notin Slots(mm[u])
    <3>1. u = t /\ s = new /\ Ptr(mm'[w], r) = b
      BY <1>11, <1>12, <2>2
    <3>2. w = t /\ r = new
      BY <1>11, <1>16, <3>1
    <3>3. QED BY <3>1, <3>2
  <2>3. CASE r \notin Slots(mm[w])
    <3>1. w = t /\ r = new /\ Ptr(mm'[u], s) = b
      BY <1>11, <1>12, <2>3
    <3>2. u = t /\ s = new
      BY <1>11, <1>16, <3>1
    <3>3. QED BY <3>1, <3>2
  <2>4. QED BY <2>1, <2>2, <2>3
<1>19. FreedIsDead'
  <2> SUFFICES ASSUME NEW u \in Task, NEW s \in Slots(mm'[u]), s \notin NowSlots(mm'[u]) \/ pc[u] = "committed"
               PROVE  Ptr(mm'[u], s) \notin Live
    BY <1>2, <1>15 DEF FreedIsDead
  <2>1. s \in Slots(mm[u])
    BY <1>2, <1>11, <1>12
  <2>2. s \notin NowSlots(mm[u]) \/ pc[u] = "committed"
    BY <1>11, <2>1
  <2>3. Ptr(mm[u], s) \notin Live
    BY <2>1, <2>2 DEF MemInv, Blocks, FreedIsDead
  <2>4. QED BY <1>11, <2>1, <2>3
<1>20. AllocsAreOwn'
  <2> SUFFICES ASSUME NEW w \in Task, pc[w] # "committed", NEW a \in Own(mm[w])
               PROVE  /\ a \notin Live /\ \A u \in Task : a \notin held[u]
                      /\ \A u \in Task : \A s \in Slots(mm'[u]) :
                           Ptr(mm'[u], s) = a => u = w /\ s \in NowSlots(mm'[w])
    BY <1>2, <1>11, <1>15 DEF AllocsAreOwn
  <2>1. a \notin Live /\ \A u \in Task : a \notin held[u]
    BY DEF MemInv, Allocs, AllocsAreOwn
  <2>2. ASSUME NEW u \in Task, NEW s \in Slots(mm'[u]), Ptr(mm'[u], s) = a
        PROVE  u = w /\ s \in NowSlots(mm'[w])
    <3>1. CASE s \in Slots(mm[u])
      <4>1. Ptr(mm[u], s) = a
        BY <1>11, <2>2, <3>1
      <4>2. u = w /\ s \in NowSlots(mm[w])
        BY <3>1, <4>1 DEF MemInv, Allocs, AllocsAreOwn
      <4>3. QED BY <1>11, <3>1, <4>2
    <3>2. CASE s \notin Slots(mm[u])
      <4>1. u = t /\ s = new /\ a = b
        BY <1>11, <1>12, <2>2, <3>2
      <4>2. a \in Own(mm[t])
        BY <1>5, <2>1, <4>1 DEF m
      <4>3. w = t
        BY <4>2 DEF MemInv, Allocs, AllocsDiffer
      <4>4. QED BY <1>12, <4>1, <4>3
    <3>3. QED BY <3>1, <3>2
  <2>3. QED BY <2>1, <2>2
<1>21. AllocsDiffer'
  BY <1>11 DEF MemInv, Allocs, AllocsDiffer
<1>22. AllocsAreKept'
  BY <1>2, <1>11, <1>13, <1>15 DEF MemInv, Allocs, AllocsAreKept
<1>23. FreesAreLive'
  BY <1>2, <1>5, <1>11, <1>13, <1>15 DEF MemInv, Allocs, FreesAreLive, m
<1>24. RestIsEmpty' /\ OnlyRunningHold'
  <2>1. RestIsEmpty'
    BY <1>2, <1>8 DEF MemInv, Allocs, RestIsEmpty, Resting
  <2>2. OnlyRunningHold'
    BY <1>2 DEF MemInv, Allocs, OnlyRunningHold
  <2>3. QED BY <2>1, <2>2
<1>25. \A v \in Task : Known(v)' = Known(v)
  BY <1>2, <1>11 DEF Known
<1>26. StampsAreLate'
  <2> SUFFICES ASSUME NEW u \in Task, NEW v \in Task, NEW s \in Slots(mm'[u]), NEW x \in Nat,
                      Under(mm'[u], x, s), Ptr(mm'[u], s) \in Known(v)'
               PROVE  last_observed_ts[v] < x
    BY <1>2 DEF StampsAreLate
  <2>1. Under(mm[u], x, s)
    BY <1>14
  <2>2. s \in Slots(mm[u])
    BY <2>1 DEF Under
  <2>3. Ptr(mm[u], s) \in Known(v)
    BY <1>11, <1>25, <2>2
  <2>4. QED BY <2>1, <2>2, <2>3 DEF MemInv, Stamps, StampsAreLate
<1>27. StampsWillBeLate'
  <2> SUFFICES ASSUME NEW u \in Task, NEW v \in Task, pc[u] = "committed", Chained(mm'[u]),
                      NEW s \in Slots(mm'[u]), Ptr(mm'[u], s) \in Known(v)'
               PROVE  last_observed_ts[v] < ts[u]
    BY <1>2 DEF StampsWillBeLate
  <2>1. mm'[u] = mm[u]
    BY <1>2, <1>8
  <2>2. Ptr(mm[u], s) \in Known(v)
    BY <1>25, <2>1
  <2>3. QED BY <2>1, <2>2 DEF MemInv, Stamps, StampsWillBeLate
<1>28. StampsArePast'
  BY <1>2, <1>14 DEF MemInv, Stamps, StampsArePast, Latest
<1>29. EndsLate'
  BY <1>2 DEF MemInv, Stamps, EndsLate
<1>30. StampsAreOlder'
  <2> SUFFICES ASSUME NEW u \in Task, NEW x, Stamped(mm'[u], x),
                      (pc[u] = "ended" /\ ~ try_commit(u)) \/ (pc[u] = "committed" /\ Chained(mm'[u]))
               PROVE  x <= ts[u]
    BY <1>2 DEF StampsAreOlder
  <2>1. mm'[u] = mm[u]
    BY <1>2, <1>8
  <2>2. QED BY <2>1 DEF MemInv, Stamps, StampsAreOlder
<1>31. QED
  BY <1>3, <1>9, <1>17, <1>18, <1>19, <1>20, <1>21, <1>22, <1>23, <1>24, <1>26, <1>27, <1>28, <1>29, <1>30
  DEF MemInv, Blocks, Allocs, Stamps

----------------------------------------------------------------------------
(* Commit *)

OneAtATime == Threads = 1 \/ SpecDepth = 1

\* A transaction has one commit task, its last.
LEMMA OneCommits ==
  ASSUME NEW t \in Task, NEW u \in Siblings(t), try_commit(t), try_commit(u) PROVE u = t
<1>1. SpecDepth \in Nat \ {0} /\ t \in Nat /\ u \in Nat /\ u \in Task
  BY Counts DEF Siblings
<1>2. t \div SpecDepth = u \div SpecDepth /\ t % SpecDepth = u % SpecDepth
  BY DEF Siblings, prog_thread_id, try_commit
<1>3. PICK q \in Int : q = t \div SpecDepth
  BY <1>1
<1>4. t % SpecDepth = t - q * SpecDepth
  BY <1>1, <1>3, SMTT(20)
<1>5. q = u \div SpecDepth
  BY <1>2, <1>3
<1>6. u % SpecDepth = u - q * SpecDepth
  BY <1>1, <1>5, SMTT(20)
<1>7. t - q * SpecDepth = u - q * SpecDepth /\ q * SpecDepth \in Int
  BY <1>1, <1>2, <1>3, <1>4, <1>6
<1> DEFINE n == q * SpecDepth
<1>8. n \in Int /\ t - n = u - n
  BY <1>7
<1> HIDE DEF n
<1>9. QED BY <1>1, <1>8

\* With one program thread its transaction is all there is; with one task per
\* transaction its commit task is.
LEMMA OneIsAll ==
  ASSUME OneAtATime, NEW t \in Task, NEW u \in Siblings(t), u # t PROVE Siblings(t) = Task
<1>1. u \in Task /\ t \in Nat /\ u \in Nat /\ prog_thread_id(u) = prog_thread_id(t)
  BY Counts DEF Siblings
<1>2. CASE SpecDepth = 1
  <2>1. u \div 1 = u /\ t \div 1 = t
    BY <1>1
  <2>2. QED BY <1>1, <1>2, <2>1 DEF prog_thread_id
<1>3. CASE Threads = 1
  <2>1. \A v \in Task : prog_thread_id(v) = 0
    BY <1>3, ThreadOfTask DEF Thread
  <2>2. QED BY <2>1 DEF Siblings
<1>4. QED BY <1>2, <1>3 DEF OneAtATime

Joined(t) == UNION {InNow(mm[u]) : u \in Siblings(t)}
Made(t) == (UNION {Own(mm[u]) : u \in Siblings(t)}) \ Joined(t)

\* What a commit changes: which blocks are reachable, and where its tasks are.
Done(t) ==
  /\ UNCHANGED <<mm, held, heap, valid_ts, last_observed_ts>>
  /\ try_commit(t) /\ \A u \in Siblings(t) : u \in Task /\ pc[u] = "ended"
  /\ \A u \in Task : pc'[u] = IF u \in Siblings(t) THEN "committed" ELSE pc[u]
  /\ Live' = (Live \ Joined(t)) \cup Made(t)

LEMMA DoneBlocks ==
  ASSUME MemInv, NEW t \in Task, Done(t) PROVE Blocks' /\ Allocs'
<1>1. /\ mm' = mm /\ held' = held /\ heap' = heap /\ \A u \in Siblings(t) : u \in Task /\ pc[u] = "ended"
      /\ \A u \in Task : pc'[u] = IF u \in Siblings(t) THEN "committed" ELSE pc[u]
      /\ Live' = (Live \ Joined(t)) \cup Made(t)
  BY DEF Done
<1>2. \A u \in Task : NowSlots(mm[u]) \subseteq Slots(mm[u]) /\ InNow(mm[u]) \subseteq InFree(mm[u])
  BY NowIsNotUnder DEF MemInv, MemTypes, InNow, InFree
<1>3. \A b \in Joined(t) : \E u \in Siblings(t) : b \in InNow(mm[u])
  BY DEF Joined
<1>4. \A b \in Made(t) : b \notin Joined(t) /\ \E u \in Siblings(t) : b \in Own(mm[u])
  <2>1. \A b \in Made(t) : b \notin Joined(t) /\ b \in UNION {Own(mm[u]) : u \in Siblings(t)}
    BY DEF Made
  <2>2. QED BY <2>1
<1>5. HeapHolds'
  <2>1. Made(t) \subseteq heap
    BY <1>1, <1>4 DEF MemInv, Blocks, HeapHolds
  <2>2. Live' \subseteq Live \cup Made(t)
    BY <1>1
  <2>3. QED BY <1>1, <2>1, <2>2 DEF MemInv, Blocks, HeapHolds
<1>6. NothingLost'
  <2> SUFFICES ASSUME NEW b \in heap
               PROVE  b \in Live' \/ \E u \in Task : b \in Own(mm[u]) \/ b \in InFree(mm[u])
    BY <1>1 DEF NothingLost
  <2>1. CASE b \in Live
    BY <1>1, <1>2, <1>3, <2>1
  <2>2. CASE b \notin Live
    BY <2>2 DEF MemInv, Blocks, NothingLost
  <2>3. QED BY <2>1, <2>2
<1>7. PtrsDiffer' /\ AllocsDiffer'
  <2>1. mm' = mm /\ PtrsDiffer /\ AllocsDiffer
    BY <1>1 DEF MemInv, Blocks, Allocs
  <2>2. PtrsDiffer'
    BY <2>1 DEF PtrsDiffer
  <2>3. AllocsDiffer'
    BY <2>1 DEF AllocsDiffer
  <2>4. QED BY <2>2, <2>3
<1>8. FreedIsDead'
  <2> SUFFICES ASSUME NEW w \in Task, NEW s \in Slots(mm[w]), Ptr(mm[w], s) \in Live',
                      s \notin NowSlots(mm[w]) \/ pc'[w] = "committed"
               PROVE  FALSE
    BY <1>1 DEF FreedIsDead
  <2>1. CASE Ptr(mm[w], s) \in Made(t)
    <3>1. PICK u \in Siblings(t) : Ptr(mm[w], s) \in Own(mm[u])
      BY <1>4, <2>1
    <3>2. u \in Task /\ pc[u] # "committed"
      BY <1>1
    <3>3. w = u /\ s \in NowSlots(mm[u])
      BY <3>1, <3>2 DEF MemInv, Allocs, AllocsAreOwn
    <3>4. Ptr(mm[w], s) \in InNow(mm[u])
      BY <3>3 DEF InNow
    <3>5. QED BY <1>4, <2>1, <3>4 DEF Joined
  <2>2. CASE Ptr(mm[w], s) \in Live \ Joined(t)
    <3>1. s \in NowSlots(mm[w]) /\ pc[w] # "committed"
      BY <2>2 DEF MemInv, Blocks, FreedIsDead
    <3>2. w \in Siblings(t)
      BY <1>1, <3>1
    <3>3. Ptr(mm[w], s) \in InNow(mm[w])
      BY <3>1 DEF InNow
    <3>4. QED BY <2>2, <3>2, <3>3 DEF Joined
  <2>3. QED BY <1>1, <2>1, <2>2
<1>9. AllocsAreOwn'
  <2> SUFFICES ASSUME NEW w \in Task, pc'[w] # "committed", NEW b \in Own(mm[w])
               PROVE  /\ b \notin Live' /\ \A u \in Task : b \notin held[u]
                      /\ \A u \in Task : \A s \in Slots(mm[u]) :
                           Ptr(mm[u], s) = b => u = w /\ s \in NowSlots(mm[w])
    BY <1>1 DEF AllocsAreOwn
  <2>1. w \notin Siblings(t) /\ pc[w] # "committed"
    BY <1>1
  <2>2. /\ b \notin Live /\ \A u \in Task : b \notin held[u]
        /\ \A u \in Task : \A s \in Slots(mm[u]) :
             Ptr(mm[u], s) = b => u = w /\ s \in NowSlots(mm[w])
    BY <2>1 DEF MemInv, Allocs, AllocsAreOwn
  <2>3. b \notin Made(t)
    BY <1>1, <1>4, <2>1 DEF MemInv, Allocs, AllocsDiffer
  <2>4. QED BY <1>1, <2>2, <2>3
<1>10. AllocsAreKept'
  <2> SUFFICES ASSUME NEW w \in Task, pc'[w] = "committed", NEW b \in Own(mm[w])
               PROVE  b \in Live' \/ \E u \in Task : b \in InFree(mm[u])
    BY <1>1 DEF AllocsAreKept
  <2>1. CASE b \in Joined(t)
    BY <1>1, <1>2, <1>3, <2>1
  <2>2. CASE b \notin Joined(t) /\ w \in Siblings(t)
    <3>1. b \in UNION {Own(mm[u]) : u \in Siblings(t)}
      BY <2>2
    <3>2. b \in Made(t)
      BY <2>2, <3>1 DEF Made
    <3>3. Live' = (Live \ Joined(t)) \cup Made(t)
      BY <1>1
    <3>4. QED BY <3>2, <3>3
  <2>3. CASE b \notin Joined(t) /\ w \notin Siblings(t)
    <3>1. pc[w] = "committed"
      BY <1>1, <2>3
    <3>2. b \in Live \/ \E u \in Task : b \in InFree(mm[u])
      BY <3>1 DEF MemInv, Allocs, AllocsAreKept
    <3>3. QED BY <1>1, <2>3, <3>2
  <2>4. QED BY <2>1, <2>2, <2>3
<1>11. FreesAreLive'
  <2> SUFFICES ASSUME NEW w \in Task, pc'[w] \in {"running", "ended", "abort"}, NEW b \in InNow(mm[w])
               PROVE  b \in Live' \/ b \in Own(mm[w])
    BY <1>1 DEF FreesAreLive
  <2>1. w \notin Siblings(t) /\ pc[w] \in {"running", "ended", "abort"}
    BY <1>1
  <2>2. b \in Live \/ b \in Own(mm[w])
    BY <2>1 DEF MemInv, Allocs, FreesAreLive
  <2>3. ASSUME NEW u \in Siblings(t), b \in InNow(mm[u]) PROVE FALSE
    <3>1. PICK s \in NowSlots(mm[w]) : b = Ptr(mm[w], s)
      BY DEF InNow
    <3>2. PICK r \in NowSlots(mm[u]) : b = Ptr(mm[u], r)
      BY <2>3 DEF InNow
    <3>3. u \in Task /\ s \in Slots(mm[w]) /\ r \in Slots(mm[u])
      BY <1>1, <1>2
    <3>4. w = u
      BY <3>1, <3>2, <3>3 DEF MemInv, Blocks, PtrsDiffer
    <3>5. QED BY <2>1, <3>4
  <2>4. b \notin Joined(t)
    BY <1>3, <2>3
  <2>5. QED BY <1>1, <2>2, <2>4
<1>12. RestIsEmpty' /\ OnlyRunningHold'
  <2>1. RestIsEmpty'
    BY <1>1 DEF MemInv, Allocs, RestIsEmpty, Resting
  <2>2. OnlyRunningHold'
    BY <1>1 DEF MemInv, Allocs, OnlyRunningHold
  <2>3. QED BY <2>1, <2>2
<1>13. QED
  BY <1>5, <1>6, <1>7, <1>8, <1>9, <1>10, <1>11, <1>12 DEF Blocks, Allocs

\* No block under a timestamp is one that the transaction has made.
LEMMA DoneStampsAreLate ==
  ASSUME MemInv, NEW t \in Task, Done(t) PROVE StampsAreLate'
<1>1. /\ mm' = mm /\ held' = held /\ last_observed_ts' = last_observed_ts
      /\ \A u \in Siblings(t) : u \in Task /\ pc[u] = "ended"
      /\ \A u \in Task : pc'[u] = IF u \in Siblings(t) THEN "committed" ELSE pc[u]
  BY DEF Done
<1> SUFFICES ASSUME NEW u \in Task, NEW v \in Task, NEW s \in Slots(mm[u]), NEW x \in Nat,
                    Under(mm[u], x, s), Ptr(mm[u], s) \in Known(v)'
             PROVE  last_observed_ts[v] < x
  BY <1>1 DEF StampsAreLate
<1>2. CASE Ptr(mm[u], s) \in Known(v)
  BY <1>2 DEF MemInv, Stamps, StampsAreLate
<1>3. CASE Ptr(mm[u], s) \notin Known(v)
  <2>1. v \in Siblings(t) /\ Ptr(mm[u], s) \in Own(mm[v])
    BY <1>1, <1>3 DEF Known
  <2>2. pc[v] # "committed"
    BY <1>1, <2>1
  <2>3. u = v /\ s \in NowSlots(mm[v])
    BY <2>1, <2>2 DEF MemInv, Allocs, AllocsAreOwn
  <2>4. ~ Under(mm[u], x, s)
    BY <2>3, NowIsNotUnder DEF MemInv, MemTypes
  <2>5. QED BY <2>4
<1>4. QED BY <1>2, <1>3

LEMMA CommitBlocks == ASSUME OneAtATime, MemInv, NEW t \in Task, Commit(t) PROVE MemInv'
<1> DEFINE now == commit_ts + 1
<1>1. /\ UNCHANGED <<mm, held, heap, valid_ts, last_observed_ts>>
      /\ try_commit(t) /\ \A u \in Siblings(t) : u \in Task /\ pc[u] = "ended"
      /\ pc' = [u \in Task |-> IF u \in Siblings(t) THEN "committed" ELSE pc[u]]
  BY DEF Commit, epoch, Siblings
<1>2. \A u \in Siblings(t) : Allocated(u) = Own(mm[u]) /\ FreedNow(u) = InNow(mm[u])
  BY <1>1, ViewsOfAll
<1>3. /\ UNION {FreedNow(u) : u \in Siblings(t)} = Joined(t)
      /\ (UNION {Allocated(u) : u \in Siblings(t)}) \ UNION {FreedNow(u) : u \in Siblings(t)} = Made(t)
  BY <1>2 DEF Joined, Made
<1>4. \/ Joined(t) = {} /\ Made(t) = {} /\ UNCHANGED <<ts, born, commit_ts>>
      \/ /\ commit_ts' = now /\ ts' = [ts EXCEPT ![t] = now]
         /\ born' = [b \in Block |-> IF b \in Made(t) THEN now ELSE IF b \in Joined(t) THEN 0 ELSE born[b]]
  BY <1>3 DEF Commit
<1>5. MinInv' /\ MinInv /\ commit_ts \in Nat /\ now \in Nat /\ now > 0 /\ now > commit_ts
  BY CommitStep DEF MemInv, MinInv, Clocks
<1> HIDE DEF now
<1>6. t \in Siblings(t)
  BY DEF Siblings
<1>7. Made(t) \subseteq Block /\ Made(t) \cap Joined(t) = {}
  <2>1. \A u \in Siblings(t) : Own(mm[u]) \subseteq Block
    BY <1>1, SlotsTyped DEF MemInv, MemTypes
  <2>2. UNION {Own(mm[u]) : u \in Siblings(t)} \subseteq Block
    BY <2>1
  <2>3. QED BY <2>2 DEF Made
<1>8. Live' = (Live \ Joined(t)) \cup Made(t) /\ born' \in [Block -> Nat]
  <2>1. born \in [Block -> Nat]
    BY DEF MemInv, MemTypes
  <2>2. CASE Joined(t) = {} /\ Made(t) = {} /\ UNCHANGED <<ts, born, commit_ts>>
    BY <2>1, <2>2 DEF Live
  <2>3. CASE born' = [b \in Block |-> IF b \in Made(t) THEN now ELSE IF b \in Joined(t) THEN 0 ELSE born[b]]
    <3>1. born' \in [Block -> Nat]
      BY <1>5, <2>1, <2>3
    <3>2. ASSUME NEW b \in Block
          PROVE  born'[b] > 0 <=> (born[b] > 0 /\ b \notin Joined(t)) \/ b \in Made(t)
      <4>1. born'[b] = IF b \in Made(t) THEN now ELSE IF b \in Joined(t) THEN 0 ELSE born[b]
        BY <2>3
      <4>2. QED BY <1>5, <2>1, <4>1
    <3>3. ASSUME NEW b PROVE b \in Live' <=> b \in (Live \ Joined(t)) \cup Made(t)
      BY <1>7, <3>2 DEF Live
    <3>4. QED BY <3>1, <3>3
  <2>4. QED BY <1>4, <2>2, <2>3
<1>9. Done(t)
  BY <1>1, <1>8 DEF Done
<1>10. Blocks' /\ Allocs' /\ StampsAreLate'
  BY <1>9, DoneBlocks, DoneStampsAreLate
<1>11. /\ ts' \in [Task -> Nat] /\ \A u \in Task \ {t} : ts'[u] = ts[u]
       /\ ts'[t] = ts[t] \/ (ts'[t] = now /\ commit_ts' = now)
       /\ commit_ts' \in Nat /\ commit_ts <= commit_ts'
  <2>1. ts \in [Task -> Nat]
    BY DEF MemInv, MemTypes
  <2>2. QED BY <1>4, <1>5, <2>1
<1>12. MemTypes'
  BY <1>1, <1>8, <1>11 DEF MemInv, MemTypes
\* A transaction of whose tasks one has filled a buffer takes a timestamp.
<1>13. ASSUME NEW u \in Siblings(t), Chained(mm[u])
       PROVE  ts'[t] = now /\ commit_ts' = now
  <2>1. NowSlots(mm[u]) # {}
    BY <1>1, <1>13, ChainedHasNow DEF MemInv, MemTypes
  <2>2. InNow(mm[u]) # {}
    BY <2>1 DEF InNow
  <2>3. Joined(t) # {}
    BY <2>2 DEF Joined
  <2>4. ts \in [Task -> Nat]
    BY DEF MemInv, MemTypes
  <2>5. QED BY <1>4, <2>3, <2>4
<1>14. \A u \in Task : /\ last_observed_ts[u] \in Nat /\ last_observed_ts[u] < now
                       /\ Latest(u) \in Nat /\ Latest(u) <= commit_ts /\ ts[u] \in Nat
  BY <1>5, ThreadClocks DEF MemInv, MemTypes
<1>15. StampsWillBeLate'
  <2> SUFFICES ASSUME NEW u \in Task, NEW v \in Task, pc'[u] = "committed", Chained(mm[u]),
                      NEW s \in Slots(mm[u]), Ptr(mm[u], s) \in Known(v)'
               PROVE  last_observed_ts[v] < ts'[u]
    BY <1>1 DEF StampsWillBeLate
  <2>1. ASSUME v \notin Siblings(t) PROVE Ptr(mm[u], s) \in Known(v)
    BY <1>1, <2>1 DEF Known
  \* What the tasks of the transaction know is what they have made.
  <2>2. ASSUME v \in Siblings(t) PROVE u = v
    <3>1. pc[v] = "ended" /\ held[v] = {}
      BY <1>1, <2>2 DEF MemInv, Allocs, OnlyRunningHold
    <3>2. Ptr(mm[u], s) \in Own(mm[v])
      BY <1>1, <2>2, <3>1 DEF Known
    <3>3. QED BY <3>1, <3>2 DEF MemInv, Allocs, AllocsAreOwn
  <2>3. CASE u \notin Siblings(t)
    <3>1. v \notin Siblings(t) /\ pc[u] = "committed" /\ ts'[u] = ts[u]
      BY <1>1, <1>6, <1>11, <2>2, <2>3
    <3>2. Ptr(mm[u], s) \in Known(v)
      BY <2>1, <3>1
    <3>3. QED BY <3>1, <3>2 DEF MemInv, Stamps, StampsWillBeLate
  <2>4. CASE u \in Siblings(t) /\ u = t
    BY <1>13, <1>14, <2>4
  <2>5. CASE u \in Siblings(t) /\ u # t
    <3>1. Siblings(t) = Task
      BY <2>5, OneIsAll
    <3>2. u = v /\ pc[u] = "ended" /\ ts'[u] = ts[u]
      BY <1>1, <1>11, <2>2, <2>5, <3>1
    <3>3. QED BY <3>2 DEF MemInv, Stamps, EndsLate
  <2>6. QED BY <2>3, <2>4, <2>5
<1>16. \A u \in Task : Latest(u)' = IF try_commit(u) THEN commit_ts' ELSE valid_ts[prog_thread_id(u)]
  BY <1>1 DEF Latest
<1>17. StampsArePast'
  <2> SUFFICES ASSUME NEW u \in Task
               PROVE  ts'[u] <= Latest(u)' /\ \A x : Stamped(mm[u], x) => x \in Nat /\ x <= Latest(u)'
    BY <1>1 DEF StampsArePast
  <2> DEFINE l == Latest(u)'
  <2>1. l \in Nat /\ Latest(u) <= l /\ (u = t => l = commit_ts')
    <3>1. CASE try_commit(u)
      BY <1>5, <1>11, <1>16, <3>1 DEF Latest
    <3>2. CASE ~ try_commit(u)
      BY <1>1, <1>14, <1>16, <3>2 DEF Latest
    <3>3. QED BY <3>1, <3>2
  <2>2. ts[u] <= Latest(u) /\ \A x : Stamped(mm[u], x) => x \in Nat /\ x <= Latest(u)
    BY DEF MemInv, Stamps, StampsArePast
  <2>3. Latest(u) \in Nat /\ ts[u] \in Nat
    BY <1>14
  <2> HIDE DEF l
  <2>4. ts'[u] <= l
    <3>1. CASE ts'[u] = ts[u]
      BY <2>1, <2>2, <2>3, <3>1
    <3>2. CASE ts'[u] # ts[u]
      <4>1. u = t /\ ts'[u] = commit_ts'
        BY <1>11, <3>2
      <4>2. QED BY <2>1, <4>1
    <3>3. QED BY <3>1, <3>2
  <2>5. \A x : Stamped(mm[u], x) => x \in Nat /\ x <= l
    BY <2>1, <2>2, <2>3
  <2>6. QED BY <2>4, <2>5 DEF l
<1>18. EndsLate'
  <2> SUFFICES ASSUME NEW u \in Task, pc'[u] \in {"ended", "committed"} PROVE last_observed_ts[u] < ts'[u]
    BY <1>1 DEF EndsLate
  <2>1. pc[u] \in {"ended", "committed"}
    BY <1>1
  <2>2. last_observed_ts[u] < ts[u]
    BY <2>1 DEF MemInv, Stamps, EndsLate
  <2>3. QED BY <1>11, <1>14, <2>2
<1>19. StampsAreOlder'
  <2> SUFFICES ASSUME NEW u \in Task, NEW x, Stamped(mm[u], x),
                      (pc'[u] = "ended" /\ ~ try_commit(u)) \/ (pc'[u] = "committed" /\ Chained(mm[u]))
               PROVE  x <= ts'[u]
    BY <1>1 DEF StampsAreOlder
  <2>1. x \in Nat /\ x <= Latest(u)
    BY DEF MemInv, Stamps, StampsArePast
  <2>2. CASE u \notin Siblings(t)
    <3>1. pc'[u] = pc[u] /\ ts'[u] = ts[u]
      BY <1>1, <1>6, <1>11, <2>2
    <3>2. QED BY <3>1 DEF MemInv, Stamps, StampsAreOlder
  <2>3. CASE u \in Siblings(t) /\ u = t
    <3>1. Chained(mm[t])
      BY <1>1, <2>3
    <3>2. ts'[t] = now
      BY <1>13, <2>3, <3>1
    <3>3. QED BY <1>5, <1>14, <2>1, <2>3, <3>2
  <2>4. CASE u \in Siblings(t) /\ u # t
    <3>1. ~ try_commit(u) /\ pc[u] = "ended" /\ ts'[u] = ts[u]
      BY <1>1, <1>11, <2>4, OneCommits
    <3>2. QED BY <3>1 DEF MemInv, Stamps, StampsAreOlder
  <2>5. QED BY <2>2, <2>3, <2>4
<1>20. QED
  BY <1>5, <1>10, <1>12, <1>15, <1>17, <1>18, <1>19 DEF MemInv, Stamps

----------------------------------------------------------------------------
(* The end of a task *)

LEMMA ManagerCommitBlocks == ASSUME MemInv, NEW t \in Task, ManagerCommit(t) PROVE MemInv'
<1> DEFINE m == mm[t]
           q == TxCommit(m, ts[t])
           l == IF mm[t].freed_in_tx_old = mm[t].freed_in_tx THEN "idle" ELSE "free_dominated"
<1>1. /\ pc[t] = "committed" /\ mm' = [mm EXCEPT ![t] = q] /\ ts' = [ts EXCEPT ![t] = 0]
      /\ pc' = [pc EXCEPT ![t] = l]
      /\ UNCHANGED <<held, heap, born, commit_ts, valid_ts, last_observed_ts>>
  BY DEF ManagerCommit, Goto, epoch, world
<1>2. MinInv' /\ pc \in [Task -> Places] /\ l \in Resting
  BY QuietActionStep DEF MemInv, QuietAction, MinInv, Clocks, Places, Resting
<1>3. /\ InOrder(m) /\ mm \in [Task -> Manager] /\ \A u \in Task : InOrder(mm[u])
      /\ ts \in [Task -> Nat] /\ q = TxCommit(m, ts[t])
  BY DEF MemInv, MemTypes
<1> HIDE DEF q, l
<1>4. Committed(m, ts[t], q) /\ Own(q) = {}
  <2>1. Chained(m) => \A y : Stamped(m, y) => y <= ts[t]
    BY <1>1 DEF MemInv, Stamps, StampsAreOlder
  <2>2. ts[t] \in Nat
    BY <1>3
  <2>3. Committed(m, ts[t], q) /\ Pointers(q, 2) = {}
    BY <1>3, <2>1, <2>2, CommitM
  <2>4. QED BY <2>3 DEF Own
<1>5. /\ mm'[t] = q /\ \A u \in Task \ {t} : mm'[u] = mm[u]
      /\ ts'[t] = 0 /\ \A u \in Task \ {t} : ts'[u] = ts[u]
      /\ pc'[t] = l /\ pc'[t] # "committed" /\ \A u \in Task \ {t} : pc'[u] = pc[u]
  BY <1>1, <1>2, <1>3 DEF Resting
<1>6. /\ InOrder(q) /\ Slots(q) = Slots(m) /\ NowSlots(q) = {}
      /\ \A s \in Slots(m) : Ptr(q, s) = Ptr(m, s)
      /\ \A y : Stamped(q, y) => Stamped(m, y) \/ (y = ts[t] /\ Chained(m))
      /\ \A y, s : Under(q, y, s) => Under(m, y, s) \/ (y = ts[t] /\ Chained(m) /\ s \in Slots(m))
  BY <1>4 DEF Committed
<1> HIDE DEF m
<1>7. MemTypes'
  <2>1. q \in Manager
    BY <1>6, SlotsTyped
  <2>2. mm' \in [Task -> Manager] /\ \A u \in Task : InOrder(mm'[u])
    BY <1>1, <1>3, <1>5, <1>6, <2>1
  <2>3. ts' \in [Task -> Nat]
    BY <1>1, <1>3
  <2>4. QED BY <1>1, <2>2, <2>3 DEF MemInv, MemTypes
<1>8. Fewer
  BY <1>4, <1>5, <1>6 DEF Fewer, m
<1>9. PtrsDiffer' /\ AllocsDiffer'
  BY <1>8, FewerDiffer DEF MemInv, Blocks, Allocs
<1>10. Live' = Live
  BY <1>1 DEF Live
<1>11. \A u \in Task : /\ Slots(mm'[u]) = Slots(mm[u]) /\ InFree(mm'[u]) = InFree(mm[u])
                       /\ \A s \in Slots(mm[u]) : Ptr(mm'[u], s) = Ptr(mm[u], s)
  BY <1>5, <1>6 DEF InFree, m
<1>12. Own(mm'[t]) = {} /\ \A u \in Task \ {t} : Own(mm'[u]) = Own(mm[u])
  BY <1>4, <1>5
<1>13. HeapHolds'
  BY <1>1, <1>8, <1>10, <1>11 DEF MemInv, Blocks, HeapHolds, Fewer
<1>14. NothingLost'
  <2>1. \A b \in Own(mm[t]) : b \in Live \/ \E u \in Task : b \in InFree(mm[u])
    BY <1>1 DEF MemInv, Allocs, AllocsAreKept
  <2>2. QED BY <1>1, <1>10, <1>11, <1>12, <2>1 DEF MemInv, Blocks, NothingLost
<1>15. FreedIsDead'
  <2> SUFFICES ASSUME NEW u \in Task, NEW s \in Slots(mm[u]), s \notin NowSlots(mm'[u]) \/ pc'[u] = "committed"
               PROVE  Ptr(mm[u], s) \notin Live
    BY <1>10, <1>11 DEF FreedIsDead
  <2>1. CASE u = t
    BY <1>1, <2>1 DEF MemInv, Blocks, FreedIsDead
  <2>2. CASE u # t
    BY <1>5, <2>2 DEF MemInv, Blocks, FreedIsDead
  <2>3. QED BY <2>1, <2>2
<1>16. AllocsAreOwn'
  <2> SUFFICES ASSUME NEW w \in Task, pc'[w] # "committed", NEW b \in Own(mm'[w])
               PROVE  /\ b \notin Live /\ \A u \in Task : b \notin held[u]
                      /\ \A u \in Task : \A s \in Slots(mm[u]) :
                           Ptr(mm[u], s) = b => u = w /\ s \in NowSlots(mm'[w])
    BY <1>1, <1>10, <1>11 DEF AllocsAreOwn
  <2>1. w # t /\ mm'[w] = mm[w] /\ pc[w] # "committed"
    BY <1>5, <1>12
  <2>2. QED BY <2>1 DEF MemInv, Allocs, AllocsAreOwn
<1>17. AllocsAreKept'
  BY <1>5, <1>10, <1>11, <1>12 DEF MemInv, Allocs, AllocsAreKept
<1>18. FreesAreLive'
  <2> SUFFICES ASSUME NEW w \in Task, pc'[w] \in {"running", "ended", "abort"}
               PROVE  InNow(mm'[w]) \subseteq Live \cup Own(mm'[w])
    BY <1>10 DEF FreesAreLive
  <2>1. w # t /\ mm'[w] = mm[w] /\ pc[w] = pc'[w]
    BY <1>2, <1>5 DEF Resting
  <2>2. QED BY <2>1 DEF MemInv, Allocs, FreesAreLive
<1>19. RestIsEmpty'
  BY <1>5, <1>6, <1>12 DEF MemInv, Allocs, RestIsEmpty
<1>20. OnlyRunningHold'
  BY <1>1, <1>5 DEF MemInv, Allocs, OnlyRunningHold
<1>21. \A v \in Task : Known(v)' \subseteq Known(v)
  BY <1>1, <1>5, <1>12 DEF Known
<1>22. StampsAreLate'
  <2> SUFFICES ASSUME NEW u \in Task, NEW v \in Task, NEW s \in Slots(mm'[u]), NEW x \in Nat,
                      Under(mm'[u], x, s), Ptr(mm'[u], s) \in Known(v)'
               PROVE  last_observed_ts[v] < x
    BY <1>1 DEF StampsAreLate
  <2>1. s \in Slots(mm[u]) /\ Ptr(mm[u], s) \in Known(v)
    BY <1>11, <1>21
  <2>2. CASE Under(mm[u], x, s)
    BY <2>1, <2>2 DEF MemInv, Stamps, StampsAreLate
  <2>3. CASE ~ Under(mm[u], x, s)
    <3>1. u = t /\ x = ts[t] /\ Chained(mm[t])
      BY <1>5, <1>6, <2>3 DEF m
    <3>2. QED BY <1>1, <2>1, <3>1 DEF MemInv, Stamps, StampsWillBeLate
  <2>4. QED BY <2>2, <2>3
<1>23. StampsWillBeLate'
  <2> SUFFICES ASSUME NEW u \in Task, NEW v \in Task, pc'[u] = "committed", Chained(mm'[u]),
                      NEW s \in Slots(mm'[u]), Ptr(mm'[u], s) \in Known(v)'
               PROVE  last_observed_ts[v] < ts'[u]
    BY <1>1 DEF StampsWillBeLate
  <2>1. u # t /\ mm'[u] = mm[u] /\ pc[u] = "committed" /\ ts'[u] = ts[u]
    BY <1>5
  <2>2. Ptr(mm[u], s) \in Known(v)
    BY <1>21, <2>1
  <2>3. QED BY <2>1, <2>2 DEF MemInv, Stamps, StampsWillBeLate
<1>24. StampsArePast'
  <2> SUFFICES ASSUME NEW u \in Task
               PROVE  ts'[u] <= Latest(u) /\ \A x : Stamped(mm'[u], x) => x \in Nat /\ x <= Latest(u)
    BY <1>1 DEF StampsArePast, Latest
  <2>1. /\ ts[u] \in Nat /\ ts[u] <= Latest(u) /\ Latest(u) \in Nat
        /\ \A x : Stamped(mm[u], x) => x \in Nat /\ x <= Latest(u)
    BY <1>3, ThreadClocks DEF MemInv, Stamps, StampsArePast
  <2>2. ts'[u] <= Latest(u)
    BY <1>5, <2>1
  <2>3. \A x : Stamped(mm'[u], x) => Stamped(mm[u], x) \/ x = ts[u]
    BY <1>5, <1>6 DEF m
  <2>4. QED BY <2>1, <2>2, <2>3
<1>25. EndsLate'
  BY <1>1, <1>2, <1>5 DEF MemInv, Stamps, EndsLate, Resting
<1>26. StampsAreOlder'
  <2> SUFFICES ASSUME NEW u \in Task, NEW x, Stamped(mm'[u], x),
                      (pc'[u] = "ended" /\ ~ try_commit(u)) \/ (pc'[u] = "committed" /\ Chained(mm'[u]))
               PROVE  x <= ts'[u]
    BY DEF StampsAreOlder
  <2>1. u # t /\ mm'[u] = mm[u] /\ pc[u] = pc'[u] /\ ts'[u] = ts[u]
    BY <1>2, <1>5 DEF Resting
  <2>2. QED BY <2>1 DEF MemInv, Stamps, StampsAreOlder
<1>27. QED
  BY <1>2, <1>7, <1>9, <1>13, <1>14, <1>15, <1>16, <1>17, <1>18, <1>19, <1>20, <1>22, <1>23, <1>24, <1>25, <1>26
  DEF MemInv, Blocks, Allocs, Stamps

LEMMA RestartBlocks == ASSUME MemInv, NEW t \in Task, TxRestart(t) PROVE MemInv'
<1> DEFINE m == mm[t]
           q == TxAbort(m)
<1>1. /\ pc[t] \in {"running", "abort"} /\ mm' = [mm EXCEPT ![t] = q] /\ ts' = [ts EXCEPT ![t] = 0]
      /\ pc' = [pc EXCEPT ![t] = "idle"] /\ held' = [held EXCEPT ![t] = {}]
      /\ heap' = heap \ RolledBack(m)
      /\ UNCHANGED <<born, commit_ts, valid_ts, last_observed_ts>>
  BY DEF TxRestart, Goto, epoch, world
<1>2. MinInv' /\ pc \in [Task -> Places]
  BY QuietActionStep DEF MemInv, QuietAction, MinInv, Clocks, Places
<1>3. /\ InOrder(m) /\ mm \in [Task -> Manager] /\ \A u \in Task : InOrder(mm[u])
      /\ ts \in [Task -> Nat] /\ held \in [Task -> SUBSET Block] /\ q = TxAbort(m)
  BY DEF MemInv, MemTypes
<1> HIDE DEF q
<1>4. Aborted(m, q) /\ Own(q) = {} /\ RolledBack(m) = Own(m)
  BY <1>3, AbortM DEF Own
<1>5. /\ mm'[t] = q /\ \A u \in Task \ {t} : mm'[u] = mm[u]
      /\ ts'[t] = 0 /\ \A u \in Task \ {t} : ts'[u] = ts[u]
      /\ held'[t] = {} /\ \A u \in Task \ {t} : held'[u] = held[u]
      /\ pc'[t] = "idle" /\ \A u \in Task \ {t} : pc'[u] = pc[u]
  BY <1>1, <1>2, <1>3
<1>6. /\ InOrder(q) /\ Slots(q) = Slots(m) \ NowSlots(m) /\ NowSlots(q) = {}
      /\ \A s \in Slots(q) : Ptr(q, s) = Ptr(m, s)
      /\ \A x : Stamped(q, x) <=> Stamped(m, x)
      /\ \A x, s : Under(q, x, s) => Under(m, x, s)
  BY <1>4 DEF Aborted
<1> HIDE DEF m
<1>7. MemTypes'
  <2>1. q \in Manager
    BY <1>6, SlotsTyped
  <2>2. mm' \in [Task -> Manager] /\ \A u \in Task : InOrder(mm'[u])
    BY <1>1, <1>3, <1>5, <1>6, <2>1
  <2>3. ts' \in [Task -> Nat] /\ held' \in [Task -> SUBSET Block] /\ heap' \subseteq heap
    BY <1>1, <1>3
  <2>4. QED BY <1>1, <2>2, <2>3 DEF MemInv, MemTypes
<1>8. Fewer
  BY <1>4, <1>5, <1>6 DEF Fewer, m
<1>9. PtrsDiffer' /\ AllocsDiffer'
  BY <1>8, FewerDiffer DEF MemInv, Blocks, Allocs
<1>10. Live' = Live
  BY <1>1 DEF Live
<1>11. Own(mm'[t]) = {} /\ \A u \in Task \ {t} : Own(mm'[u]) = Own(mm[u])
  BY <1>4, <1>5
<1>12. heap' = heap \ Own(mm[t]) /\ pc[t] # "committed"
  BY <1>1, <1>4 DEF m
<1>13. \A u \in Task : \A s \in Slots(mm'[u]) :
         s \in Slots(mm[u]) /\ Ptr(mm'[u], s) = Ptr(mm[u], s) /\ (u = t => s \notin NowSlots(mm[t]))
  BY <1>5, <1>6 DEF m
<1>14. OlderStamps
  BY <1>5, <1>6 DEF OlderStamps, m
\* What is freed is of no use to anybody else.
<1>15. ASSUME NEW b \in Own(mm[t])
       PROVE  /\ b \notin Live /\ \A u \in Task : b \notin held[u] /\ b \notin InFree(mm'[u])
              /\ \A u \in Task \ {t} : b \notin Own(mm[u])
  <2>1. /\ b \notin Live /\ \A u \in Task : b \notin held[u]
        /\ \A u \in Task : \A s \in Slots(mm[u]) :
             Ptr(mm[u], s) = b => u = t /\ s \in NowSlots(mm[t])
    BY <1>12 DEF MemInv, Allocs, AllocsAreOwn
  <2>2. \A u \in Task : b \notin InFree(mm'[u])
    BY <1>13, <2>1 DEF InFree
  <2>3. \A u \in Task \ {t} : b \notin Own(mm[u])
    BY DEF MemInv, Allocs, AllocsDiffer
  <2>4. QED BY <2>1, <2>2, <2>3
\* What was to be freed and no longer is can be reached again.
<1>16. ASSUME NEW u \in Task, NEW b \in InFree(mm[u])
       PROVE  b \in InFree(mm'[u]) \/ b \in Live \/ b \in Own(mm[t])
  <2>1. PICK s \in Slots(mm[u]) : b = Ptr(mm[u], s)
    BY DEF InFree
  <2>2. CASE u = t /\ s \in NowSlots(mm[t])
    <3>1. b \in InNow(mm[t])
      BY <2>1, <2>2 DEF InNow
    <3>2. QED BY <1>1, <3>1 DEF MemInv, Allocs, FreesAreLive
  <2>3. CASE ~ (u = t /\ s \in NowSlots(mm[t]))
    <3>1. s \in Slots(mm'[u])
      BY <1>5, <1>6, <2>3 DEF m
    <3>2. Ptr(mm'[u], s) = b
      BY <1>13, <2>1, <3>1
    <3>3. QED BY <3>1, <3>2 DEF InFree
  <2>4. QED BY <2>2, <2>3
<1>17. HeapHolds'
  <2> SUFFICES ASSUME NEW u \in Task
               PROVE  /\ Live \subseteq heap' /\ held'[u] \subseteq heap'
                      /\ Own(mm'[u]) \subseteq heap' /\ InFree(mm'[u]) \subseteq heap'
    BY <1>10 DEF HeapHolds
  <2>1. /\ Live \subseteq heap /\ held[u] \subseteq heap
        /\ Own(mm[u]) \subseteq heap /\ InFree(mm[u]) \subseteq heap
    BY DEF MemInv, Blocks, HeapHolds
  <2>2. InFree(mm'[u]) \subseteq InFree(mm[u])
    BY <1>13 DEF InFree
  <2>3. Live \subseteq heap' /\ InFree(mm'[u]) \subseteq heap'
    BY <1>12, <1>15, <2>1, <2>2
  <2>4. held'[u] \subseteq heap'
    BY <1>5, <1>12, <1>15, <2>1
  <2>5. Own(mm'[u]) \subseteq heap'
    BY <1>11, <1>12, <1>15, <2>1
  <2>6. QED BY <2>3, <2>4, <2>5
<1>18. NothingLost'
  <2> SUFFICES ASSUME NEW b \in heap'
               PROVE  b \in Live \/ \E u \in Task : b \in Own(mm'[u]) \/ b \in InFree(mm'[u])
    BY <1>10 DEF NothingLost
  <2>1. b \in heap /\ b \notin Own(mm[t])
    BY <1>12
  <2>2. b \in Live \/ \E u \in Task : b \in Own(mm[u]) \/ b \in InFree(mm[u])
    BY <2>1 DEF MemInv, Blocks, NothingLost
  <2>3. QED BY <1>11, <1>16, <2>1, <2>2
<1>19. FreedIsDead'
  <2> SUFFICES ASSUME NEW u \in Task, NEW s \in Slots(mm'[u]), s \notin NowSlots(mm'[u]) \/ pc'[u] = "committed"
               PROVE  Ptr(mm'[u], s) \notin Live
    BY <1>10 DEF FreedIsDead
  <2>1. s \in Slots(mm[u]) /\ Ptr(mm'[u], s) = Ptr(mm[u], s)
    BY <1>13
  <2>2. CASE u = t
    BY <1>13, <2>1, <2>2 DEF MemInv, Blocks, FreedIsDead
  <2>3. CASE u # t
    BY <1>5, <2>1, <2>3 DEF MemInv, Blocks, FreedIsDead
  <2>4. QED BY <2>2, <2>3
<1>20. AllocsAreOwn'
  <2> SUFFICES ASSUME NEW w \in Task, pc'[w] # "committed", NEW b \in Own(mm'[w])
               PROVE  /\ b \notin Live /\ \A u \in Task : b \notin held'[u]
                      /\ \A u \in Task : \A s \in Slots(mm'[u]) :
                           Ptr(mm'[u], s) = b => u = w /\ s \in NowSlots(mm'[w])
    BY <1>10 DEF AllocsAreOwn
  <2>1. w # t /\ mm'[w] = mm[w] /\ pc[w] # "committed" /\ b \in Own(mm[w])
    BY <1>5, <1>11
  <2>2. /\ b \notin Live /\ \A u \in Task : b \notin held[u]
        /\ \A u \in Task : \A s \in Slots(mm[u]) :
             Ptr(mm[u], s) = b => u = w /\ s \in NowSlots(mm[w])
    BY <2>1 DEF MemInv, Allocs, AllocsAreOwn
  <2>3. \A u \in Task : b \notin held'[u]
    BY <1>5, <2>2
  <2>4. QED BY <1>13, <2>1, <2>2, <2>3
<1>21. AllocsAreKept'
  <2> SUFFICES ASSUME NEW w \in Task, pc'[w] = "committed", NEW b \in Own(mm'[w])
               PROVE  b \in Live \/ \E u \in Task : b \in InFree(mm'[u])
    BY <1>10 DEF AllocsAreKept
  <2>1. w # t /\ pc[w] = "committed" /\ b \in Own(mm[w])
    BY <1>5
  <2>2. b \in Live \/ \E u \in Task : b \in InFree(mm[u])
    BY <2>1 DEF MemInv, Allocs, AllocsAreKept
  <2>3. b \notin Own(mm[t])
    BY <2>1 DEF MemInv, Allocs, AllocsDiffer
  <2>4. QED BY <1>16, <2>2, <2>3
<1>22. FreesAreLive'
  <2> SUFFICES ASSUME NEW w \in Task, pc'[w] \in {"running", "ended", "abort"}
               PROVE  InNow(mm'[w]) \subseteq Live \cup Own(mm'[w])
    BY <1>10 DEF FreesAreLive
  <2>1. w # t /\ mm'[w] = mm[w] /\ pc[w] = pc'[w]
    BY <1>5
  <2>2. QED BY <2>1 DEF MemInv, Allocs, FreesAreLive
<1>23. RestIsEmpty'
  BY <1>5, <1>6, <1>11 DEF MemInv, Allocs, RestIsEmpty
<1>24. OnlyRunningHold'
  BY <1>5 DEF MemInv, Allocs, OnlyRunningHold
<1>25. \A v \in Task : Known(v)' \subseteq Known(v)
  BY <1>5, <1>11 DEF Known
<1>26. StampsAreLate'
  BY <1>1, <1>8, <1>14, <1>25, FewerLate DEF MemInv, Stamps
<1>27. StampsWillBeLate'
  <2> SUFFICES ASSUME NEW u \in Task, NEW v \in Task, pc'[u] = "committed", Chained(mm'[u]),
                      NEW s \in Slots(mm'[u]), Ptr(mm'[u], s) \in Known(v)'
               PROVE  last_observed_ts[v] < ts'[u]
    BY <1>1 DEF StampsWillBeLate
  <2>1. u # t /\ mm'[u] = mm[u] /\ pc[u] = "committed" /\ ts'[u] = ts[u]
    BY <1>5
  <2>2. Ptr(mm[u], s) \in Known(v)
    BY <1>25, <2>1
  <2>3. QED BY <2>1, <2>2 DEF MemInv, Stamps, StampsWillBeLate
<1>28. StampsArePast'
  <2>1. ASSUME NEW u \in Task PROVE Latest(u) <= Latest(u)'
    <3>1. Latest(u)' = Latest(u) /\ Latest(u) \in Nat
      BY <1>1, ThreadClocks DEF MemInv, Latest
    <3>2. QED BY <3>1
  <2>2. ClocksRise
    BY <2>1 DEF ClocksRise
  <2>3. \A u \in Task : ts'[u] \in {0, ts[u]}
    BY <1>5
  <2>4. QED BY <1>2, <1>14, <2>2, <2>3, PastStays DEF StampsArePast
<1>29. EndsLate'
  BY <1>1, <1>5 DEF MemInv, Stamps, EndsLate
<1>30. StampsAreOlder'
  <2> SUFFICES ASSUME NEW u \in Task, NEW x, Stamped(mm'[u], x),
                      (pc'[u] = "ended" /\ ~ try_commit(u)) \/ (pc'[u] = "committed" /\ Chained(mm'[u]))
               PROVE  x <= ts'[u]
    BY DEF StampsAreOlder
  <2>1. u # t /\ mm'[u] = mm[u] /\ pc[u] = pc'[u] /\ ts'[u] = ts[u]
    BY <1>5
  <2>2. QED BY <2>1 DEF MemInv, Stamps, StampsAreOlder
<1>31. QED
  BY <1>2, <1>7, <1>9, <1>17, <1>18, <1>19, <1>20, <1>21, <1>22, <1>23, <1>24, <1>26, <1>27, <1>28, <1>29, <1>30
  DEF MemInv, Blocks, Allocs, Stamps

----------------------------------------------------------------------------
(* FreeDominated *)

\* A step that uses a minimum x.
Uses(t, x) ==
  /\ pc[t] \in Resting /\ UNCHANGED <<held, ts, born, commit_ts, valid_ts, last_observed_ts>>
  /\ x \in Nat /\ \A v \in Task : x <= last_observed_ts[v]

LEMMA KeepBlocks ==
  ASSUME MemInv, MinInv', NEW t \in Task, NEW x, Uses(t, x), NEW l \in Resting,
         pc' = [pc EXCEPT ![t] = l], UNCHANGED <<mm, heap>>
  PROVE  MemInv'
<1>1. /\ pc[t] \in Resting
      /\ UNCHANGED <<mm, heap, held, ts, born, commit_ts, valid_ts, last_observed_ts>>
  BY DEF Uses
<1>2. pc \in [Task -> Places] /\ pc' \in [Task -> Places]
  BY DEF MemInv, MinInv, Clocks, Places, Resting
<1>3. \A u \in Task : pc'[u] = pc[u] \/ (pc[u] \in Resting /\ pc'[u] \in Resting)
  BY <1>1, <1>2
<1>4. Aside /\ AsideObserved
  BY <1>1, <1>3 DEF Aside, AsideObserved, Resting, MemInv, Allocs, OnlyRunningHold
<1>5. Blocks' /\ Allocs' /\ StampsAreLate' /\ StampsWillBeLate'
  BY <1>1, <1>2, <1>4, AsideBlocks, AsideStamps
<1>6. MemTypes'
  BY <1>1 DEF MemInv, MemTypes
<1>7. StampsArePast'
  BY <1>1 DEF MemInv, Stamps, StampsArePast, Latest
<1>8. EndsLate' /\ StampsAreOlder'
  BY <1>1, <1>3 DEF MemInv, Stamps, EndsLate, StampsAreOlder, Resting
<1>9. QED BY <1>5, <1>6, <1>7, <1>8 DEF MemInv, Stamps

LEMMA DominateBlocks ==
  ASSUME MemInv, MinInv', NEW t \in Task, NEW x, Uses(t, x),
         pc' = [pc EXCEPT ![t] = "idle"], mm' = [mm EXCEPT ![t] = FreeDominated(mm[t], x)],
         heap' = heap \ Freed(mm[t], x)
  PROVE  MemInv'
<1> DEFINE m == mm[t]
           q == FreeDominated(m, x)
<1>1. /\ pc[t] \in Resting /\ UNCHANGED <<held, ts, born, commit_ts, valid_ts, last_observed_ts>>
      /\ x \in Nat /\ \A v \in Task : x <= last_observed_ts[v]
  BY DEF Uses
<1>2. pc \in [Task -> Places]
  BY DEF MemInv, MinInv, Clocks, Places
<1>3. /\ InOrder(m) /\ mm \in [Task -> Manager] /\ \A u \in Task : InOrder(mm[u])
      /\ q = FreeDominated(m, x)
  BY DEF MemInv, MemTypes
<1> HIDE DEF q
<1>4. Dominates(m, x, q)
  BY <1>1, <1>3, DomM
<1>5. /\ InOrder(q) /\ Slots(q) \subseteq Slots(m) /\ NowSlots(q) = NowSlots(m)
      /\ \A s \in Slots(q) : Ptr(q, s) = Ptr(m, s)
      /\ \A y : Stamped(q, y) => Stamped(m, y)
      /\ \A y, s : Under(q, y, s) => Under(m, y, s)
      /\ \A s \in Slots(m) \ Slots(q) : \E y \in Nat : y <= x /\ Under(m, y, s)
      /\ Freed(m, x) = {Ptr(m, s) : s \in Slots(m) \ Slots(q)}
      /\ Own(q) = Own(m)
  BY <1>4 DEF Dominates, Own, Pointers
<1>6. /\ mm'[t] = q /\ \A u \in Task \ {t} : mm'[u] = mm[u]
      /\ pc'[t] = "idle" /\ \A u \in Task \ {t} : pc'[u] = pc[u]
  BY <1>2, <1>3
<1>7. heap' = heap \ {Ptr(m, s) : s \in Slots(m) \ Slots(q)}
  BY <1>5
<1> HIDE DEF m
<1>8. MemTypes'
  <2>1. q \in Manager
    BY <1>5, SlotsTyped
  <2>2. mm' \in [Task -> Manager] /\ \A u \in Task : InOrder(mm'[u])
    BY <1>3, <1>5, <1>6, <2>1 DEF m
  <2>3. heap' \subseteq heap
    BY <1>7
  <2>4. QED BY <1>1, <2>2, <2>3 DEF MemInv, MemTypes
<1>9. Fewer /\ OlderStamps
  BY <1>5, <1>6 DEF Fewer, OlderStamps, m
<1>10. PtrsDiffer' /\ AllocsDiffer'
  BY <1>9, FewerDiffer DEF MemInv, Blocks, Allocs
<1>11. Live' = Live
  BY <1>1 DEF Live
<1>12. \A u \in Task : Own(mm'[u]) = Own(mm[u])
  BY <1>5, <1>6 DEF m
<1>13. \A u \in Task : \A s \in Slots(mm'[u]) :
         /\ s \in Slots(mm[u]) /\ Ptr(mm'[u], s) = Ptr(mm[u], s)
         /\ s \in NowSlots(mm'[u]) <=> s \in NowSlots(mm[u])
  BY <1>5, <1>6 DEF m
<1>14. \A u \in Task : pc'[u] = "committed" <=> pc[u] = "committed"
  BY <1>1, <1>6 DEF Resting
\* A block that is freed is of no use to anybody: every task has observed a
\* time that is not before the one the block was freed at.
<1>15. ASSUME NEW s \in Slots(m) \ Slots(q)
       PROVE  /\ Ptr(m, s) \notin Live /\ \A u \in Task : Ptr(m, s) \notin held[u]
              /\ \A u \in Task : Ptr(m, s) \notin Own(mm[u])
              /\ \A u \in Task : Ptr(m, s) \notin InFree(mm'[u])
  <2>1. PICK y \in Nat : y <= x /\ Under(m, y, s)
    BY <1>5
  <2>2. s \in Slots(mm[t]) /\ s \notin NowSlots(mm[t])
    BY <2>1, NowIsNotUnder, <1>3 DEF m
  <2>3. Ptr(m, s) \notin Live
    BY <2>2 DEF MemInv, Blocks, FreedIsDead, m
  <2>4. ASSUME NEW v \in Task, Ptr(m, s) \in Known(v) PROVE FALSE
    <3>1. last_observed_ts[v] < y
      BY <2>1, <2>2, <2>4 DEF MemInv, Stamps, StampsAreLate, m
    <3>2. last_observed_ts[v] \in Nat /\ x <= last_observed_ts[v]
      BY <1>1, ThreadClocks DEF MemInv
    <3>3. QED BY <1>1, <2>1, <3>1, <3>2
  <2>5. \A u \in Task : Ptr(m, s) \notin held[u]
    BY <2>4 DEF Known
  <2>6. ASSUME NEW u \in Task, Ptr(m, s) \in Own(mm[u]) PROVE FALSE
    <3>1. CASE pc[u] = "committed"
      BY <2>4, <2>6, <3>1 DEF Known
    <3>2. CASE pc[u] # "committed"
      <4>1. t = u /\ s \in NowSlots(mm[u])
        BY <2>2, <2>6, <3>2 DEF MemInv, Allocs, AllocsAreOwn, m
      <4>2. QED BY <2>2, <4>1
    <3>3. QED BY <3>1, <3>2
  <2>7. ASSUME NEW u \in Task, Ptr(m, s) \in InFree(mm'[u]) PROVE FALSE
    <3>1. PICK r \in Slots(mm'[u]) : Ptr(mm'[u], r) = Ptr(m, s)
      BY <2>7 DEF InFree
    <3>2. r \in Slots(mm[u]) /\ Ptr(mm[u], r) = Ptr(mm[t], s)
      BY <1>13, <3>1 DEF m
    <3>3. u = t /\ r = s
      BY <2>2, <3>2 DEF MemInv, Blocks, PtrsDiffer
    <3>4. QED BY <1>6, <3>1, <3>3
  <2>8. QED BY <2>3, <2>5, <2>6, <2>7
<1>16. ASSUME NEW u \in Task, NEW b \in InFree(mm[u])
       PROVE  b \in InFree(mm'[u]) \/ \E s \in Slots(m) \ Slots(q) : b = Ptr(m, s)
  <2>1. PICK s \in Slots(mm[u]) : b = Ptr(mm[u], s)
    BY DEF InFree
  <2>2. CASE s \in Slots(mm'[u])
    BY <1>13, <2>1, <2>2 DEF InFree
  <2>3. CASE s \notin Slots(mm'[u])
    BY <1>6, <2>1, <2>3 DEF m
  <2>4. QED BY <2>2, <2>3
<1>17. HeapHolds'
  <2> SUFFICES ASSUME NEW u \in Task
               PROVE  /\ Live \subseteq heap' /\ held[u] \subseteq heap'
                      /\ Own(mm[u]) \subseteq heap' /\ InFree(mm'[u]) \subseteq heap'
    BY <1>1, <1>11, <1>12 DEF HeapHolds
  <2>1. /\ Live \subseteq heap /\ held[u] \subseteq heap
        /\ Own(mm[u]) \subseteq heap /\ InFree(mm[u]) \subseteq heap
    BY DEF MemInv, Blocks, HeapHolds
  <2>2. InFree(mm'[u]) \subseteq InFree(mm[u])
    BY <1>13 DEF InFree
  <2>3. Live \subseteq heap'
    BY <1>7, <1>15, <2>1
  <2>4. held[u] \subseteq heap'
    BY <1>7, <1>15, <2>1
  <2>5. Own(mm[u]) \subseteq heap'
    BY <1>7, <1>15, <2>1
  <2>6. InFree(mm'[u]) \subseteq heap'
    BY <1>7, <1>15, <2>1, <2>2
  <2>7. QED BY <2>3, <2>4, <2>5, <2>6
<1>18. NothingLost'
  <2> SUFFICES ASSUME NEW b \in heap'
               PROVE  b \in Live \/ \E u \in Task : b \in Own(mm[u]) \/ b \in InFree(mm'[u])
    BY <1>11, <1>12 DEF NothingLost
  <2>1. b \in heap /\ \A s \in Slots(m) \ Slots(q) : b # Ptr(m, s)
    BY <1>7
  <2>2. b \in Live \/ \E u \in Task : b \in Own(mm[u]) \/ b \in InFree(mm[u])
    BY <2>1 DEF MemInv, Blocks, NothingLost
  <2>3. QED BY <1>16, <2>1, <2>2
<1>19. FreedIsDead'
  <2> SUFFICES ASSUME NEW u \in Task, NEW s \in Slots(mm'[u]), s \notin NowSlots(mm'[u]) \/ pc'[u] = "committed"
               PROVE  Ptr(mm'[u], s) \notin Live
    BY <1>11 DEF FreedIsDead
  <2>1. /\ s \in Slots(mm[u]) /\ Ptr(mm'[u], s) = Ptr(mm[u], s)
        /\ s \notin NowSlots(mm[u]) \/ pc[u] = "committed"
    BY <1>13, <1>14
  <2>2. QED BY <2>1 DEF MemInv, Blocks, FreedIsDead
<1>20. AllocsAreOwn'
  <2> SUFFICES ASSUME NEW w \in Task, pc'[w] # "committed", NEW b \in Own(mm[w])
               PROVE  /\ b \notin Live /\ \A u \in Task : b \notin held[u]
                      /\ \A u \in Task : \A s \in Slots(mm'[u]) :
                           Ptr(mm'[u], s) = b => u = w /\ s \in NowSlots(mm'[w])
    BY <1>1, <1>11, <1>12 DEF AllocsAreOwn
  <2>1. pc[w] # "committed"
    BY <1>14
  <2>2. /\ b \notin Live /\ \A u \in Task : b \notin held[u]
        /\ \A u \in Task : \A s \in Slots(mm[u]) :
             Ptr(mm[u], s) = b => u = w /\ s \in NowSlots(mm[w])
    BY <2>1 DEF MemInv, Allocs, AllocsAreOwn
  <2>3. QED BY <1>13, <2>2
<1>21. AllocsAreKept'
  <2> SUFFICES ASSUME NEW w \in Task, pc'[w] = "committed", NEW b \in Own(mm[w])
               PROVE  b \in Live \/ \E u \in Task : b \in InFree(mm'[u])
    BY <1>11, <1>12 DEF AllocsAreKept
  <2>1. pc[w] = "committed"
    BY <1>14
  <2>2. b \in Live \/ \E u \in Task : b \in InFree(mm[u])
    BY <2>1 DEF MemInv, Allocs, AllocsAreKept
  <2>3. \A s \in Slots(m) \ Slots(q) : b # Ptr(m, s)
    BY <1>15
  <2>4. QED BY <1>16, <2>2, <2>3
<1>22. FreesAreLive'
  <2> SUFFICES ASSUME NEW w \in Task, pc'[w] \in {"running", "ended", "abort"}
               PROVE  InNow(mm'[w]) \subseteq Live \cup Own(mm'[w])
    BY <1>11 DEF FreesAreLive
  <2>1. w # t /\ mm'[w] = mm[w] /\ pc[w] = pc'[w]
    BY <1>6
  <2>2. QED BY <2>1 DEF MemInv, Allocs, FreesAreLive
<1>23. RestIsEmpty'
  <2>1. NowSlots(mm[t]) = {} /\ Own(mm[t]) = {}
    BY <1>1 DEF MemInv, Allocs, RestIsEmpty
  <2>2. NowSlots(mm'[t]) = {} /\ Own(mm'[t]) = {}
    BY <1>5, <1>6, <2>1 DEF m
  <2>3. QED BY <1>6, <2>2 DEF MemInv, Allocs, RestIsEmpty
<1>24. OnlyRunningHold'
  BY <1>1, <1>6 DEF MemInv, Allocs, OnlyRunningHold, Resting
<1>25. \A v \in Task : Known(v)' \subseteq Known(v)
  BY <1>1, <1>12, <1>14 DEF Known
<1>26. StampsAreLate'
  BY <1>1, <1>9, <1>25, FewerLate DEF MemInv, Stamps
<1>27. StampsWillBeLate'
  <2> SUFFICES ASSUME NEW u \in Task, NEW v \in Task, pc'[u] = "committed", Chained(mm'[u]),
                      NEW s \in Slots(mm'[u]), Ptr(mm'[u], s) \in Known(v)'
               PROVE  last_observed_ts[v] < ts[u]
    BY <1>1 DEF StampsWillBeLate
  <2>1. u # t /\ mm'[u] = mm[u] /\ pc[u] = "committed"
    BY <1>6
  <2>2. Ptr(mm[u], s) \in Known(v)
    BY <1>25, <2>1
  <2>3. QED BY <2>1, <2>2 DEF MemInv, Stamps, StampsWillBeLate
<1>28. StampsArePast'
  <2>1. ASSUME NEW u \in Task PROVE Latest(u) <= Latest(u)'
    <3>1. Latest(u)' = Latest(u) /\ Latest(u) \in Nat
      BY <1>1, ThreadClocks DEF MemInv, Latest
    <3>2. QED BY <3>1
  <2>2. ClocksRise
    BY <2>1 DEF ClocksRise
  <2>3. \A u \in Task : ts'[u] \in {0, ts[u]}
    BY <1>1
  <2>4. QED BY <1>9, <2>2, <2>3, PastStays DEF StampsArePast
<1>29. EndsLate'
  BY <1>1, <1>6 DEF MemInv, Stamps, EndsLate
<1>30. StampsAreOlder'
  <2> SUFFICES ASSUME NEW u \in Task, NEW y, Stamped(mm'[u], y),
                      (pc'[u] = "ended" /\ ~ try_commit(u)) \/ (pc'[u] = "committed" /\ Chained(mm'[u]))
               PROVE  y <= ts[u]
    BY <1>1 DEF StampsAreOlder
  <2>1. u # t /\ mm'[u] = mm[u] /\ pc[u] = pc'[u]
    BY <1>6
  <2>2. QED BY <2>1 DEF MemInv, Stamps, StampsAreOlder
<1>31. QED
  BY <1>8, <1>10, <1>17, <1>18, <1>19, <1>20, <1>21, <1>22, <1>23, <1>24, <1>26, <1>27, <1>28, <1>29, <1>30
  DEF MemInv, Blocks, Allocs, Stamps

LEMMA UseBlocks ==
  ASSUME MemInv, MinInv', NEW t \in Task, NEW x, Uses(t, x), NEW l \in {"idle", "update_minimum"},
         Use(t, x, l)
  PROVE  MemInv'
<1>1. l \in Resting
  BY DEF Resting
<1>2. CASE pc' = [pc EXCEPT ![t] = l] /\ UNCHANGED <<mm, heap>>
  BY <1>1, <1>2, KeepBlocks
<1>3. CASE /\ mm' = [mm EXCEPT ![t] = FreeDominated(mm[t], x)]
           /\ heap' = heap \ Freed(mm[t], x) /\ pc' = [pc EXCEPT ![t] = "idle"]
  BY <1>3, DominateBlocks
<1>4. QED BY <1>2, <1>3 DEF Use, Goto

LEMMA MinimumBlocks ==
  ASSUME MemInv, NEW t \in Task, GetMinimumObservedTs(t) \/ MinimumLocked(t) \/ StoreMinimum(t)
  PROVE  MemInv'
<1>1. CASE GetMinimumObservedTs(t) \/ MinimumLocked(t)
  <2>1. MinInv'
    BY <1>1, QuietActionStep DEF MemInv, QuietAction
  <2>2. Uses(t, minimum_observed_ts)
    BY <1>1 DEF Uses, GetMinimumObservedTs, MinimumLocked, Resting, epoch, world,
                MemInv, MinInv, Clocks, MinimumIsLeast
  <2>3. \E l \in {"idle", "update_minimum"} : Use(t, minimum_observed_ts, l)
    BY <1>1 DEF GetMinimumObservedTs, MinimumLocked
  <2>4. QED BY <2>1, <2>2, <2>3, UseBlocks
<1>2. CASE StoreMinimum(t)
  <2>1. MinInv'
    BY <1>2, StoreStep DEF MemInv
  <2> DEFINE x == scan[t].minimum_ts
  <2>2. /\ pc[t] = "scan" /\ scan[t].i \notin Task /\ Use(t, x, "idle")
        /\ UNCHANGED <<held, ts, born, commit_ts, valid_ts, last_observed_ts>>
    BY <1>2 DEF StoreMinimum, epoch, world
  <2>3. x \in Nat /\ \A v \in Task : x <= last_observed_ts[v]
    <3>1. scan[t].i = Threads * SpecDepth
      BY <2>2, Counts DEF MemInv, MinInv, ScanIsLeast, Task
    <3>2. \A v \in Task : v < scan[t].i
      BY <3>1, Counts DEF Task
    <3>3. QED BY <2>2, <3>2 DEF MemInv, MinInv, Clocks, ScanIsLeast
  <2>4. Uses(t, x)
    BY <2>2, <2>3 DEF Uses, Resting
  <2>5. QED BY <2>1, <2>2, <2>4, UseBlocks
<1>3. QED BY <1>1, <1>2

----------------------------------------------------------------------------
(* The blocks, in every state *)

LEMMA MemInit == Init => MemInv
<1> SUFFICES ASSUME Init PROVE MemInv
  OBVIOUS
<1>1. MinInv
  BY MinInit
<1>2. /\ mm = [t \in Task |-> InitialManager] /\ pc = [t \in Task |-> "idle"]
      /\ held = [t \in Task |-> {}] /\ ts = [t \in Task |-> 0] /\ heap = InitLive
      /\ born = [b \in Block |-> IF b \in InitLive THEN 1 ELSE 0] /\ InitLive \subseteq Block
  BY MemoryAssumption DEF Init
<1>3. \A t \in Task : /\ InOrder(mm[t]) /\ mm[t] \in Manager /\ Slots(mm[t]) = {} /\ NowSlots(mm[t]) = {}
                      /\ Own(mm[t]) = {} /\ InFree(mm[t]) = {} /\ InNow(mm[t]) = {}
                      /\ \A x : ~ Stamped(mm[t], x)
  BY <1>2, InitialIsOrdered, SlotsTyped DEF InFree, InNow
<1>4. \A t \in Task : pc[t] = "idle" /\ held[t] = {} /\ ts[t] = 0
  BY <1>2
<1>5. Live = InitLive
  BY <1>2 DEF Live
<1>6. MemTypes
  <2>1. mm \in [Task -> Manager]
    BY <1>2, <1>3
  <2>2. held \in [Task -> SUBSET Block] /\ ts \in [Task -> Nat] /\ born \in [Block -> Nat]
    BY <1>2
  <2>3. QED BY <1>2, <1>3, <2>1, <2>2 DEF MemTypes
<1>7. Blocks
  BY <1>2, <1>3, <1>4, <1>5 DEF Blocks, HeapHolds, NothingLost, PtrsDiffer, FreedIsDead
<1>8. Allocs
  BY <1>3, <1>4 DEF Allocs, AllocsAreOwn, AllocsDiffer, AllocsAreKept, FreesAreLive, RestIsEmpty,
                    OnlyRunningHold
<1>9. StampsAreLate /\ StampsWillBeLate /\ EndsLate /\ StampsAreOlder
  BY <1>3, <1>4 DEF StampsAreLate, StampsWillBeLate, EndsLate, StampsAreOlder
<1>10. StampsArePast
  <2>1. \A t \in Task : 0 <= Latest(t)
    BY <1>1, ThreadClocks
  <2>2. QED BY <1>3, <1>4, <2>1 DEF StampsArePast
<1>11. QED BY <1>1, <1>6, <1>7, <1>8, <1>9, <1>10 DEF MemInv, Stamps

LEMMA MemStutter == ASSUME MemInv, UNCHANGED vars PROVE MemInv'
<1>1. UNCHANGED <<mm, pc, held, ts, last_observed_ts, heap, born, commit_ts, valid_ts>>
  BY DEF vars, epoch, world
<1>2. MinInv' /\ pc \in [Task -> Places]
  BY MinStep DEF MemInv, MinInv, Clocks, Places
<1>3. Aside /\ AsideObserved
  BY <1>1 DEF Aside, AsideObserved, MemInv, Allocs, OnlyRunningHold
<1>4. Blocks' /\ Allocs' /\ StampsAreLate' /\ StampsWillBeLate'
  BY <1>1, <1>2, <1>3, AsideBlocks, AsideStamps
<1>5. MemTypes'
  BY <1>1 DEF MemInv, MemTypes
<1>6. StampsArePast' /\ EndsLate' /\ StampsAreOlder'
  BY <1>1 DEF MemInv, Stamps, StampsArePast, Latest, EndsLate, StampsAreOlder
<1>7. QED BY <1>2, <1>4, <1>5, <1>6 DEF MemInv, Stamps

LEMMA MemStep ==
  ASSUME MaxAlloc < Size, OneAtATime PROVE MemInv /\ [Next]_vars => MemInv'
<1> SUFFICES ASSUME MemInv, [Next]_vars PROVE MemInv'
  OBVIOUS
<1>1. CASE UNCHANGED vars
  BY <1>1, MemStutter
<1>2. ASSUME NEW t \in Task, TxStart(t) \/ TxTryCommit(t) \/ RollbackTransaction(t) PROVE MemInv'
  BY <1>2, StartBlocks, TryCommitBlocks, RollbackBlocks
<1>3. ASSUME NEW t \in Task, TxMalloc(t) \/ TxFree(t) PROVE MemInv'
  BY <1>3, MallocBlocks, FreeBlocks
<1>4. ASSUME NEW t \in Task, Commit(t) PROVE MemInv'
  BY <1>4, CommitBlocks
<1>5. ASSUME NEW t \in Task, ManagerCommit(t) \/ TxRestart(t) PROVE MemInv'
  BY <1>5, ManagerCommitBlocks, RestartBlocks
<1>6. ASSUME NEW t \in Task, TryLockMinimum(t) \/ ScanObservedTs(t) PROVE MemInv'
  BY <1>6, ScanBlocks
<1>7. ASSUME NEW t \in Task, GetMinimumObservedTs(t) \/ MinimumLocked(t) \/ StoreMinimum(t) PROVE MemInv'
  BY <1>7, MinimumBlocks
<1>8. ASSUME NEW p \in Thread, Extend(p) PROVE MemInv'
  BY <1>8, ExtendBlocks
<1>9. QED BY <1>1, <1>2, <1>3, <1>4, <1>5, <1>6, <1>7, <1>8 DEF Next, Thread

----------------------------------------------------------------------------
(* Theorems *)

\* As long as a transaction allocates less than a buffer holds, and there is one
\* program thread or one task to a transaction, the managers keep their lists
\* in order and know every block.
THEOREM MemoryInvariant ==
  ASSUME MaxAlloc < Size, Threads = 1 \/ SpecDepth = 1 PROVE Spec => []MemInv
<1>1. MemInv /\ [Next]_vars => MemInv'
  BY MemStep DEF OneAtATime
<1>2. QED BY MemInit, <1>1, PTL DEF Spec

\* No block is freed that somebody may still use: FreeDominated frees what every
\* task has observed a later time than, and TxAbort what nobody else has seen.
THEOREM NothingDangles ==
  ASSUME MaxAlloc < Size, Threads = 1 \/ SpecDepth = 1 PROVE Spec => []NoDangling
<1>1. MemInv => NoDangling
  BY ViewsOfAll DEF MemInv, Blocks, HeapHolds, NoDangling
<1>2. QED BY MemoryInvariant, <1>1, PTL

\* No block is freed twice: it is in one place of one buffer.
THEOREM NothingIsFreedTwice ==
  ASSUME MaxAlloc < Size, Threads = 1 \/ SpecDepth = 1 PROVE Spec => []FreedOnce
<1>1. ASSUME MemInv PROVE FreedOnce
  <2>1. ASSUME NEW t \in Task PROVE Cardinality(InFreeSlots(t)) = Cardinality(FreeSlots(t))
    <3> DEFINE f == [s \in Slots(mm[t]) |-> Ptr(mm[t], s)]
    <3>1. f \in Bijection(Slots(mm[t]), InFree(mm[t]))
      <4>1. \A s, r \in Slots(mm[t]) : Ptr(mm[t], s) = Ptr(mm[t], r) => s = r
        BY <1>1 DEF MemInv, Blocks, PtrsDiffer
      <4>2. QED BY <4>1 DEF InFree, Bijection, Injection, Surjection, IsInjective
    <3>2. ExistsBijection(Slots(mm[t]), InFree(mm[t]))
      BY <3>1 DEF ExistsBijection
    <3>3. IsFiniteSet(Slots(mm[t]))
      BY <1>1, SlotsTyped DEF MemInv, MemTypes
    <3>4. Cardinality(InFree(mm[t])) = Cardinality(Slots(mm[t]))
      BY <3>2, <3>3, FS_Bijection
    <3>5. QED BY <1>1, <3>4, ViewsOfAll
  <2>2. ASSUME NEW t \in Task, NEW u \in Task, t # u PROVE InFree(mm[t]) \cap InFree(mm[u]) = {}
    BY <1>1, <2>2 DEF MemInv, Blocks, PtrsDiffer, InFree
  <2>3. \A t, u \in Task : t # u => InFreeSlots(t) \cap InFreeSlots(u) = {}
    BY <1>1, <2>2, ViewsOfAll
  <2>4. QED BY <2>1, <2>3 DEF FreedOnce
<1>2. MemInv => FreedOnce
  BY <1>1
<1>3. QED BY MemoryInvariant, <1>2, PTL

\* No block is lost: it can be reached, or its owner frees it some day.
THEOREM NothingIsLost ==
  ASSUME MaxAlloc < Size, Threads = 1 \/ SpecDepth = 1 PROVE Spec => []NoLeak
<1>1. ASSUME MemInv PROVE NoLeak
  <2>1. \A b \in heap : b \in Live \/ \E t \in Task : b \in Allocated(t) \cup InFreeSlots(t)
    BY <1>1, ViewsOfAll DEF MemInv, Blocks, NothingLost
  <2>2. \A b \in heap : b \in Live \/ b \in UNION {Allocated(t) \cup InFreeSlots(t) : t \in Task}
    BY <2>1
  <2>3. QED BY <2>2 DEF NoLeak
<1>2. MemInv => NoLeak
  BY <1>1
<1>3. QED BY MemoryInvariant, <1>2, PTL

\* FreeDominated may take the rest of the list with the first buffer that is
\* dominated: timestamps fall along it.
THEOREM ListFalls ==
  ASSUME MaxAlloc < Size, Threads = 1 \/ SpecDepth = 1 PROVE Spec => []OldestLast
<1>1. ASSUME MemInv PROVE OldestLast
  <2>1. ASSUME NEW t \in Task, NEW i \in Chain(mm[t], mm[t].freed_logically), NEW j \in Chain(mm[t], i),
               mm[t].buf[i].init_ts, mm[t].buf[j].init_ts
        PROVE  mm[t].buf[j].ts <= mm[t].buf[i].ts
    <3>1. InOrder(mm[t]) /\ i \in Stored(mm[t])
      BY <1>1 DEF MemInv, MemTypes, Stored
    <3>2. QED BY <2>1, <3>1, OldestLastOf
  <2>2. QED BY <2>1 DEF OldestLast
<1>2. MemInv => OldestLast
  BY <1>1
<1>3. QED BY MemoryInvariant, <1>2, PTL

=============================================================================
