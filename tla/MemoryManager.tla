--------------------------- MODULE MemoryManager ---------------------------
(***************************************************************************)
(* Epoch-based reclamation (stm/memory/memory_impl.h, built with MM_EPOCH, *)
(* and the observed timestamps of stm/transaction_mixinv.h).  Every task   *)
(* descriptor has a manager that logs what its task allocates and frees in *)
(* chained buffers.  What a transaction allocated is freed if it aborts;   *)
(* what it freed is stamped and freed once every task has been seen to     *)
(* start at a later timestamp.                                             *)
(*                                                                         *)
(* A manager is only touched by its own task, so that TxCommit, TxAbort    *)
(* and the like are one step each; the timestamps the tasks share are      *)
(* loaded and stored one at a time.  Of the transactions themselves only   *)
(* what the manager depends on is left: which blocks a task can hold a     *)
(* pointer to, and which are reachable in committed memory.                *)
(***************************************************************************)
EXTENDS Integers, FiniteSets, Sequences

CONSTANTS
  Threads,    \* number of program threads
  SpecDepth,  \* tasks per transaction
  Block,      \* the addresses malloc returns
  InitLive,   \* the blocks reachable at the start
  Writer,     \* the tasks that allocate and free; the others only read and write
  Size,       \* SIZE: pointers per buffer
  Buffers,    \* bound: buffers a manager allocates
  Frequency,  \* UPDATE_LOCAL_LAST_OBSERVED_TS_FREQUENCY
  MaxAlloc,   \* bound: allocations of a task
  MaxTs       \* bound: commit timestamps

MINIMUM_TS == 0
NULL == 0

Task == 0 .. Threads * SpecDepth - 1   \* tid, the index into transactions
prog_thread_id(t) == t \div SpecDepth
Siblings(t) == {u \in Task : prog_thread_id(u) = prog_thread_id(t)}
try_commit(t) == t % SpecDepth = SpecDepth - 1

ASSUME MemoryAssumption ==
  /\ Threads \in Nat \ {0} /\ SpecDepth \in Nat \ {0}
  /\ Size \in Nat \ {0} /\ Buffers \in Nat \ {0, 1}
  /\ Frequency \in Nat /\ MaxAlloc \in Nat /\ MaxTs \in Nat \ {0}
  /\ InitLive \subseteq Block /\ Writer \subseteq Task

VARIABLES
  mm,                   \* the MemoryManager of each task
  pc,                   \* what each task is doing
  held,                 \* blocks a task may have reached in its transaction
  ts,                   \* local ts of TxTryCommit
  last_observed_ts,     \* and start_count, per task
  start_count,
  minimum_observed_ts,
  scan,                 \* locals i and minimum_ts of UpdateMinimumObservedTs
  heap,                 \* blocks that malloc has handed out and free has not taken
  born,                 \* the commit that made a block reachable; 0: not reachable
  commit_ts,            \* the global clock
  valid_ts              \* per program thread

epoch == <<last_observed_ts, start_count>>
minimum == <<minimum_observed_ts, scan>>
world == <<born, commit_ts, valid_ts>>
vars == <<mm, pc, held, ts, epoch, minimum, heap, world>>

Live == {b \in Block : born[b] > 0}

----------------------------------------------------------------------------
(* Buffers.  next_ptr is the length of ptrs. *)

CleanBuffer == [ptrs |-> <<>>, rollback_next_ptr |-> 0, ts |-> 0,
                init_ts |-> FALSE, next |-> NULL, prev |-> NULL]

\* ThreadInit: a buffer for frees and a buffer for allocations.
InitialManager ==
  [freed_in_tx |-> 1, freed_in_tx_old |-> 1,
   alloced_in_tx |-> 2, alloced_in_tx_old |-> 2,
   freed_logically |-> NULL, reusable |-> NULL,
   last_minimum_ts |-> MINIMUM_TS,
   allocated |-> 2,   \* AllocatePtrBuffer's calls so far
   buf |-> [i \in 1 .. Buffers |-> CleanBuffer]]

Pointers(m, i) == {m.buf[i].ptrs[k] : k \in DOMAIN m.buf[i].ptrs}

\* The buffers reached from i by next.
Chain(m, i) ==
  LET reach[n \in 0 .. Buffers] ==
        IF n = 0 THEN {i} \ {NULL}
        ELSE reach[n - 1] \cup ({m.buf[j].next : j \in reach[n - 1]} \ {NULL})
  IN reach[Buffers]

\* Fault: the chain goes to the end of the list.
PutAtEnd(m, list, first, last) ==
  LET end == CHOOSE i \in Chain(m, m[list]) : m.buf[i].next = NULL
  IN IF m[list] = NULL
     THEN [m EXCEPT ![list] = first, !.buf[last].next = NULL, !.buf[first].prev = NULL]
     ELSE [m EXCEPT !.buf[end].next = first, !.buf[first].prev = end, !.buf[last].next = NULL]

\* PutReusable and PutFreedLogically: the chain from first to last goes in
\* front of a list.
PutInFront(m, list, first, last) ==
  [m EXCEPT ![list] = first,
            !.buf = [i \in DOMAIN m.buf |->
              [m.buf[i] EXCEPT
                !.next = IF i = last THEN m[list] ELSE @,
                !.prev = IF i = first THEN NULL ELSE IF i = m[list] THEN last ELSE @]]]

\* The bound on buffers leaves one for this pointer.
MayRemember(m, list) ==
  Len(m.buf[m[list]].ptrs) + 1 < Size \/ m.reusable # NULL \/ m.allocated < Buffers
CleanPtrBuffer(m) == IF m.reusable # NULL THEN m.reusable ELSE m.allocated + 1

\* GetCleanPtrBuffer takes the first reusable buffer, or allocates one.
GetCleanPtrBuffer(m) ==
  LET taken == m.reusable
      next == m.buf[taken].next
  IN IF taken = NULL THEN [m EXCEPT !.allocated = @ + 1]
     ELSE [m EXCEPT !.reusable = next,
                    !.buf = [i \in DOMAIN m.buf |->
                      IF i = taken THEN CleanBuffer
                      ELSE [m.buf[i] EXCEPT !.prev = IF i = next THEN NULL ELSE @]]]

\* TxMalloc and TxFree: log a pointer in the last buffer of a list, and
\* chain a new one behind it when it is full.
Remember(m, list, ptr) ==
  LET last == m[list]
      logged == [m EXCEPT !.buf[last].ptrs = Append(@, ptr)]
      clean == CleanPtrBuffer(logged)
      taken == GetCleanPtrBuffer(logged)
  IN IF Len(logged.buf[last].ptrs) < Size THEN logged
     ELSE [taken EXCEPT !.buf[last].next = clean, !.buf[clean].prev = last,
                        ![list] = clean]

----------------------------------------------------------------------------
(* The end of a transaction *)

\* Fault: the first buffer keeps its pointers.
ForgetFurtherAllocations(m) ==
  LET old == m.alloced_in_tx_old
  IN IF old = m.alloced_in_tx THEN m
     ELSE [PutInFront(m, "reusable", m.buf[old].next, m.alloced_in_tx)
             EXCEPT !.alloced_in_tx = old]

ForgetAllocations(m) ==
  LET old == m.alloced_in_tx_old
      back == IF old = m.alloced_in_tx THEN m
              ELSE [PutInFront(m, "reusable", m.buf[old].next, m.alloced_in_tx)
                      EXCEPT !.alloced_in_tx = old]
  IN [back EXCEPT !.buf[old].ptrs = <<>>]

\* TxCommit, up to FreeDominated: deletions are stored, and stamped when
\* they fill a buffer.
TxCommit(m, timestamp) ==
  LET forgot == ForgetAllocations(m)
      kept == [forgot EXCEPT !.buf[m.freed_in_tx].rollback_next_ptr =
                               Len(forgot.buf[m.freed_in_tx].ptrs)]
      old == m.freed_in_tx_old
      stamped == [kept EXCEPT !.buf[old].ts = timestamp, !.buf[old].init_ts = TRUE]
  IN IF old = m.freed_in_tx THEN kept
     ELSE [PutInFront(stamped, "freed_logically", old, m.buf[m.freed_in_tx].prev)
             EXCEPT !.freed_in_tx_old = m.freed_in_tx]

\* Fault: the first buffer is not rolled back.
ForgetFurtherDeallocations(m) ==
  LET old == m.freed_in_tx_old
  IN IF old = m.freed_in_tx THEN m
     ELSE [PutInFront(m, "reusable", m.buf[old].next, m.freed_in_tx)
             EXCEPT !.freed_in_tx = old]

ForgetDeallocations(m) ==
  LET old == m.freed_in_tx_old
      back == [m EXCEPT !.buf[old].ptrs = SubSeq(@, 1, m.buf[old].rollback_next_ptr)]
  IN IF old = m.freed_in_tx THEN back
     ELSE [PutInFront(back, "reusable", m.buf[old].next, m.freed_in_tx)
             EXCEPT !.freed_in_tx = old]

\* What TxAbort frees.
RolledBack(m) ==
  LET back == ForgetDeallocations(m)
  IN UNION {Pointers(back, i) : i \in Chain(back, m.alloced_in_tx_old)}

TxAbort(m) == ForgetAllocations(ForgetDeallocations(m))

----------------------------------------------------------------------------
(* FreeDominated *)

\* The dominated buffers: those from the first one stamped at or before
\* the minimum.
Dominated(m, timestamp) ==
  {j \in Chain(m, m.freed_logically) :
     \E i \in Chain(m, m.freed_logically) :
       m.buf[i].init_ts /\ m.buf[i].ts <= timestamp /\ j \in Chain(m, i)}

\* Fault: the buffers in front of the dominated ones are given up with them.
FreeDominatedCutsAll(m, timestamp) ==
  LET dominated == Dominated(m, timestamp)
      first == CHOOSE i \in dominated : dominated \subseteq Chain(m, i)
      last == CHOOSE i \in dominated : m.buf[i].next = NULL
      known == [m EXCEPT !.last_minimum_ts = timestamp]
  IN IF dominated = {} THEN known
     ELSE PutInFront([known EXCEPT !.freed_logically = NULL], "reusable", first, last)

\* The rest of FreeDominated once a new minimum is known.
FreeDominated(m, timestamp) ==
  LET dominated == Dominated(m, timestamp)
      first == CHOOSE i \in dominated : dominated \subseteq Chain(m, i)
      last == CHOOSE i \in dominated : m.buf[i].next = NULL
      prev == m.buf[first].prev
      known == [m EXCEPT !.last_minimum_ts = timestamp]
      cut == IF prev = NULL THEN [known EXCEPT !.freed_logically = NULL]
             ELSE [known EXCEPT !.buf[prev].next = NULL]
  IN IF dominated = {} THEN known ELSE PutInFront(cut, "reusable", first, last)

Freed(m, timestamp) == UNION {Pointers(m, i) : i \in Dominated(m, timestamp)}

----------------------------------------------------------------------------
(* Blocks a manager knows *)

\* The buffers of a log of this transaction.
Log(m, old, last) == IF m[old] = m[last] THEN {m[last]} ELSE Chain(m, m[old])
FreeLog(t) == Log(mm[t], "freed_in_tx_old", "freed_in_tx")

Allocated(t) == UNION {Pointers(mm[t], i) :
                  i \in Log(mm[t], "alloced_in_tx_old", "alloced_in_tx")}

\* The places that hold a pointer which its owner will free: <<buffer, index>>.
FreeSlots(t) == {s \in (FreeLog(t) \cup Chain(mm[t], mm[t].freed_logically)) \X (1 .. Size) :
                   s[2] \in DOMAIN mm[t].buf[s[1]].ptrs}
InFreeSlots(t) == {mm[t].buf[s[1]].ptrs[s[2]] : s \in FreeSlots(t)}

\* Those of the transaction that is running.
FreedNow(t) ==
  {mm[t].buf[s[1]].ptrs[s[2]] : s \in
     {s \in FreeLog(t) \X (1 .. Size) :
        /\ s[2] \in DOMAIN mm[t].buf[s[1]].ptrs
        /\ s[1] = mm[t].freed_in_tx_old => s[2] > mm[t].buf[s[1]].rollback_next_ptr}}

----------------------------------------------------------------------------
(* Tasks and their transactions *)

Init ==
  /\ mm = [t \in Task |-> InitialManager]
  /\ pc = [t \in Task |-> "idle"]
  /\ held = [t \in Task |-> {}]
  /\ ts = [t \in Task |-> 0]
  /\ last_observed_ts = [t \in Task |-> MINIMUM_TS]
  /\ start_count = [t \in Task |-> 0]
  /\ minimum_observed_ts = MINIMUM_TS
  /\ scan = [t \in Task |-> [i |-> 0, minimum_ts |-> 0]]
  /\ heap = InitLive
  /\ born = [b \in Block |-> IF b \in InitLive THEN 1 ELSE 0]
  /\ commit_ts = MINIMUM_TS + 1
  /\ valid_ts = [p \in 0 .. Threads - 1 |-> MINIMUM_TS + 1]

Goto(t, l) == pc' = [pc EXCEPT ![t] = l]

\* TxStart and UpdateLastObservedTs.  From here on the task can reach what
\* is reachable and was so at valid_ts.
TxStart(t) ==
  LET now == valid_ts[prog_thread_id(t)]
      update == start_count[t] + 1 >= Frequency
  IN /\ pc[t] = "idle"
     /\ Goto(t, "running")
     /\ held' = [held EXCEPT ![t] = {b \in Live : born[b] <= now}]
     /\ last_observed_ts' = [last_observed_ts EXCEPT ![t] = IF update THEN now - 1 ELSE @]
     /\ start_count' = [start_count EXCEPT ![t] = IF update THEN 0 ELSE @ + 1]
     /\ UNCHANGED <<mm, ts, minimum, heap, world>>

\* Extend, by the task or the validator: what the tasks have read is valid
\* now, and they go on from there.
Extend(p) ==
  /\ valid_ts[p] < commit_ts
  /\ valid_ts' = [valid_ts EXCEPT ![p] = commit_ts]
  /\ held' = [t \in Task |-> IF prog_thread_id(t) = p /\ pc[t] = "running" THEN Live ELSE held[t]]
  /\ UNCHANGED <<mm, pc, ts, epoch, minimum, heap, born, commit_ts>>

\* malloc may return any address that is free.
TxMalloc(t) ==
  /\ pc[t] = "running" /\ t \in Writer
  /\ Cardinality(Allocated(t)) < MaxAlloc /\ MayRemember(mm[t], "alloced_in_tx")
  /\ \E b \in Block \ heap :
       /\ heap' = heap \cup {b}
       /\ mm' = [mm EXCEPT ![t] = Remember(@, "alloced_in_tx", b)]
  /\ UNCHANGED <<pc, held, ts, epoch, minimum, world>>

\* TxFree locks the words of the block first (LockMemoryBlock): nobody else
\* frees it until this transaction ends, and it is still reachable.
TxFree(t) ==
  /\ pc[t] = "running" /\ t \in Writer /\ MayRemember(mm[t], "freed_in_tx")
  /\ \E b \in (held[t] \cap Live) \cup Allocated(t) :
       /\ \A u \in Task : b \notin FreedNow(u)
       /\ mm' = [mm EXCEPT ![t] = Remember(@, "freed_in_tx", b)]
  /\ UNCHANGED <<pc, held, ts, epoch, minimum, heap, world>>

\* TxTryCommit.
TxTryCommit(t) ==
  /\ pc[t] = "running"
  /\ Goto(t, "ended")
  /\ ts' = [ts EXCEPT ![t] = valid_ts[prog_thread_id(t)]]
  /\ held' = [held EXCEPT ![t] = {}]
  /\ UNCHANGED <<mm, epoch, minimum, heap, world>>

\* The commit task commits what all tasks of the transaction did: their
\* allocations become reachable, what they freed no longer is.  A
\* transaction that writes nothing takes no timestamp.
Commit(t) ==
  LET tasks == Siblings(t)
      freed == UNION {FreedNow(u) : u \in tasks}
      alloced == (UNION {Allocated(u) : u \in tasks}) \ freed
      now == commit_ts + 1
      done == [u \in Task |-> IF u \in tasks THEN "committed" ELSE pc[u]]
  IN /\ try_commit(t) /\ \A u \in tasks : pc[u] = "ended"
     /\ pc' = done
     /\ \/ /\ freed = {} /\ alloced = {}
           /\ UNCHANGED <<ts, born, commit_ts>>
        \/ /\ now <= MaxTs
           /\ commit_ts' = now
           /\ ts' = [ts EXCEPT ![t] = now]
           /\ born' = [b \in Block |-> IF b \in alloced THEN now
                                      ELSE IF b \in freed THEN 0 ELSE born[b]]
     /\ UNCHANGED <<mm, held, epoch, minimum, heap, valid_ts>>

\* mm.TxCommit, at the end of every task of a transaction that committed.
ManagerCommit(t) ==
  /\ pc[t] = "committed"
  /\ mm' = [mm EXCEPT ![t] = TxCommit(@, ts[t])]
  /\ ts' = [ts EXCEPT ![t] = 0]
  /\ Goto(t, IF mm[t].freed_in_tx_old = mm[t].freed_in_tx THEN "idle" ELSE "free_dominated")
  /\ UNCHANGED <<held, epoch, minimum, heap, world>>

\* RollbackTransaction: all tasks of the transaction roll back.
RollbackTransaction(t) ==
  /\ try_commit(t) /\ pc[t] \in {"running", "ended"}
  /\ \A u \in Siblings(t) \ {t} : pc[u] = "ended"
  /\ pc' = [u \in Task |-> IF u \in Siblings(t) THEN "abort" ELSE pc[u]]
  /\ valid_ts' = [valid_ts EXCEPT ![prog_thread_id(t)] = commit_ts]
  /\ UNCHANGED <<mm, held, ts, epoch, minimum, heap, born, commit_ts>>

\* TxRestart: Rollback and mm.TxAbort, of a task alone or with its transaction.
TxRestart(t) ==
  /\ pc[t] \in {"running", "abort"}
  /\ mm' = [mm EXCEPT ![t] = TxAbort(@)]
  /\ heap' = heap \ RolledBack(mm[t])
  /\ held' = [held EXCEPT ![t] = {}]
  /\ Goto(t, "idle")
  /\ ts' = [ts EXCEPT ![t] = 0]
  /\ UNCHANGED <<epoch, minimum, world>>

----------------------------------------------------------------------------
(* FreeDominated and the minimum *)

\* Free what the minimum dominates, or do what is next if it is not new.
Use(t, minimum_ts, otherwise) ==
  IF mm[t].last_minimum_ts = minimum_ts
  THEN Goto(t, otherwise) /\ UNCHANGED <<mm, heap>>
  ELSE /\ mm' = [mm EXCEPT ![t] = FreeDominated(@, minimum_ts)]
       /\ heap' = heap \ Freed(mm[t], minimum_ts)
       /\ Goto(t, "idle")

GetMinimumObservedTs(t) ==
  /\ pc[t] = "free_dominated"
  /\ Use(t, minimum_observed_ts, "update_minimum")
  /\ UNCHANGED <<held, ts, epoch, minimum, world>>

\* minimum_observed_ts_lock is held from try_lock, here one step with the
\* first load, to the store of the minimum, one step with the release.
minimum_observed_ts_locked == \E t \in Task : pc[t] = "scan"

\* Fault: no lock.
ScanUnlocked(t) ==
  /\ pc[t] = "update_minimum"
  /\ scan' = [scan EXCEPT ![t] = [i |-> 1, minimum_ts |-> last_observed_ts[0]]]
  /\ Goto(t, "scan")
  /\ UNCHANGED <<mm, held, ts, epoch, minimum_observed_ts, heap, world>>

TryLockMinimum(t) ==
  /\ pc[t] = "update_minimum" /\ ~ minimum_observed_ts_locked
  /\ scan' = [scan EXCEPT ![t] = [i |-> 1, minimum_ts |-> last_observed_ts[0]]]
  /\ Goto(t, "scan")
  /\ UNCHANGED <<mm, held, ts, epoch, minimum_observed_ts, heap, world>>

\* The lock is taken: somebody else is at it, what is there is used.
MinimumLocked(t) ==
  /\ pc[t] = "update_minimum" /\ minimum_observed_ts_locked
  /\ Use(t, minimum_observed_ts, "idle")
  /\ UNCHANGED <<held, ts, epoch, minimum, world>>

\* Fault: the comparison is the wrong way round.
ScanForMaximum(t) ==
  LET i == scan[t].i
      observed == last_observed_ts[i]
  IN /\ pc[t] = "scan" /\ i \in Task
     /\ scan' = [scan EXCEPT ![t] =
          [i |-> i + 1, minimum_ts |-> IF observed > @.minimum_ts THEN observed ELSE @.minimum_ts]]
     /\ UNCHANGED <<mm, pc, held, ts, epoch, minimum_observed_ts, heap, world>>

ScanObservedTs(t) ==
  LET i == scan[t].i
      observed == last_observed_ts[i]
  IN /\ pc[t] = "scan" /\ i \in Task
     /\ scan' = [scan EXCEPT ![t] =
          [i |-> i + 1, minimum_ts |-> IF observed < @.minimum_ts THEN observed ELSE @.minimum_ts]]
     /\ UNCHANGED <<mm, pc, held, ts, epoch, minimum_observed_ts, heap, world>>

StoreMinimum(t) ==
  /\ pc[t] = "scan" /\ scan[t].i \notin Task
  /\ minimum_observed_ts' = scan[t].minimum_ts
  /\ Use(t, scan[t].minimum_ts, "idle")
  /\ scan' = [scan EXCEPT ![t] = [i |-> 0, minimum_ts |-> 0]]
  /\ UNCHANGED <<held, ts, epoch, world>>

Next ==
  \/ \E t \in Task : \/ TxStart(t) \/ TxMalloc(t) \/ TxFree(t) \/ TxTryCommit(t)
                      \/ Commit(t) \/ ManagerCommit(t) \/ RollbackTransaction(t)
                      \/ TxRestart(t) \/ GetMinimumObservedTs(t) \/ TryLockMinimum(t)
                      \/ MinimumLocked(t) \/ ScanObservedTs(t) \/ StoreMinimum(t)
  \/ \E p \in 0 .. Threads - 1 : Extend(p)

Spec == Init /\ [][Next]_vars

----------------------------------------------------------------------------
(* Properties *)

\* A block is in the heap as long as anybody may use it: it is reachable, a
\* running task may have reached it, a task has just allocated it, or a
\* buffer still holds it to be freed.
NoDangling ==
  \A t \in Task : Live \cup held[t] \cup Allocated(t) \cup InFreeSlots(t) \subseteq heap

\* A block that was freed is in one place of one buffer, and will not be
\* freed twice.
FreedOnce ==
  /\ \A t \in Task : Cardinality(InFreeSlots(t)) = Cardinality(FreeSlots(t))
  /\ \A t, u \in Task : t # u => InFreeSlots(t) \cap InFreeSlots(u) = {}

\* Nothing is lost: what is neither reachable nor new is in a buffer.
NoLeak == heap \subseteq Live \cup UNION {Allocated(t) \cup InFreeSlots(t) : t \in Task}

\* FreeDominated takes the rest of the list to be dominated when it has
\* found a buffer that is: timestamps fall along the list.
OldestLast ==
  \A t \in Task : \A i \in Chain(mm[t], mm[t].freed_logically) :
    \A j \in Chain(mm[t], i) :
      mm[t].buf[i].init_ts /\ mm[t].buf[j].init_ts => mm[t].buf[j].ts <= mm[t].buf[i].ts

\* A slow scan does not take back the minimum that a later one has found.
MinimumRises == [][minimum_observed_ts' >= minimum_observed_ts]_vars

=============================================================================
