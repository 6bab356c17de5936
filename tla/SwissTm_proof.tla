---------------------------- MODULE SwissTm_proof ----------------------------
(***************************************************************************)
(* What SwissTm promises, for every number of threads, stripes and words   *)
(* and every program.                                                      *)
(*                                                                         *)
(* First the locks, across every restart of the clock: TypeOK, LocksLogged *)
(* and ReadLocksOwned.  What is invariant of one thread alone is a         *)
(* predicate on its record (Local); WriteLocks and ReadLocks relate the    *)
(* records to the lock table.  A step replaces the record of one thread,   *)
(* and either leaves the locks it holds as they are (QuietStep) or takes   *)
(* or drops one of them.                                                   *)
(*                                                                         *)
(* Then what the transactions read and write, until the clock restarts for *)
(* the first time: Opacity, SerialCommits and NothingLost.  Every          *)
(* transaction has a time T at which all it has read stood in memory       *)
(* (Snapshot); it relies on the versions it has logged and on those of the *)
(* stripes it has locked (Claim), and of each it knows that nobody commits *)
(* another one at T or before (Clean).  What a step may do to the others   *)
(* is stated once (Effects): it only publishes versions that are newer     *)
(* than every time they rely on, or of stripes they know it has locked.    *)
(***************************************************************************)
EXTENDS SwissTm, SequenceTheorems, WellFoundedInduction, TLAPS

ReadPc == {"read_version", "read_value", "read_check"}
ExtendPc == {"extend_ts", "extend", "extended"}
WritePc == {"write_locked", "abort_other", "write_cas", "write_reload", "write_version"}
Publishing == {"write_back", "unlock_read", "unlock_write"}
Undoing == {"restart", "abort", "overflow_rollback"}

USE DEF StartPc, AccessPc, LockedPc, CommitPc, RollbackPc, SyncPc,
        ReadPc, ExtendPc, WritePc, Publishing, Undoing

----------------------------------------------------------------------------
(* What holds of the record of one thread *)

OpsOf(t, r) == Code[t][r.done + 1]
OpOf(t, r) == OpsOf(t, r)[r.ip]

\* The last log entry has a stripe, and no version yet.
FillingIn(t, r) == r.pc = "write_version" \/ (r.pc \in ExtendPc /\ OpOf(t, r).kind # "read")
HasLocksIn(r) == r.pc \in AccessPc \cup CommitPc \cup RollbackPc \cup {"run"}

\* The pc fits the operation, the logs and the registers.
PlacedAs(t, r) ==
  /\ r.ip >= 1
  /\ r.pc \in (StartPc \ {"start"}) \cup AccessPc \cup CommitPc \cup {"run", "overflow", "committed"} =>
       r.done < Len(Code[t])
  /\ r.pc \in AccessPc => r.ip <= Len(OpsOf(t, r))
  /\ r.pc \in ReadPc => OpOf(t, r).kind = "read"
  /\ r.pc \in WritePc => OpOf(t, r).kind # "read"
  /\ r.pc = "abort_other" => r.ptr # NULL
  /\ r.pc \in {"extend", "validate"} => r.i \in 1 .. Len(r.read_log)
  /\ r.pc \in (CommitPc \ LockedPc) \cup {"overflow_release"} => r.i \in 1 .. Len(r.write_log)
  /\ r.pc \in LockedPc \cup {"overflow"} => r.write_log # <<>>
  /\ r.pc = "increment_ts" => r.i = 1
  /\ r.pc \in Undoing /\ ~ r.rolled_back => r.i >= 1
  /\ r.pc = "sync_wait" => r.i \in Thread
  /\ r.pc \in ExtendPc \cup {"read_value", "read_check"} => r.version >= 1
  /\ r.pc \in ExtendPc /\ OpOf(t, r).kind = "read" => r.read_log # <<>>
  /\ r.pc \in {"validate"} \cup Publishing => r.ts >= 1

\* The logs are empty when there is nothing to undo, every entry that may have
\* to be released has a version, and holds words of its stripe only.
LoggedAs(t, r) ==
  /\ ~ HasLocksIn(r) /\ r.pc # "committed" => r.write_log = <<>> /\ r.read_log = <<>>
  /\ r.pc \in {"restart", "abort"} /\ r.rolled_back => r.write_log = <<>> /\ r.read_log = <<>>
  /\ HasLocksIn(r) /\ r.pc \notin {"restart", "abort"} => ~ r.rolled_back
  /\ r.pc \in SyncPc => r.rolled_back
  /\ \A n \in 1 .. Len(r.write_log) :
       \/ r.write_log[n].old_version >= 1
       \/ n = Len(r.write_log) /\ (FillingIn(t, r) \/ r.pc \in Undoing)
  /\ FillingIn(t, r) =>
       /\ r.write_log # <<>>
       /\ r.write_log[Len(r.write_log)].stripe = StripeOf[OpOf(t, r).addr]
       /\ r.write_log[Len(r.write_log)].old_version = 0
  /\ \A n \in 1 .. Len(r.write_log), a \in Addr :
       r.write_log[n].words[a] # NULL => StripeOf[a] = r.write_log[n].stripe

Local(t, r) == PlacedAs(t, r) /\ LoggedAs(t, r)

----------------------------------------------------------------------------
(* The records and the lock table *)

\* The entries whose stripe is write-locked: the loops that unlock have passed
\* the others.
FirstOf(r) == IF r.pc \in Publishing \cup Undoing THEN r.i ELSE 1
HeldIn(r) == IF r.pc = "committed" THEN {} ELSE {n \in 1 .. Len(r.write_log) : n >= FirstOf(r)}

\* The entries whose stripe is read-locked.
ReadLockedIn(r) ==
  {n \in 1 .. Len(r.write_log) :
      \/ r.pc = "lock_reads" /\ n < r.i
      \/ r.pc \in LockedPc \cup {"overflow"}
      \/ r.pc \in {"release", "overflow_release", "write_back", "unlock_read"} /\ n >= r.i
      \/ r.pc = "unlock_write" /\ n > r.i}

\* The write locks are those of the entries that are held,
WriteLocks ==
  \A s \in Stripe, t \in Thread : \A n \in Nat \ {0} :
    write_lock[s] = <<t, n>> <=> n \in HeldIn(tx[t]) /\ tx[t].write_log[n].stripe = s

\* and a read lock that is set is that of an entry which is read-locked.
ReadLocks ==
  \A s \in Stripe : read_lock[s] = 0 =>
    \E t \in Thread : \E n \in ReadLockedIn(tx[t]) : tx[t].write_log[n].stripe = s

LockInv == /\ TypeOK /\ WriteLocks /\ ReadLocks
           /\ \A t \in Thread : Local(t, tx[t])

----------------------------------------------------------------------------
(* Lemmas on the operators *)

LEMMA Constants ==
  /\ NThreads \in Nat /\ MAXIMUM_TS \in Nat /\ UnsignedSize \in Nat \ {0}
  /\ StripeOf \in [Addr -> Stripe] /\ NULL \notin Ptr /\ NULL \notin Nat
  /\ \A ts \in Nat : Truncated(ts) \in Nat
  BY SwissTmAssumption DEF Truncated

\* An operation that a thread has to do.
LEMMA OpTyped ==
  ASSUME NEW t \in Thread, NEW r \in State,
         r.done < Len(Code[t]), r.ip >= 1, r.ip <= Len(OpsOf(t, r))
  PROVE  /\ OpOf(t, r) \in Operation /\ OpOf(t, r).addr \in Addr
         /\ StripeOf[OpOf(t, r).addr] \in Stripe
<1>0. r.done \in Nat /\ r.ip \in Nat
  BY DEF State
<1>1. Code[t] \in Seq(Seq(Operation)) /\ r.done + 1 \in 1 .. Len(Code[t])
  <2>1. Code[t] \in Seq(Seq(Operation))
    BY SwissTmAssumption
  <2>2. QED BY <1>0, <2>1
<1>2. OpsOf(t, r) \in Seq(Operation) /\ r.ip \in 1 .. Len(OpsOf(t, r))
  <2>1. OpsOf(t, r) \in Seq(Operation)
    BY <1>1 DEF OpsOf
  <2>2. QED BY <1>0, <2>1
<1>3. OpOf(t, r) \in Operation
  BY <1>2 DEF OpOf
<1>4. QED BY <1>3, SwissTmAssumption DEF Operation

\* What the invariant says of one thread.
LEMMA ThreadFacts ==
  ASSUME LockInv, NEW t \in Thread
  PROVE  /\ tx[t] \in State /\ Local(t, tx[t])
         /\ Op(t) = OpOf(t, tx[t]) /\ Ops(t) = OpsOf(t, tx[t])
         /\ StripeOfOp(t) = StripeOf[OpOf(t, tx[t]).addr]
  BY DEF LockInv, TypeOK, Op, Ops, OpOf, OpsOf, StripeOfOp

\* A thread that goes on with an access, and its operation.
LEMMA Accessing ==
  ASSUME LockInv, NEW t \in Thread, tx[t].pc \in AccessPc
  PROVE  /\ Op(t) \in Operation /\ Op(t).addr \in Addr /\ StripeOfOp(t) \in Stripe
         /\ read_lock[StripeOfOp(t)] \in Nat /\ memory[Op(t).addr] \in Nat
<1>1. Op(t) \in Operation /\ Op(t).addr \in Addr /\ StripeOfOp(t) \in Stripe
  BY ThreadFacts, OpTyped DEF Local, PlacedAs
<1>2. QED BY <1>1 DEF LockInv, TypeOK

\* A thread that begins one.
LEMMA Beginning ==
  ASSUME LockInv, NEW t \in Thread, tx[t].pc = "run", tx[t].ip <= Len(Ops(t))
  PROVE  /\ Op(t) \in Operation /\ Op(t).addr \in Addr /\ StripeOfOp(t) \in Stripe
         /\ StripeOf[Op(t).addr] = StripeOfOp(t)
         /\ write_lock[StripeOfOp(t)] \in Ptr \cup {NULL} /\ memory[Op(t).addr] \in Nat
<1>1. Op(t) \in Operation /\ Op(t).addr \in Addr /\ StripeOfOp(t) \in Stripe
  BY ThreadFacts, OpTyped DEF Local, PlacedAs
<1>2. QED BY <1>1 DEF LockInv, TypeOK, StripeOfOp

\* Replacing the record of one thread.
LEMMA UpdateTx ==
  ASSUME TypeOK, NEW t \in Thread, NEW r \in State, Become(t, r)
  PROVE  /\ tx' \in [Thread -> State] /\ tx'[t] = r
         /\ \A u \in Thread : u # t => tx'[u] = tx[u]
  BY DEF TypeOK, Become

\* The loop over a log goes on, or ends with i = 1.
LEMMA AdvanceTyped ==
  ASSUME NEW q \in State, NEW last \in Nat, NEW after \in PC
  PROVE  /\ Advance(q, last, after) \in State
         /\ q.i < last => Advance(q, last, after) = [q EXCEPT !.i = q.i + 1]
         /\ q.i >= last => Advance(q, last, after) = [q EXCEPT !.pc = after, !.i = 1]
<1>1. q.i \in Nat /\ q.i + 1 \in Nat /\ 1 \in Nat
  BY DEF State
<1>2. [q EXCEPT !.i = q.i + 1] \in State
  BY <1>1 DEF State
<1>3. [q EXCEPT !.pc = after, !.i = 1] \in State
  BY <1>1 DEF State
<1>4. q.i >= last <=> ~ (q.i < last)
  BY <1>1
<1>5. /\ q.i < last => Advance(q, last, after) = [q EXCEPT !.i = q.i + 1]
      /\ ~ (q.i < last) => Advance(q, last, after) = [q EXCEPT !.pc = after, !.i = 1]
  BY Zenon DEF Advance
<1>6. CASE q.i < last
  BY <1>2, <1>4, <1>5, <1>6, Zenon
<1>7. CASE ~ (q.i < last)
  BY <1>3, <1>4, <1>5, <1>7, Zenon
<1>8. QED BY <1>6, <1>7, Zenon

\* What it leaves alone, and where it goes.
LEMMA AdvanceFields ==
  ASSUME NEW q \in State, NEW last \in Nat, NEW after \in PC, q.i \in 1 .. last, NEW r,
         r = Advance(q, last, after)
  PROVE  /\ r.write_log = q.write_log /\ r.read_log = q.read_log /\ r.ip = q.ip
         /\ r.done = q.done /\ r.rolled_back = q.rolled_back
         /\ \/ r.pc = q.pc /\ r.i = q.i + 1 /\ q.i < last
            \/ r.pc = after /\ r.i = 1 /\ q.i = last
<1>1. CASE q.i < last
  <2>1. r = [q EXCEPT !.i = q.i + 1]
    BY <1>1, Zenon DEF Advance
  <2>2. QED BY <1>1, <2>1, SMT DEF State
<1>2. CASE ~ (q.i < last)
  <2>1. q.i >= last /\ q.i = last
    BY <1>2
  <2>2. r = [q EXCEPT !.pc = after, !.i = 1]
    BY <1>2, Zenon DEF Advance
  <2>3. QED BY <2>1, <2>2, SMT DEF State
<1>3. QED BY <1>1, <1>2

\* The logs after a rollback or a commit.
LEMMA ClearedTyped ==
  ASSUME NEW q \in State
  PROVE  /\ Cleared(q) \in State
         /\ Cleared(q).read_log = <<>> /\ Cleared(q).write_log = <<>> /\ Cleared(q).ip = 1
         /\ Cleared(q).done = q.done /\ Cleared(q).i = 0 /\ Cleared(q).pc = q.pc
<1>1. <<>> \in Seq(Entry) /\ <<>> \in Seq(ReadEntry) /\ 0 \in Nat /\ 1 \in Nat
      /\ NULL \in Ptr \cup {NULL}
  OBVIOUS
<1>2. Cleared(q) \in State
  BY <1>1 DEF Cleared, State
<1>3. /\ Cleared(q).read_log = <<>> /\ Cleared(q).write_log = <<>> /\ Cleared(q).ip = 1
      /\ Cleared(q).done = q.done /\ Cleared(q).i = 0 /\ Cleared(q).pc = q.pc
  BY SMT DEF Cleared, State
<1>4. QED BY <1>2, <1>3

\* The application goes on to its next operation.
LEMMA NextOpTyped ==
  ASSUME NEW q \in State
  PROVE  /\ NextOp(q) \in State /\ NextOp(q).pc = "run" /\ NextOp(q).ip = q.ip + 1
         /\ NextOp(q).done = q.done /\ NextOp(q).rolled_back = q.rolled_back
         /\ NextOp(q).read_log = q.read_log /\ NextOp(q).write_log = q.write_log
<1>1. /\ q.ip + 1 \in Nat /\ 0 \in Nat
      /\ NULL \in Ptr \cup {NULL}
  BY DEF State
<1>2. NextOp(q) \in State
  BY <1>1 DEF NextOp, State, PC
<1>3. QED BY <1>2, SMT DEF NextOp, State

\* What an entry of the log of a record is.
LEMMA EntryTyped ==
  ASSUME NEW r \in State
  PROVE  /\ Len(r.write_log) \in Nat /\ Len(r.read_log) \in Nat
         /\ r.write_log = <<>> <=> Len(r.write_log) = 0
         /\ r.read_log = <<>> <=> Len(r.read_log) = 0
         /\ \A n \in 1 .. Len(r.write_log) :
              /\ r.write_log[n] \in Entry /\ r.write_log[n].stripe \in Stripe
              /\ r.write_log[n].old_version \in Nat
              /\ r.write_log[n].words \in [Addr -> Nat \cup {NULL}]
         /\ \A n \in 1 .. Len(r.read_log) :
              /\ r.read_log[n] \in ReadEntry /\ r.read_log[n].stripe \in Stripe
              /\ r.read_log[n].version \in Nat
<1>1. r.write_log \in Seq(Entry) /\ r.read_log \in Seq(ReadEntry)
  BY DEF State
<1>2. /\ r.write_log = <<>> <=> Len(r.write_log) = 0
      /\ r.read_log = <<>> <=> Len(r.read_log) = 0
      /\ \A n \in 1 .. Len(r.write_log) : r.write_log[n] \in Entry
      /\ \A n \in 1 .. Len(r.read_log) : r.read_log[n] \in ReadEntry
      /\ Len(r.write_log) \in Nat /\ Len(r.read_log) \in Nat
  BY <1>1
<1>3. /\ \A e \in Entry : /\ e.stripe \in Stripe /\ e.old_version \in Nat
                         /\ e.words \in [Addr -> Nat \cup {NULL}]
      /\ \A e \in ReadEntry : e.stripe \in Stripe /\ e.version \in Nat
  BY DEF Entry, ReadEntry
<1>4. QED BY <1>2, <1>3

LEMMA NotAPtr ==
  ASSUME NEW u \in Thread, NEW n \in Nat \ {0}
  PROVE  NULL # <<u, n>>
  BY Constants DEF Ptr

\* r has the entries of q, and the same locks.
SameLocks(q, r) ==
  /\ HeldIn(r) = HeldIn(q) /\ ReadLockedIn(r) = ReadLockedIn(q)
  /\ \A n \in HeldIn(q) : r.write_log[n].stripe = q.write_log[n].stripe

\* The variables the locks have nothing to do with.
RestTyped ==
  /\ memory \in [Addr -> Nat] /\ commit_ts \in Nat /\ cm_order \in Seq(Thread)
  /\ synchronization_in_progress \in BOOLEAN

\* Only stripes that are write-locked are read-locked.
LEMMA ReadLockedHeld ==
  ASSUME NEW r \in State
  PROVE  /\ HeldIn(r) \subseteq 1 .. Len(r.write_log) /\ HeldIn(r) \subseteq Nat \ {0}
         /\ ReadLockedIn(r) \subseteq HeldIn(r)
  BY SMT DEF State, ReadLockedIn, HeldIn, FirstOf

\* After a step of t to the record r, the locks of the others are as they were,
\* and those of t fit r.
WriteLocksFit(t, r) ==
  \A s \in Stripe, n \in Nat \ {0} :
    /\ write_lock'[s] = <<t, n>> <=> n \in HeldIn(r) /\ r.write_log[n].stripe = s
    /\ \A u \in Thread \ {t} : write_lock'[s] = <<u, n>> <=> write_lock[s] = <<u, n>>
ReadLocksFit(t, r) ==
  \A s \in Stripe : read_lock'[s] = 0 =>
    \/ \E n \in ReadLockedIn(r) : r.write_log[n].stripe = s
    \/ read_lock[s] = 0 /\ \A n \in ReadLockedIn(tx[t]) : tx[t].write_log[n].stripe # s

LEMMA LockStep ==
  ASSUME LockInv, NEW t \in Thread, NEW r \in State, Become(t, r), Local(t, r), RestTyped',
         read_lock' \in [Stripe -> Nat], write_lock' \in [Stripe -> Ptr \cup {NULL}],
         WriteLocksFit(t, r), ReadLocksFit(t, r)
  PROVE  LockInv'
<1>1. /\ tx' \in [Thread -> State] /\ tx'[t] = r
      /\ \A u \in Thread : u # t => tx'[u] = tx[u]
  BY UpdateTx DEF LockInv
<1>2. TypeOK'
  BY <1>1 DEF LockInv, TypeOK, RestTyped
<1>3. \A u \in Thread : Local(u, tx'[u])
  BY <1>1 DEF LockInv
<1>4. WriteLocks'
  <2>1. SUFFICES ASSUME NEW s \in Stripe, NEW u \in Thread, NEW n \in Nat \ {0}
                 PROVE  write_lock'[s] = <<u, n>> <=>
                          n \in HeldIn(tx'[u]) /\ tx'[u].write_log[n].stripe = s
    BY DEF WriteLocks
  <2>2. CASE u = t
    BY <1>1, <2>2 DEF WriteLocksFit
  <2>3. CASE u # t
    BY <1>1, <2>3 DEF LockInv, WriteLocks, WriteLocksFit
  <2>4. QED BY <2>2, <2>3
<1>5. ReadLocks'
  <2>1. SUFFICES ASSUME NEW s \in Stripe, read_lock'[s] = 0
                 PROVE  \E u \in Thread : \E n \in ReadLockedIn(tx'[u]) :
                           tx'[u].write_log[n].stripe = s
    BY DEF ReadLocks
  <2>2. CASE \E n \in ReadLockedIn(r) : r.write_log[n].stripe = s
    BY <1>1, <2>2
  <2>3. CASE read_lock[s] = 0 /\ \A n \in ReadLockedIn(tx[t]) : tx[t].write_log[n].stripe # s
    <3>1. PICK u \in Thread : \E n \in ReadLockedIn(tx[u]) : tx[u].write_log[n].stripe = s
      BY <2>3 DEF LockInv, ReadLocks
    <3>2. u # t
      BY <2>3, <3>1
    <3>3. QED BY <1>1, <3>1, <3>2
  <2>4. QED BY <2>1, <2>2, <2>3 DEF ReadLocksFit
<1>6. QED BY <1>2, <1>3, <1>4, <1>5 DEF LockInv

\* A step that takes and drops no lock.
LEMMA QuietStep ==
  ASSUME LockInv, NEW t \in Thread, NEW r \in State, Become(t, r), Local(t, r),
         SameLocks(tx[t], r), UNCHANGED <<read_lock, write_lock>>, RestTyped'
  PROVE  LockInv'
<1>1. tx[t] \in State /\ ReadLockedIn(tx[t]) \subseteq HeldIn(tx[t])
      /\ HeldIn(tx[t]) \subseteq Nat \ {0}
  BY ReadLockedHeld DEF LockInv, TypeOK
<1>2. read_lock' \in [Stripe -> Nat] /\ write_lock' \in [Stripe -> Ptr \cup {NULL}]
  BY DEF LockInv, TypeOK
<1>3. WriteLocksFit(t, r)
  BY DEF LockInv, WriteLocks, SameLocks, WriteLocksFit
<1>4. ReadLocksFit(t, r)
  BY <1>1 DEF SameLocks, ReadLocksFit
<1>5. QED BY <1>2, <1>3, <1>4, LockStep

\* A step that drops the write lock of entry i, and changes no read lock.
LEMMA DropStep ==
  ASSUME LockInv, NEW t \in Thread, NEW r \in State, Become(t, r), Local(t, r), RestTyped',
         NEW i \in HeldIn(tx[t]), r.write_log = tx[t].write_log,
         HeldIn(r) = HeldIn(tx[t]) \ {i}, ReadLockedIn(r) = ReadLockedIn(tx[t]),
         write_lock' = [write_lock EXCEPT ![Mine(t, i).stripe] = NULL],
         UNCHANGED read_lock
  PROVE  LockInv'
<1> DEFINE s0 == tx[t].write_log[i].stripe
<1>1. tx[t] \in State /\ i \in 1 .. Len(tx[t].write_log) /\ HeldIn(tx[t]) \subseteq Nat \ {0}
  BY ReadLockedHeld DEF LockInv, TypeOK
<1>2. s0 \in Stripe /\ write_lock[s0] = <<t, i>>
  BY <1>1, EntryTyped DEF LockInv, WriteLocks, Entry
<1>3. read_lock' \in [Stripe -> Nat] /\ write_lock' \in [Stripe -> Ptr \cup {NULL}]
  BY <1>2 DEF LockInv, TypeOK, Mine
<1>4. ASSUME NEW s \in Stripe, NEW n \in Nat \ {0}
      PROVE  /\ write_lock'[s] = <<t, n>> <=> n \in HeldIn(r) /\ r.write_log[n].stripe = s
             /\ \A u \in Thread \ {t} : write_lock'[s] = <<u, n>> <=> write_lock[s] = <<u, n>>
  <2>1. \A u \in Thread : n # 0 /\ NULL # <<u, n>>
    BY NotAPtr
  <2>2. write_lock[s] = <<t, n>> <=> n \in HeldIn(tx[t]) /\ tx[t].write_log[n].stripe = s
    BY DEF LockInv, WriteLocks
  <2>3. CASE s = s0
    <3>1. write_lock'[s] = NULL
      BY <1>2, <2>3 DEF LockInv, TypeOK, Mine
    <3>2. ~ (n \in HeldIn(r) /\ r.write_log[n].stripe = s)
      BY <1>2, <2>2, <2>3
    <3>3. write_lock'[s] # <<t, n>>
      BY <2>1, <3>1
    <3>4. \A u \in Thread \ {t} : write_lock'[s] # <<u, n>> /\ write_lock[s] # <<u, n>>
      BY <1>2, <2>1, <2>3, <3>1
    <3>5. QED BY <3>2, <3>3, <3>4
  <2>4. CASE s # s0
    BY <1>2, <1>3, <2>2, <2>4 DEF LockInv, TypeOK, Mine
  <2>5. QED BY <2>3, <2>4
<1>5. WriteLocksFit(t, r)
  BY <1>4, Zenon DEF WriteLocksFit
<1>6. ReadLocksFit(t, r)
  BY DEF ReadLocksFit
<1>7. QED BY <1>3, <1>5, <1>6, LockStep

\* A step that gives read lock i the value v, and changes no write lock.
LEMMA ReadLockStep ==
  ASSUME LockInv, NEW t \in Thread, NEW r \in State, Become(t, r), Local(t, r), RestTyped',
         NEW i \in 1 .. Len(tx[t].write_log), NEW v \in Nat,
         r.write_log = tx[t].write_log, HeldIn(r) = HeldIn(tx[t]),
         ReadLockedIn(tx[t]) \ {i} \subseteq ReadLockedIn(r), v = 0 => i \in ReadLockedIn(r),
         read_lock' = [read_lock EXCEPT ![Mine(t, i).stripe] = v],
         UNCHANGED write_lock
  PROVE  LockInv'
<1>1. tx[t] \in State
  BY DEF LockInv, TypeOK
<1>2. Mine(t, i).stripe \in Stripe
  BY <1>1, EntryTyped DEF Mine, Entry
<1>3. read_lock' \in [Stripe -> Nat] /\ write_lock' \in [Stripe -> Ptr \cup {NULL}]
  BY <1>2 DEF LockInv, TypeOK
<1>4. WriteLocksFit(t, r)
  BY DEF LockInv, WriteLocks, WriteLocksFit
<1>5. ASSUME NEW s \in Stripe, read_lock'[s] = 0
      PROVE  \/ \E n \in ReadLockedIn(r) : r.write_log[n].stripe = s
             \/ read_lock[s] = 0 /\ \A n \in ReadLockedIn(tx[t]) : tx[t].write_log[n].stripe # s
  <2>1. CASE s = Mine(t, i).stripe
    BY <1>2, <1>5, <2>1 DEF LockInv, TypeOK, Mine
  <2>2. CASE s # Mine(t, i).stripe
    BY <1>2, <1>5, <2>2 DEF LockInv, TypeOK, Mine
  <2>3. QED BY <2>1, <2>2
<1>6. ReadLocksFit(t, r)
  BY <1>5, Zenon DEF ReadLocksFit
<1>7. QED BY <1>3, <1>4, <1>6, LockStep

\* A step of which no thread takes or drops a lock.
LEMMA AllQuiet ==
  ASSUME LockInv, tx' \in [Thread -> State],
         \A u \in Thread : Local(u, tx'[u]) /\ SameLocks(tx[u], tx'[u]),
         UNCHANGED <<read_lock, write_lock>>, RestTyped'
  PROVE  LockInv'
<1>1. TypeOK'
  BY DEF LockInv, TypeOK, RestTyped
<1>2. WriteLocks'
  BY DEF LockInv, WriteLocks, SameLocks
<1>3. ReadLocks'
  <2>1. SUFFICES ASSUME NEW s \in Stripe, read_lock[s] = 0
                 PROVE  \E u \in Thread : \E n \in ReadLockedIn(tx'[u]) :
                           tx'[u].write_log[n].stripe = s
    BY DEF ReadLocks
  <2>2. PICK u \in Thread : \E n \in ReadLockedIn(tx[u]) : tx[u].write_log[n].stripe = s
    BY <2>1 DEF LockInv, ReadLocks
  <2>3. ReadLockedIn(tx[u]) \subseteq HeldIn(tx[u])
    BY ReadLockedHeld DEF LockInv, TypeOK
  <2>4. QED BY <2>2, <2>3 DEF SameLocks
<1>4. QED BY <1>1, <1>2, <1>3 DEF LockInv


\* The order without t is an order.
LEMMA WithoutTyped ==
  ASSUME TypeOK, NEW t \in Thread
  PROVE  Without(t) \in Seq(Thread)
<1>1. CASE HasGreedyTs(t)
  <2>1. \E i \in 1 .. Len(cm_order) : cm_order[i] = t
    BY <1>1 DEF HasGreedyTs, Range, TypeOK
  <2>2. Place(t) \in 1 .. Len(cm_order)
    BY <2>1 DEF Place
  <2>3. /\ SubSeq(cm_order, 1, Place(t) - 1) \in Seq(Thread)
        /\ SubSeq(cm_order, Place(t) + 1, Len(cm_order)) \in Seq(Thread)
    BY <2>2 DEF TypeOK
  <2>4. QED BY <1>1, <2>3 DEF Without
<1>2. CASE ~ HasGreedyTs(t)
  BY <1>2 DEF Without, TypeOK
<1>3. QED BY <1>1, <1>2

\* A log entry is written back.
LEMMA WriteBackTyped ==
  ASSUME LockInv, NEW t \in Thread, WriteBack(t)
  PROVE  memory' \in [Addr -> Nat]
<1>1. tx[t] \in State /\ tx[t].i \in 1 .. Len(tx[t].write_log)
  BY ThreadFacts DEF Local, PlacedAs, WriteBack, At
<1>2. Mine(t, tx[t].i).words \in [Addr -> Nat \cup {NULL}]
  BY <1>1, EntryTyped DEF Mine
<1>3. QED BY <1>2 DEF WriteBack, LockInv, TypeOK

LEMMA TxStartStep ==
  ASSUME LockInv, NEW t \in Thread, TxStart(t)
  PROVE  LockInv'
<1> DEFINE q == tx[t]
           r == [q EXCEPT !.status = "executing", !.pc = "start_sync"]
<1>1. q \in State /\ Local(t, q) /\ q.pc = "start"
  BY ThreadFacts DEF TxStart, At
<1>2. RestTyped' /\ UNCHANGED <<read_lock, write_lock>>
  BY Constants DEF TxStart, LockInv, TypeOK, RestTyped, clocks, ghosts
<1>3. q.done < Len(Code[t])
  BY DEF TxStart, HasTx
<1>4. Become(t, r)
  BY <1>3 DEF TxStart, Goto, At
<1> HIDE DEF q
<1>5. r \in State
  BY <1>1, <1>3 DEF State, PC
<1>6. PlacedAs(t, r)
  BY <1>1, <1>3, SMT DEF State, Local, PlacedAs, OpOf, OpsOf
<1>7. LoggedAs(t, r)
  BY <1>1, <1>3, SMT DEF State, Local, LoggedAs, FillingIn, HasLocksIn, OpOf, OpsOf
<1>8. SameLocks(q, r)
  BY <1>1, <1>3, SMT DEF State, Local, PlacedAs, SameLocks, HeldIn, FirstOf, ReadLockedIn
<1>9. QED BY <1>2, <1>4, <1>5, <1>6, <1>7, <1>8, QuietStep DEF Local, q

LEMMA StartSyncStep ==
  ASSUME LockInv, NEW t \in Thread, StartSync(t)
  PROVE  LockInv'
<1> DEFINE q == tx[t]
           r1 == [q EXCEPT !.status = "idle", !.pc = "start_wait"]
           r2 == [q EXCEPT !.pc = "start_ts"]
<1>1. q \in State /\ Local(t, q) /\ q.pc = "start_sync"
  BY ThreadFacts DEF StartSync, At
<1>2. RestTyped' /\ UNCHANGED <<read_lock, write_lock>>
  BY Constants DEF StartSync, LockInv, TypeOK, RestTyped, clocks, ghosts
<1>3. synchronization_in_progress => Become(t, r1)
  BY DEF StartSync, Goto, At
<1>4. ~ synchronization_in_progress => Become(t, r2)
  BY DEF StartSync, Goto, At
<1> HIDE DEF q
<1>5. CASE synchronization_in_progress
  <2>1. r1 \in State
    BY <1>1 DEF State, PC
  <2>2. PlacedAs(t, r1)
    BY <1>1, <1>5, SMT DEF State, Local, PlacedAs, OpOf, OpsOf
  <2>3. LoggedAs(t, r1)
    BY <1>1, <1>5, SMT DEF State, Local, LoggedAs, FillingIn, HasLocksIn, OpOf, OpsOf
  <2>4. SameLocks(q, r1)
    BY <1>1, <1>5, SMT DEF State, Local, PlacedAs, SameLocks, HeldIn, FirstOf, ReadLockedIn
  <2>5. QED BY <1>2, <1>3, <1>5, <2>1, <2>2, <2>3, <2>4, QuietStep DEF Local, q
<1>6. CASE ~ synchronization_in_progress
  <2>1. r2 \in State
    BY <1>1 DEF State, PC
  <2>2. PlacedAs(t, r2)
    BY <1>1, <1>6, SMT DEF State, Local, PlacedAs, OpOf, OpsOf
  <2>3. LoggedAs(t, r2)
    BY <1>1, <1>6, SMT DEF State, Local, LoggedAs, FillingIn, HasLocksIn, OpOf, OpsOf
  <2>4. SameLocks(q, r2)
    BY <1>1, <1>6, SMT DEF State, Local, PlacedAs, SameLocks, HeldIn, FirstOf, ReadLockedIn
  <2>5. QED BY <1>2, <1>4, <1>6, <2>1, <2>2, <2>3, <2>4, QuietStep DEF Local, q
<1>7. QED BY <1>5, <1>6

LEMMA StartWaitStep ==
  ASSUME LockInv, NEW t \in Thread, StartWait(t)
  PROVE  LockInv'
<1> DEFINE q == tx[t]
           r == [q EXCEPT !.pc = "start_again"]
<1>1. q \in State /\ Local(t, q) /\ q.pc = "start_wait"
  BY ThreadFacts DEF StartWait, At
<1>2. RestTyped' /\ UNCHANGED <<read_lock, write_lock>>
  BY Constants DEF StartWait, LockInv, TypeOK, RestTyped, clocks, ghosts
<1>3. Become(t, r)
  BY DEF StartWait, Goto, At
<1> HIDE DEF q
<1>4. r \in State
  BY <1>1 DEF State, PC
<1>5. PlacedAs(t, r)
  BY <1>1, SMT DEF State, Local, PlacedAs, OpOf, OpsOf
<1>6. LoggedAs(t, r)
  BY <1>1, SMT DEF State, Local, LoggedAs, FillingIn, HasLocksIn, OpOf, OpsOf
<1>7. SameLocks(q, r)
  BY <1>1, SMT DEF State, Local, PlacedAs, SameLocks, HeldIn, FirstOf, ReadLockedIn
<1>8. QED BY <1>2, <1>3, <1>4, <1>5, <1>6, <1>7, QuietStep DEF Local, q

LEMMA StartAgainStep ==
  ASSUME LockInv, NEW t \in Thread, StartAgain(t)
  PROVE  LockInv'
<1> DEFINE q == tx[t]
           r == [q EXCEPT !.status = "executing", !.pc = "start_ts"]
<1>1. q \in State /\ Local(t, q) /\ q.pc = "start_again"
  BY ThreadFacts DEF StartAgain, At
<1>2. RestTyped' /\ UNCHANGED <<read_lock, write_lock>>
  BY Constants DEF StartAgain, LockInv, TypeOK, RestTyped, clocks, ghosts
<1>3. Become(t, r)
  BY DEF StartAgain, Goto, At
<1> HIDE DEF q
<1>4. r \in State
  BY <1>1 DEF State, PC
<1>5. PlacedAs(t, r)
  BY <1>1, SMT DEF State, Local, PlacedAs, OpOf, OpsOf
<1>6. LoggedAs(t, r)
  BY <1>1, SMT DEF State, Local, LoggedAs, FillingIn, HasLocksIn, OpOf, OpsOf
<1>7. SameLocks(q, r)
  BY <1>1, SMT DEF State, Local, PlacedAs, SameLocks, HeldIn, FirstOf, ReadLockedIn
<1>8. QED BY <1>2, <1>3, <1>4, <1>5, <1>6, <1>7, QuietStep DEF Local, q

LEMMA StartTsStep ==
  ASSUME LockInv, NEW t \in Thread, StartTs(t)
  PROVE  LockInv'
<1> DEFINE q == tx[t]
           r == [q EXCEPT !.pc = "run", !.valid_ts = commit_ts, !.locations_accessed = 0,
                        !.aborted_externally = FALSE, !.rolled_back = FALSE]
<1>1. q \in State /\ Local(t, q) /\ q.pc = "start_ts"
  BY ThreadFacts DEF StartTs, At
<1>2. RestTyped' /\ UNCHANGED <<read_lock, write_lock>>
  BY WithoutTyped, Constants DEF StartTs, LockInv, TypeOK, RestTyped, clocks, ghosts
<1>3. commit_ts \in Nat
  BY DEF LockInv, TypeOK
<1>4. Become(t, r)
  BY <1>3 DEF StartTs, Goto, At
<1> HIDE DEF q
<1>5. r \in State
  BY <1>1, <1>3 DEF State, PC
<1>6. PlacedAs(t, r)
  BY <1>1, <1>3, SMT DEF State, Local, PlacedAs, OpOf, OpsOf
<1>7. LoggedAs(t, r)
  BY <1>1, <1>3, SMT DEF State, Local, LoggedAs, FillingIn, HasLocksIn, OpOf, OpsOf
<1>8. SameLocks(q, r)
  BY <1>1, <1>3, SMT DEF State, Local, PlacedAs, SameLocks, HeldIn, FirstOf, ReadLockedIn
<1>9. QED BY <1>2, <1>4, <1>5, <1>6, <1>7, <1>8, QuietStep DEF Local, q

LEMMA ReadVersionStep ==
  ASSUME LockInv, NEW t \in Thread, ReadVersion(t)
  PROVE  LockInv'
<1> DEFINE q == tx[t]
           r == [q EXCEPT !.pc = "read_value", !.version = read_lock[StripeOfOp(t)]]
<1>1. q \in State /\ Local(t, q) /\ q.pc = "read_version"
  BY ThreadFacts DEF ReadVersion, At
<1>2. RestTyped' /\ UNCHANGED <<read_lock, write_lock>>
  BY Constants DEF ReadVersion, LockInv, TypeOK, RestTyped, clocks, ghosts
<1>3. read_lock[StripeOfOp(t)] \in Nat /\ read_lock[StripeOfOp(t)] >= 1
  BY <1>1, Accessing DEF ReadVersion, READ_LOCK_SET
<1>4. Become(t, r)
  BY <1>3 DEF ReadVersion, Goto, At
<1> HIDE DEF q
<1>5. r \in State
  BY <1>1, <1>3 DEF State, PC
<1>6. PlacedAs(t, r)
  BY <1>1, <1>3, SMT DEF State, Local, PlacedAs, OpOf, OpsOf
<1>7. LoggedAs(t, r)
  BY <1>1, <1>3, SMT DEF State, Local, LoggedAs, FillingIn, HasLocksIn, OpOf, OpsOf
<1>8. SameLocks(q, r)
  BY <1>1, <1>3, SMT DEF State, Local, PlacedAs, SameLocks, HeldIn, FirstOf, ReadLockedIn
<1>9. QED BY <1>2, <1>4, <1>5, <1>6, <1>7, <1>8, QuietStep DEF Local, q

LEMMA ReadValueStep ==
  ASSUME LockInv, NEW t \in Thread, ReadValue(t)
  PROVE  LockInv'
<1> DEFINE q == tx[t]
           r == [q EXCEPT !.pc = "read_check", !.value = memory[Op(t).addr]]
<1>1. q \in State /\ Local(t, q) /\ q.pc = "read_value"
  BY ThreadFacts DEF ReadValue, At
<1>2. RestTyped' /\ UNCHANGED <<read_lock, write_lock>>
  BY Constants DEF ReadValue, LockInv, TypeOK, RestTyped, clocks, ghosts
<1>3. memory[Op(t).addr] \in Nat
  BY <1>1, Accessing DEF ReadValue
<1>4. Become(t, r)
  BY <1>3 DEF ReadValue, Goto, At
<1> HIDE DEF q
<1>5. r \in State
  BY <1>1, <1>3 DEF State, PC
<1>6. PlacedAs(t, r)
  BY <1>1, <1>3, SMT DEF State, Local, PlacedAs, OpOf, OpsOf
<1>7. LoggedAs(t, r)
  BY <1>1, <1>3, SMT DEF State, Local, LoggedAs, FillingIn, HasLocksIn, OpOf, OpsOf
<1>8. SameLocks(q, r)
  BY <1>1, <1>3, SMT DEF State, Local, PlacedAs, SameLocks, HeldIn, FirstOf, ReadLockedIn
<1>9. QED BY <1>2, <1>4, <1>5, <1>6, <1>7, <1>8, QuietStep DEF Local, q

LEMMA ExtendTsStep ==
  ASSUME LockInv, NEW t \in Thread, ExtendTs(t)
  PROVE  LockInv'
<1> DEFINE q == tx[t]
           r1 == [q EXCEPT !.pc = "extended", !.ts = commit_ts, !.i = 1]
           r2 == [q EXCEPT !.pc = "extend", !.ts = commit_ts, !.i = 1]
<1>1. q \in State /\ Local(t, q) /\ q.pc = "extend_ts"
  BY ThreadFacts DEF ExtendTs, At
<1>2. RestTyped' /\ UNCHANGED <<read_lock, write_lock>>
  BY Constants DEF ExtendTs, LockInv, TypeOK, RestTyped, clocks, ghosts
<1>3. commit_ts \in Nat /\ 1 \in Nat
  BY DEF LockInv, TypeOK
<1>4. q.read_log # <<>> => 1 \in 1 .. Len(q.read_log)
  BY <1>1, EntryTyped
<1>5. q.read_log = <<>> => Become(t, r1)
  BY <1>3, <1>4 DEF ExtendTs, Goto, At
<1>6. q.read_log # <<>> => Become(t, r2)
  BY <1>3, <1>4 DEF ExtendTs, Goto, At
<1> HIDE DEF q
<1>7. CASE q.read_log = <<>>
  <2>1. r1 \in State
    BY <1>1, <1>3, <1>4 DEF State, PC
  <2>2. PlacedAs(t, r1)
    BY <1>1, <1>3, <1>4, <1>7, SMT DEF State, Local, PlacedAs, OpOf, OpsOf
  <2>3. LoggedAs(t, r1)
    BY <1>1, <1>3, <1>4, <1>7, SMT DEF State, Local, LoggedAs, FillingIn, HasLocksIn, OpOf, OpsOf
  <2>4. SameLocks(q, r1)
    BY <1>1, <1>3, <1>4, <1>7, SMT DEF State, Local, PlacedAs, SameLocks, HeldIn, FirstOf, ReadLockedIn
  <2>5. QED BY <1>2, <1>5, <1>7, <2>1, <2>2, <2>3, <2>4, QuietStep DEF Local, q
<1>8. CASE q.read_log # <<>>
  <2>1. r2 \in State
    BY <1>1, <1>3, <1>4 DEF State, PC
  <2>2. PlacedAs(t, r2)
    BY <1>1, <1>3, <1>4, <1>8, SMT DEF State, Local, PlacedAs, OpOf, OpsOf
  <2>3. LoggedAs(t, r2)
    BY <1>1, <1>3, <1>4, <1>8, SMT DEF State, Local, LoggedAs, FillingIn, HasLocksIn, OpOf, OpsOf
  <2>4. SameLocks(q, r2)
    BY <1>1, <1>3, <1>4, <1>8, SMT DEF State, Local, PlacedAs, SameLocks, HeldIn, FirstOf, ReadLockedIn
  <2>5. QED BY <1>2, <1>6, <1>8, <2>1, <2>2, <2>3, <2>4, QuietStep DEF Local, q
<1>9. QED BY <1>7, <1>8

LEMMA ValidateStep ==
  ASSUME LockInv, NEW t \in Thread, Validate(t)
  PROVE  LockInv'
<1> DEFINE q == tx[t]
           Valid == read_lock[tx[t].read_log[tx[t].i].stripe] = tx[t].read_log[tx[t].i].version
           r1 == [q EXCEPT !.pc = "restart", !.i = 1]
           r2 == [q EXCEPT !.i = q.i + 1]
           r3 == [q EXCEPT !.pc = "extended", !.i = 1]
<1>1. q \in State /\ Local(t, q) /\ q.pc = "extend"
  BY ThreadFacts DEF Validate, At
<1>2. RestTyped' /\ UNCHANGED <<read_lock, write_lock>>
  BY Constants DEF Validate, LockInv, TypeOK, RestTyped, clocks, ghosts
<1>3. q.i + 1 \in Nat /\ 1 \in Nat
  BY <1>1 DEF State
<1>4. q.i \in 1 .. Len(q.read_log) /\ Len(q.read_log) \in Nat
  BY <1>1, EntryTyped DEF Local, PlacedAs
<1>5. q.i < Len(q.read_log) => q.i + 1 \in 1 .. Len(q.read_log)
  BY <1>3, <1>4
<1>6. ~ Valid => Become(t, r1)
  BY <1>3, <1>4, <1>5 DEF Validate, Goto, At, Advance
<1>7. Valid /\ q.i < Len(q.read_log) => Become(t, r2)
  BY <1>3, <1>4, <1>5 DEF Validate, Goto, At, Advance
<1>8. Valid /\ ~ (q.i < Len(q.read_log)) => Become(t, r3)
  BY <1>3, <1>4, <1>5 DEF Validate, Goto, At, Advance
<1> HIDE DEF q, Valid
<1>9. CASE ~ Valid
  <2>1. r1 \in State
    BY <1>1, <1>3, <1>4, <1>5 DEF State, PC
  <2>2. PlacedAs(t, r1)
    BY <1>1, <1>3, <1>4, <1>5, <1>9, SMT DEF State, Local, PlacedAs, OpOf, OpsOf
  <2>3. LoggedAs(t, r1)
    BY <1>1, <1>3, <1>4, <1>5, <1>9, SMT DEF State, Local, LoggedAs, FillingIn, HasLocksIn, OpOf, OpsOf
  <2>4. SameLocks(q, r1)
    BY <1>1, <1>3, <1>4, <1>5, <1>9, SMT DEF State, Local, PlacedAs, SameLocks, HeldIn, FirstOf, ReadLockedIn
  <2>5. QED BY <1>2, <1>6, <1>9, <2>1, <2>2, <2>3, <2>4, QuietStep DEF Local, q
<1>10. CASE Valid /\ q.i < Len(q.read_log)
  <2>1. r2 \in State
    BY <1>1, <1>3, <1>4, <1>5 DEF State, PC
  <2>2. PlacedAs(t, r2)
    <3>1. /\ r2.pc = q.pc /\ r2.i = q.i + 1 /\ r2.ip = q.ip /\ r2.done = q.done
           /\ r2.version = q.version /\ r2.read_log = q.read_log /\ r2.write_log = q.write_log
      BY <1>1, SMT DEF State
    <3> HIDE DEF r2
    <3>2. QED BY <1>1, <1>3, <1>4, <1>5, <1>10, <3>1, SMT DEF Local, PlacedAs, OpOf, OpsOf
  <2>3. LoggedAs(t, r2)
    BY <1>1, <1>3, <1>4, <1>5, <1>10, SMT DEF State, Local, LoggedAs, FillingIn, HasLocksIn, OpOf, OpsOf
  <2>4. SameLocks(q, r2)
    <3>1. r2.pc = q.pc /\ r2.write_log = q.write_log
      BY <1>1, SMT DEF State
    <3> HIDE DEF r2
    <3>2. QED BY <1>1, <3>1, SMT DEF SameLocks, HeldIn, FirstOf, ReadLockedIn
  <2>5. QED BY <1>2, <1>7, <1>10, <2>1, <2>2, <2>3, <2>4, QuietStep DEF Local, q
<1>11. CASE Valid /\ ~ (q.i < Len(q.read_log))
  <2>1. r3 \in State
    BY <1>1, <1>3, <1>4, <1>5 DEF State, PC
  <2>2. PlacedAs(t, r3)
    BY <1>1, <1>3, <1>4, <1>5, <1>11, SMT DEF State, Local, PlacedAs, OpOf, OpsOf
  <2>3. LoggedAs(t, r3)
    BY <1>1, <1>3, <1>4, <1>5, <1>11, SMT DEF State, Local, LoggedAs, FillingIn, HasLocksIn, OpOf, OpsOf
  <2>4. SameLocks(q, r3)
    BY <1>1, <1>3, <1>4, <1>5, <1>11, SMT DEF State, Local, PlacedAs, SameLocks, HeldIn, FirstOf, ReadLockedIn
  <2>5. QED BY <1>2, <1>8, <1>11, <2>1, <2>2, <2>3, <2>4, QuietStep DEF Local, q
<1>12. QED BY <1>9, <1>10, <1>11

LEMMA WriteReloadStep ==
  ASSUME LockInv, NEW t \in Thread, WriteReload(t)
  PROVE  LockInv'
<1> DEFINE q == tx[t]
           r1 == [q EXCEPT !.pc = "write_cas"]
           r2 == [q EXCEPT !.pc = "write_locked"]
<1>1. q \in State /\ Local(t, q) /\ q.pc = "write_reload"
  BY ThreadFacts DEF WriteReload, At
<1>2. RestTyped' /\ UNCHANGED <<read_lock, write_lock>>
  BY Constants DEF WriteReload, LockInv, TypeOK, RestTyped, clocks, ghosts
<1>3. write_lock[StripeOfOp(t)] = NULL => Become(t, r1)
  BY DEF WriteReload, Goto, At
<1>4. write_lock[StripeOfOp(t)] # NULL => Become(t, r2)
  BY DEF WriteReload, Goto, At
<1> HIDE DEF q
<1>5. CASE write_lock[StripeOfOp(t)] = NULL
  <2>1. r1 \in State
    BY <1>1 DEF State, PC
  <2>2. PlacedAs(t, r1)
    BY <1>1, <1>5, SMT DEF State, Local, PlacedAs, OpOf, OpsOf
  <2>3. LoggedAs(t, r1)
    BY <1>1, <1>5, SMT DEF State, Local, LoggedAs, FillingIn, HasLocksIn, OpOf, OpsOf
  <2>4. SameLocks(q, r1)
    BY <1>1, <1>5, SMT DEF State, Local, PlacedAs, SameLocks, HeldIn, FirstOf, ReadLockedIn
  <2>5. QED BY <1>2, <1>3, <1>5, <2>1, <2>2, <2>3, <2>4, QuietStep DEF Local, q
<1>6. CASE write_lock[StripeOfOp(t)] # NULL
  <2>1. r2 \in State
    BY <1>1 DEF State, PC
  <2>2. PlacedAs(t, r2)
    BY <1>1, <1>6, SMT DEF State, Local, PlacedAs, OpOf, OpsOf
  <2>3. LoggedAs(t, r2)
    BY <1>1, <1>6, SMT DEF State, Local, LoggedAs, FillingIn, HasLocksIn, OpOf, OpsOf
  <2>4. SameLocks(q, r2)
    BY <1>1, <1>6, SMT DEF State, Local, PlacedAs, SameLocks, HeldIn, FirstOf, ReadLockedIn
  <2>5. QED BY <1>2, <1>4, <1>6, <2>1, <2>2, <2>3, <2>4, QuietStep DEF Local, q
<1>7. QED BY <1>5, <1>6

LEMMA WriteConflictStep ==
  ASSUME LockInv, NEW t \in Thread, WriteConflict(t)
  PROVE  LockInv'
<1> DEFINE q == tx[t]
           e == write_lock[StripeOfOp(t)]
           Weak == tx[t].aborted_externally \/ ~ HasGreedyTs(t)
           Free == ~ Weak /\ e = NULL
           Stronger == ~ Weak /\ e # NULL /\ CMStrongerThan(t, e[1])
           r1 == [q EXCEPT !.pc = "write_cas"]
           r2 == [q EXCEPT !.pc = "abort_other", !.ptr = e]
           r3 == [q EXCEPT !.pc = "restart", !.i = 1]
<1>1. q \in State /\ Local(t, q) /\ q.pc = "write_locked"
  BY ThreadFacts DEF WriteConflict, At
<1>2. RestTyped' /\ UNCHANGED <<read_lock, write_lock>>
  BY Constants DEF WriteConflict, LockInv, TypeOK, RestTyped, clocks, ghosts
<1>3. 1 \in Nat
  OBVIOUS
<1>4. e \in Ptr \cup {NULL}
  BY <1>1, Accessing DEF LockInv, TypeOK
<1>5. Stronger => e # NULL
  OBVIOUS
<1>6. Free => Become(t, r1)
  BY <1>3, <1>4, <1>5 DEF WriteConflict, Goto, At
<1>7. Stronger => Become(t, r2)
  BY <1>3, <1>4, <1>5 DEF WriteConflict, Goto, At
<1>8. ~ Free /\ ~ Stronger => Become(t, r3)
  BY <1>3, <1>4, <1>5 DEF WriteConflict, Goto, At
<1> HIDE DEF q, e, Weak, Free, Stronger
<1>9. CASE Free
  <2>1. r1 \in State
    BY <1>1, <1>3, <1>4, <1>5 DEF State, PC
  <2>2. PlacedAs(t, r1)
    BY <1>1, <1>3, <1>4, <1>5, <1>9, SMT DEF State, Local, PlacedAs, OpOf, OpsOf
  <2>3. LoggedAs(t, r1)
    BY <1>1, <1>3, <1>4, <1>5, <1>9, SMT DEF State, Local, LoggedAs, FillingIn, HasLocksIn, OpOf, OpsOf
  <2>4. SameLocks(q, r1)
    BY <1>1, <1>3, <1>4, <1>5, <1>9, SMT DEF State, Local, PlacedAs, SameLocks, HeldIn, FirstOf, ReadLockedIn
  <2>5. QED BY <1>2, <1>6, <1>9, <2>1, <2>2, <2>3, <2>4, QuietStep DEF Local, q
<1>10. CASE Stronger
  <2>1. r2 \in State
    BY <1>1, <1>3, <1>4, <1>5 DEF State, PC
  <2>2. PlacedAs(t, r2)
    BY <1>1, <1>3, <1>4, <1>5, <1>10, SMT DEF State, Local, PlacedAs, OpOf, OpsOf
  <2>3. LoggedAs(t, r2)
    BY <1>1, <1>3, <1>4, <1>5, <1>10, SMT DEF State, Local, LoggedAs, FillingIn, HasLocksIn, OpOf, OpsOf
  <2>4. SameLocks(q, r2)
    BY <1>1, <1>3, <1>4, <1>5, <1>10, SMT DEF State, Local, PlacedAs, SameLocks, HeldIn, FirstOf, ReadLockedIn
  <2>5. QED BY <1>2, <1>7, <1>10, <2>1, <2>2, <2>3, <2>4, QuietStep DEF Local, q
<1>11. CASE ~ Free /\ ~ Stronger
  <2>1. r3 \in State
    BY <1>1, <1>3, <1>4, <1>5 DEF State, PC
  <2>2. PlacedAs(t, r3)
    BY <1>1, <1>3, <1>4, <1>5, <1>11, SMT DEF State, Local, PlacedAs, OpOf, OpsOf
  <2>3. LoggedAs(t, r3)
    BY <1>1, <1>3, <1>4, <1>5, <1>11, SMT DEF State, Local, LoggedAs, FillingIn, HasLocksIn, OpOf, OpsOf
  <2>4. SameLocks(q, r3)
    BY <1>1, <1>3, <1>4, <1>5, <1>11, SMT DEF State, Local, PlacedAs, SameLocks, HeldIn, FirstOf, ReadLockedIn
  <2>5. QED BY <1>2, <1>8, <1>11, <2>1, <2>2, <2>3, <2>4, QuietStep DEF Local, q
<1>12. QED BY <1>9, <1>10, <1>11

LEMMA TxCommitStep ==
  ASSUME LockInv, NEW t \in Thread, TxCommit(t)
  PROVE  LockInv'
<1> DEFINE q == tx[t]
           r1 == [q EXCEPT !.pc = "committed", !.i = 1]
           r2 == [q EXCEPT !.pc = "lock_reads", !.i = 1]
<1>1. q \in State /\ Local(t, q) /\ q.pc = "run"
  BY ThreadFacts DEF TxCommit, At
<1>2. RestTyped' /\ UNCHANGED <<read_lock, write_lock>>
  BY Constants DEF TxCommit, LockInv, TypeOK, RestTyped, clocks, ghosts
<1>3. 1 \in Nat
  OBVIOUS
<1>4. q.write_log # <<>> => 1 \in 1 .. Len(q.write_log)
  BY <1>1, EntryTyped
<1>5. q.write_log = <<>> => Become(t, r1)
  BY <1>3, <1>4 DEF TxCommit, Goto, At
<1>6. q.write_log # <<>> => Become(t, r2)
  BY <1>3, <1>4 DEF TxCommit, Goto, At
<1> HIDE DEF q
<1>7. CASE q.write_log = <<>>
  <2>1. r1 \in State
    BY <1>1, <1>3, <1>4 DEF State, PC
  <2>2. PlacedAs(t, r1)
    BY <1>1, <1>3, <1>4, <1>7, SMT DEF State, Local, PlacedAs, OpOf, OpsOf
  <2>3. LoggedAs(t, r1)
    BY <1>1, <1>3, <1>4, <1>7, SMT DEF State, Local, LoggedAs, FillingIn, HasLocksIn, OpOf, OpsOf
  <2>4. SameLocks(q, r1)
    BY <1>1, <1>3, <1>4, <1>7, SMT DEF State, Local, PlacedAs, SameLocks, HeldIn, FirstOf, ReadLockedIn
  <2>5. QED BY <1>2, <1>5, <1>7, <2>1, <2>2, <2>3, <2>4, QuietStep DEF Local, q
<1>8. CASE q.write_log # <<>>
  <2>1. r2 \in State
    BY <1>1, <1>3, <1>4 DEF State, PC
  <2>2. PlacedAs(t, r2)
    BY <1>1, <1>3, <1>4, <1>8, SMT DEF State, Local, PlacedAs, OpOf, OpsOf
  <2>3. LoggedAs(t, r2)
    BY <1>1, <1>3, <1>4, <1>8, SMT DEF State, Local, LoggedAs, FillingIn, HasLocksIn, OpOf, OpsOf
  <2>4. SameLocks(q, r2)
    BY <1>1, <1>3, <1>4, <1>8, SMT DEF State, Local, PlacedAs, SameLocks, HeldIn, FirstOf, ReadLockedIn
  <2>5. QED BY <1>2, <1>6, <1>8, <2>1, <2>2, <2>3, <2>4, QuietStep DEF Local, q
<1>9. QED BY <1>7, <1>8

LEMMA IncrementCommitTsStep ==
  ASSUME LockInv, NEW t \in Thread, IncrementCommitTs(t)
  PROVE  LockInv'
<1> DEFINE q == tx[t]
           Over == commit_ts + 1 >= MAXIMUM_TS
           Skips == Unchanged(t, commit_ts + 1) \/ tx[t].read_log = <<>>
           r1 == [q EXCEPT !.ts = commit_ts + 1, !.pc = "overflow"]
           r2 == [q EXCEPT !.ts = commit_ts + 1, !.pc = "write_back"]
           r3 == [q EXCEPT !.ts = commit_ts + 1, !.pc = "validate"]
<1>1. q \in State /\ Local(t, q) /\ q.pc = "increment_ts"
  BY ThreadFacts DEF IncrementCommitTs, At
<1>2. RestTyped' /\ UNCHANGED <<read_lock, write_lock>>
  BY Constants DEF IncrementCommitTs, LockInv, TypeOK, RestTyped, clocks, ghosts
<1>3. commit_ts + 1 \in Nat /\ commit_ts + 1 >= 1 /\ 1 \in Nat
  BY DEF LockInv, TypeOK
<1>4. q.i = 1 /\ 1 \in 1 .. Len(q.write_log) /\ (~ Skips => 1 \in 1 .. Len(q.read_log))
  BY <1>1, EntryTyped DEF Local, PlacedAs
<1>5. Over => Become(t, r1)
  BY <1>3, <1>4 DEF IncrementCommitTs, Goto, At
<1>6. ~ Over /\ Skips => Become(t, r2)
  BY <1>3, <1>4 DEF IncrementCommitTs, Goto, At
<1>7. ~ Over /\ ~ Skips => Become(t, r3)
  BY <1>3, <1>4 DEF IncrementCommitTs, Goto, At
<1> HIDE DEF q, Over, Skips
<1>8. CASE Over
  <2>1. r1 \in State
    BY <1>1, <1>3, <1>4 DEF State, PC
  <2>2. PlacedAs(t, r1)
    BY <1>1, <1>3, <1>4, <1>8, SMT DEF State, Local, PlacedAs, OpOf, OpsOf
  <2>3. LoggedAs(t, r1)
    BY <1>1, <1>3, <1>4, <1>8, SMT DEF State, Local, LoggedAs, FillingIn, HasLocksIn, OpOf, OpsOf
  <2>4. SameLocks(q, r1)
    BY <1>1, <1>3, <1>4, <1>8, SMT DEF State, Local, PlacedAs, SameLocks, HeldIn, FirstOf, ReadLockedIn
  <2>5. QED BY <1>2, <1>5, <1>8, <2>1, <2>2, <2>3, <2>4, QuietStep DEF Local, q
<1>9. CASE ~ Over /\ Skips
  <2>1. r2 \in State
    BY <1>1, <1>3, <1>4 DEF State, PC
  <2>2. PlacedAs(t, r2)
    BY <1>1, <1>3, <1>4, <1>9, SMT DEF State, Local, PlacedAs, OpOf, OpsOf
  <2>3. LoggedAs(t, r2)
    BY <1>1, <1>3, <1>4, <1>9, SMT DEF State, Local, LoggedAs, FillingIn, HasLocksIn, OpOf, OpsOf
  <2>4. SameLocks(q, r2)
    BY <1>1, <1>3, <1>4, <1>9, SMT DEF State, Local, PlacedAs, SameLocks, HeldIn, FirstOf, ReadLockedIn
  <2>5. QED BY <1>2, <1>6, <1>9, <2>1, <2>2, <2>3, <2>4, QuietStep DEF Local, q
<1>10. CASE ~ Over /\ ~ Skips
  <2>1. r3 \in State
    BY <1>1, <1>3, <1>4 DEF State, PC
  <2>2. PlacedAs(t, r3)
    BY <1>1, <1>3, <1>4, <1>10, SMT DEF State, Local, PlacedAs, OpOf, OpsOf
  <2>3. LoggedAs(t, r3)
    BY <1>1, <1>3, <1>4, <1>10, SMT DEF State, Local, LoggedAs, FillingIn, HasLocksIn, OpOf, OpsOf
  <2>4. SameLocks(q, r3)
    BY <1>1, <1>3, <1>4, <1>10, SMT DEF State, Local, PlacedAs, SameLocks, HeldIn, FirstOf, ReadLockedIn
  <2>5. QED BY <1>2, <1>7, <1>10, <2>1, <2>2, <2>3, <2>4, QuietStep DEF Local, q
<1>11. QED BY <1>8, <1>9, <1>10

LEMMA ValidateCommitStep ==
  ASSUME LockInv, NEW t \in Thread, ValidateCommit(t)
  PROVE  LockInv'
<1> DEFINE q == tx[t]
           entry == tx[t].read_log[tx[t].i]
           now == read_lock[entry.stripe]
           Valid == now = entry.version \/ (now = READ_LOCK_SET /\ LockedByMe(t, write_lock[entry.stripe]))
           r1 == [q EXCEPT !.pc = "release", !.i = 1]
           r2 == [q EXCEPT !.i = q.i + 1]
           r3 == [q EXCEPT !.pc = "write_back", !.i = 1]
<1>1. q \in State /\ Local(t, q) /\ q.pc = "validate"
  BY ThreadFacts DEF ValidateCommit, At
<1>2. RestTyped' /\ UNCHANGED <<read_lock, write_lock>>
  BY Constants DEF ValidateCommit, LockInv, TypeOK, RestTyped, clocks, ghosts
<1>3. q.i + 1 \in Nat /\ 1 \in Nat
  BY <1>1 DEF State
<1>4. q.i \in 1 .. Len(q.read_log) /\ Len(q.read_log) \in Nat
  BY <1>1, EntryTyped DEF Local, PlacedAs
<1>5. ~ Valid => Become(t, r1)
  BY <1>3, <1>4 DEF ValidateCommit, Goto, At, Advance
<1>6. Valid /\ q.i < Len(q.read_log) => Become(t, r2)
  BY <1>3, <1>4 DEF ValidateCommit, Goto, At, Advance
<1>7. Valid /\ ~ (q.i < Len(q.read_log)) => Become(t, r3)
  BY <1>3, <1>4 DEF ValidateCommit, Goto, At, Advance
<1> HIDE DEF q, entry, now, Valid
<1>8. CASE ~ Valid
  <2>1. r1 \in State
    BY <1>1, <1>3, <1>4 DEF State, PC
  <2>2. PlacedAs(t, r1)
    BY <1>1, <1>3, <1>4, <1>8, SMT DEF State, Local, PlacedAs, OpOf, OpsOf
  <2>3. LoggedAs(t, r1)
    BY <1>1, <1>3, <1>4, <1>8, SMT DEF State, Local, LoggedAs, FillingIn, HasLocksIn, OpOf, OpsOf
  <2>4. SameLocks(q, r1)
    BY <1>1, <1>3, <1>4, <1>8, SMT DEF State, Local, PlacedAs, SameLocks, HeldIn, FirstOf, ReadLockedIn
  <2>5. QED BY <1>2, <1>5, <1>8, <2>1, <2>2, <2>3, <2>4, QuietStep DEF Local, q
<1>9. CASE Valid /\ q.i < Len(q.read_log)
  <2>1. r2 \in State
    BY <1>1, <1>3, <1>4 DEF State, PC
  <2>2. PlacedAs(t, r2)
    <3>1. /\ r2.pc = q.pc /\ r2.i = q.i + 1 /\ r2.ip = q.ip /\ r2.done = q.done /\ r2.ts = q.ts
          /\ r2.version = q.version /\ r2.read_log = q.read_log /\ r2.write_log = q.write_log
      BY <1>1, SMT DEF State
    <3> HIDE DEF r2
    <3>2. QED BY <1>1, <1>3, <1>4, <1>9, <3>1, SMT DEF Local, PlacedAs, OpOf, OpsOf
  <2>3. LoggedAs(t, r2)
    BY <1>1, <1>3, <1>4, <1>9, SMT DEF State, Local, LoggedAs, FillingIn, HasLocksIn, OpOf, OpsOf
  <2>4. SameLocks(q, r2)
    BY <1>1, <1>3, <1>4, <1>9, SMT DEF State, Local, PlacedAs, SameLocks, HeldIn, FirstOf, ReadLockedIn
  <2>5. QED BY <1>2, <1>6, <1>9, <2>1, <2>2, <2>3, <2>4, QuietStep DEF Local, q
<1>10. CASE Valid /\ ~ (q.i < Len(q.read_log))
  <2>1. r3 \in State
    BY <1>1, <1>3, <1>4 DEF State, PC
  <2>2. PlacedAs(t, r3)
    BY <1>1, <1>3, <1>4, <1>10, SMT DEF State, Local, PlacedAs, OpOf, OpsOf
  <2>3. LoggedAs(t, r3)
    BY <1>1, <1>3, <1>4, <1>10, SMT DEF State, Local, LoggedAs, FillingIn, HasLocksIn, OpOf, OpsOf
  <2>4. SameLocks(q, r3)
    BY <1>1, <1>3, <1>4, <1>10, SMT DEF State, Local, PlacedAs, SameLocks, HeldIn, FirstOf, ReadLockedIn
  <2>5. QED BY <1>2, <1>7, <1>10, <2>1, <2>2, <2>3, <2>4, QuietStep DEF Local, q
<1>11. QED BY <1>8, <1>9, <1>10

LEMMA WriteBackStep ==
  ASSUME LockInv, NEW t \in Thread, WriteBack(t)
  PROVE  LockInv'
<1> DEFINE q == tx[t]
           r == [q EXCEPT !.pc = "unlock_read"]
<1>1. q \in State /\ Local(t, q) /\ q.pc = "write_back"
  BY ThreadFacts DEF WriteBack, At
<1>2. RestTyped' /\ UNCHANGED <<read_lock, write_lock>>
  BY WriteBackTyped, Constants DEF WriteBack, LockInv, TypeOK, RestTyped, clocks, ghosts
<1>3. Become(t, r)
  BY DEF WriteBack, Goto, At
<1> HIDE DEF q
<1>4. r \in State
  BY <1>1 DEF State, PC
<1>5. PlacedAs(t, r)
  BY <1>1, SMT DEF State, Local, PlacedAs, OpOf, OpsOf
<1>6. LoggedAs(t, r)
  BY <1>1, SMT DEF State, Local, LoggedAs, FillingIn, HasLocksIn, OpOf, OpsOf
<1>7. SameLocks(q, r)
  BY <1>1, SMT DEF State, Local, PlacedAs, SameLocks, HeldIn, FirstOf, ReadLockedIn
<1>8. QED BY <1>2, <1>3, <1>4, <1>5, <1>6, <1>7, QuietStep DEF Local, q

LEMMA TxRestartedStep ==
  ASSUME LockInv, NEW t \in Thread, TxRestarted(t)
  PROVE  LockInv'
<1> DEFINE q == tx[t]
           r == [q EXCEPT !.pc = "start", !.status = "restarted", !.i = 0]
<1>1. q \in State /\ Local(t, q) /\ q.pc = "restart"
  BY ThreadFacts DEF TxRestarted, At
<1>2. RestTyped' /\ UNCHANGED <<read_lock, write_lock>>
  BY Constants DEF TxRestarted, LockInv, TypeOK, RestTyped, clocks, ghosts
<1>3. q.rolled_back /\ q.write_log = <<>> /\ Len(q.write_log) = 0
  BY <1>1, EntryTyped DEF Local, LoggedAs, TxRestarted
<1>4. q.rolled_back /\ 0 \in Nat
  BY DEF TxRestarted
<1>5. Become(t, r)
  BY <1>3, <1>4 DEF TxRestarted, Goto, At
<1> HIDE DEF q
<1>6. r \in State
  BY <1>1, <1>3, <1>4 DEF State, PC
<1>7. PlacedAs(t, r)
  BY <1>1, <1>3, <1>4, SMT DEF State, Local, PlacedAs, OpOf, OpsOf
<1>8. LoggedAs(t, r)
  BY <1>1, <1>3, <1>4, SMT DEF State, Local, LoggedAs, FillingIn, HasLocksIn, OpOf, OpsOf
<1>9. SameLocks(q, r)
  BY <1>1, <1>3, <1>4, SMT DEF State, Local, PlacedAs, SameLocks, HeldIn, FirstOf, ReadLockedIn
<1>10. QED BY <1>2, <1>5, <1>6, <1>7, <1>8, <1>9, QuietStep DEF Local, q

LEMMA TxAbortStep ==
  ASSUME LockInv, NEW t \in Thread, TxAbort(t)
  PROVE  LockInv'
<1> DEFINE q == tx[t]
           r == [q EXCEPT !.pc = "abort", !.i = 1]
<1>1. q \in State /\ Local(t, q) /\ q.pc = "run"
  BY ThreadFacts DEF TxAbort, At, Doing
<1>2. RestTyped' /\ UNCHANGED <<read_lock, write_lock>>
  BY Constants DEF TxAbort, LockInv, TypeOK, RestTyped, clocks, ghosts
<1>3. 1 \in Nat
  OBVIOUS
<1>4. Become(t, r)
  BY <1>3 DEF TxAbort, Goto, At, Doing
<1> HIDE DEF q
<1>5. r \in State
  BY <1>1, <1>3 DEF State, PC
<1>6. PlacedAs(t, r)
  BY <1>1, <1>3, SMT DEF State, Local, PlacedAs, OpOf, OpsOf
<1>7. LoggedAs(t, r)
  BY <1>1, <1>3, SMT DEF State, Local, LoggedAs, FillingIn, HasLocksIn, OpOf, OpsOf
<1>8. SameLocks(q, r)
  BY <1>1, <1>3, SMT DEF State, Local, PlacedAs, SameLocks, HeldIn, FirstOf, ReadLockedIn
<1>9. QED BY <1>2, <1>4, <1>5, <1>6, <1>7, <1>8, QuietStep DEF Local, q

LEMMA TxAbortedStep ==
  ASSUME LockInv, NEW t \in Thread, TxAborted(t)
  PROVE  LockInv'
<1> DEFINE q == tx[t]
           r == [q EXCEPT !.pc = "start", !.status = "aborted", !.done = q.done + 1, !.i = 0]
<1>1. q \in State /\ Local(t, q) /\ q.pc = "abort"
  BY ThreadFacts DEF TxAborted, At
<1>2. RestTyped' /\ UNCHANGED <<read_lock, write_lock>>
  BY Constants DEF TxAborted, LockInv, TypeOK, RestTyped, clocks, ghosts
<1>3. q.rolled_back /\ q.write_log = <<>> /\ Len(q.write_log) = 0
  BY <1>1, EntryTyped DEF Local, LoggedAs, TxAborted
<1>4. q.rolled_back /\ 0 \in Nat /\ q.done + 1 \in Nat
  BY <1>1 DEF TxAborted, State
<1>5. Become(t, r)
  BY <1>3, <1>4 DEF TxAborted, Goto, At
<1> HIDE DEF q
<1>6. r \in State
  BY <1>1, <1>3, <1>4 DEF State, PC
<1>7. PlacedAs(t, r)
  BY <1>1, <1>3, <1>4, SMT DEF State, Local, PlacedAs, OpOf, OpsOf
<1>8. LoggedAs(t, r)
  BY <1>1, <1>3, <1>4, SMT DEF State, Local, LoggedAs, FillingIn, HasLocksIn, OpOf, OpsOf
<1>9. SameLocks(q, r)
  BY <1>1, <1>3, <1>4, SMT DEF State, Local, PlacedAs, SameLocks, HeldIn, FirstOf, ReadLockedIn
<1>10. QED BY <1>2, <1>5, <1>6, <1>7, <1>8, <1>9, QuietStep DEF Local, q

LEMMA OverflowStep ==
  ASSUME LockInv, NEW t \in Thread, Overflow(t)
  PROVE  LockInv'
<1> DEFINE q == tx[t]
           r == [q EXCEPT !.status = "aborted", !.pc = "overflow_release", !.i = 1]
<1>1. q \in State /\ Local(t, q) /\ q.pc = "overflow"
  BY ThreadFacts DEF Overflow, At
<1>2. RestTyped' /\ UNCHANGED <<read_lock, write_lock>>
  BY Constants DEF Overflow, LockInv, TypeOK, RestTyped, clocks, ghosts
<1>3. 1 \in Nat /\ 1 \in 1 .. Len(q.write_log)
  BY <1>1, EntryTyped DEF Local, PlacedAs
<1>4. Become(t, r)
  BY <1>3 DEF Overflow, Goto, At
<1> HIDE DEF q
<1>5. r \in State
  BY <1>1, <1>3 DEF State, PC
<1>6. PlacedAs(t, r)
  BY <1>1, <1>3, SMT DEF State, Local, PlacedAs, OpOf, OpsOf
<1>7. LoggedAs(t, r)
  BY <1>1, <1>3, SMT DEF State, Local, LoggedAs, FillingIn, HasLocksIn, OpOf, OpsOf
<1>8. SameLocks(q, r)
  BY <1>1, <1>3, SMT DEF State, Local, PlacedAs, SameLocks, HeldIn, FirstOf, ReadLockedIn
<1>9. QED BY <1>2, <1>4, <1>5, <1>6, <1>7, <1>8, QuietStep DEF Local, q

LEMMA StartSynchronizationStep ==
  ASSUME LockInv, NEW t \in Thread, StartSynchronization(t)
  PROVE  LockInv'
<1> DEFINE q == tx[t]
           r1 == [q EXCEPT !.pc = "sync_other"]
           r2 == [q EXCEPT !.pc = "sync_wait", !.i = 1]
<1>1. q \in State /\ Local(t, q) /\ q.pc = "sync"
  BY ThreadFacts DEF StartSynchronization, At
<1>2. RestTyped' /\ UNCHANGED <<read_lock, write_lock>>
  BY Constants DEF StartSynchronization, LockInv, TypeOK, RestTyped, clocks, ghosts
<1>3. 1 \in Nat
  OBVIOUS
<1>4. 1 \in Thread
  BY Constants DEF Thread
<1>5. synchronization_in_progress => Become(t, r1)
  BY <1>3, <1>4 DEF StartSynchronization, Goto, At
<1>6. ~ synchronization_in_progress => Become(t, r2)
  BY <1>3, <1>4 DEF StartSynchronization, Goto, At
<1> HIDE DEF q
<1>7. CASE synchronization_in_progress
  <2>1. r1 \in State
    BY <1>1, <1>3, <1>4 DEF State, PC
  <2>2. PlacedAs(t, r1)
    BY <1>1, <1>3, <1>4, <1>7, SMT DEF State, Local, PlacedAs, OpOf, OpsOf
  <2>3. LoggedAs(t, r1)
    BY <1>1, <1>3, <1>4, <1>7, SMT DEF State, Local, LoggedAs, FillingIn, HasLocksIn, OpOf, OpsOf
  <2>4. SameLocks(q, r1)
    BY <1>1, <1>3, <1>4, <1>7, SMT DEF State, Local, PlacedAs, SameLocks, HeldIn, FirstOf, ReadLockedIn
  <2>5. QED BY <1>2, <1>5, <1>7, <2>1, <2>2, <2>3, <2>4, QuietStep DEF Local, q
<1>8. CASE ~ synchronization_in_progress
  <2>1. r2 \in State
    BY <1>1, <1>3, <1>4 DEF State, PC
  <2>2. PlacedAs(t, r2)
    BY <1>1, <1>3, <1>4, <1>8, SMT DEF State, Local, PlacedAs, OpOf, OpsOf
  <2>3. LoggedAs(t, r2)
    BY <1>1, <1>3, <1>4, <1>8, SMT DEF State, Local, LoggedAs, FillingIn, HasLocksIn, OpOf, OpsOf
  <2>4. SameLocks(q, r2)
    BY <1>1, <1>3, <1>4, <1>8, SMT DEF State, Local, PlacedAs, SameLocks, HeldIn, FirstOf, ReadLockedIn
  <2>5. QED BY <1>2, <1>6, <1>8, <2>1, <2>2, <2>3, <2>4, QuietStep DEF Local, q
<1>9. QED BY <1>7, <1>8

LEMMA SyncWaitStep ==
  ASSUME LockInv, NEW t \in Thread, SyncWait(t)
  PROVE  LockInv'
<1> DEFINE q == tx[t]
           r1 == [q EXCEPT !.i = q.i + 1]
           r2 == [q EXCEPT !.pc = "restart_ts", !.i = 1]
<1>1. q \in State /\ Local(t, q) /\ q.pc = "sync_wait"
  BY ThreadFacts DEF SyncWait, At
<1>2. RestTyped' /\ UNCHANGED <<read_lock, write_lock>>
  BY Constants DEF SyncWait, LockInv, TypeOK, RestTyped, clocks, ghosts
<1>3. 1 \in Nat /\ q.i + 1 \in Nat
  BY <1>1 DEF State
<1>4. q.i \in Thread
  BY <1>1 DEF Local, PlacedAs
<1>5. q.i < NThreads => q.i + 1 \in Thread
  BY <1>4, Constants DEF Thread
<1>6. q.i < NThreads => Become(t, r1)
  BY <1>3, <1>4, <1>5 DEF SyncWait, Goto, At, Advance
<1>7. ~ (q.i < NThreads) => Become(t, r2)
  BY <1>3, <1>4, <1>5 DEF SyncWait, Goto, At, Advance
<1> HIDE DEF q
<1>8. CASE q.i < NThreads
  <2>1. r1 \in State
    BY <1>1, <1>3, <1>4, <1>5 DEF State, PC
  <2>2. PlacedAs(t, r1)
    BY <1>1, <1>3, <1>4, <1>5, <1>8, SMT DEF State, Local, PlacedAs, OpOf, OpsOf
  <2>3. LoggedAs(t, r1)
    BY <1>1, <1>3, <1>4, <1>5, <1>8, SMT DEF State, Local, LoggedAs, FillingIn, HasLocksIn, OpOf, OpsOf
  <2>4. SameLocks(q, r1)
    BY <1>1, <1>3, <1>4, <1>5, <1>8, SMT DEF State, Local, PlacedAs, SameLocks, HeldIn, FirstOf, ReadLockedIn
  <2>5. QED BY <1>2, <1>6, <1>8, <2>1, <2>2, <2>3, <2>4, QuietStep DEF Local, q
<1>9. CASE ~ (q.i < NThreads)
  <2>1. r2 \in State
    BY <1>1, <1>3, <1>4, <1>5 DEF State, PC
  <2>2. PlacedAs(t, r2)
    BY <1>1, <1>3, <1>4, <1>5, <1>9, SMT DEF State, Local, PlacedAs, OpOf, OpsOf
  <2>3. LoggedAs(t, r2)
    BY <1>1, <1>3, <1>4, <1>5, <1>9, SMT DEF State, Local, LoggedAs, FillingIn, HasLocksIn, OpOf, OpsOf
  <2>4. SameLocks(q, r2)
    BY <1>1, <1>3, <1>4, <1>5, <1>9, SMT DEF State, Local, PlacedAs, SameLocks, HeldIn, FirstOf, ReadLockedIn
  <2>5. QED BY <1>2, <1>7, <1>9, <2>1, <2>2, <2>3, <2>4, QuietStep DEF Local, q
<1>10. QED BY <1>8, <1>9

LEMMA RestartCommitTsStep ==
  ASSUME LockInv, NEW t \in Thread, RestartCommitTs(t)
  PROVE  LockInv'
<1> DEFINE q == tx[t]
           r == [q EXCEPT !.pc = "restart_locks"]
<1>1. q \in State /\ Local(t, q) /\ q.pc = "restart_ts"
  BY ThreadFacts DEF RestartCommitTs, At
<1>2. RestTyped' /\ UNCHANGED <<read_lock, write_lock>>
  BY Constants DEF RestartCommitTs, LockInv, TypeOK, RestTyped, clocks, ghosts, MINIMUM_TS
<1>3. Become(t, r)
  BY DEF RestartCommitTs, Goto, At
<1> HIDE DEF q
<1>4. r \in State
  BY <1>1 DEF State, PC
<1>5. PlacedAs(t, r)
  BY <1>1, SMT DEF State, Local, PlacedAs, OpOf, OpsOf
<1>6. LoggedAs(t, r)
  BY <1>1, SMT DEF State, Local, LoggedAs, FillingIn, HasLocksIn, OpOf, OpsOf
<1>7. SameLocks(q, r)
  BY <1>1, SMT DEF State, Local, PlacedAs, SameLocks, HeldIn, FirstOf, ReadLockedIn
<1>8. QED BY <1>2, <1>3, <1>4, <1>5, <1>6, <1>7, QuietStep DEF Local, q

LEMMA EndSynchronizationStep ==
  ASSUME LockInv, NEW t \in Thread, EndSynchronization(t)
  PROVE  LockInv'
<1> DEFINE q == tx[t]
           r == [q EXCEPT !.pc = "restart"]
<1>1. q \in State /\ Local(t, q) /\ q.pc = "end_sync"
  BY ThreadFacts DEF EndSynchronization, At
<1>2. RestTyped' /\ UNCHANGED <<read_lock, write_lock>>
  BY Constants DEF EndSynchronization, LockInv, TypeOK, RestTyped, clocks, ghosts
<1>3. q.rolled_back /\ q.write_log = <<>> /\ Len(q.write_log) = 0
  BY <1>1, EntryTyped DEF Local, LoggedAs
<1>4. Become(t, r)
  BY <1>3 DEF EndSynchronization, Goto, At
<1> HIDE DEF q
<1>5. r \in State
  BY <1>1, <1>3 DEF State, PC
<1>6. PlacedAs(t, r)
  BY <1>1, <1>3, SMT DEF State, Local, PlacedAs, OpOf, OpsOf
<1>7. LoggedAs(t, r)
  BY <1>1, <1>3, SMT DEF State, Local, LoggedAs, FillingIn, HasLocksIn, OpOf, OpsOf
<1>8. SameLocks(q, r)
  BY <1>1, <1>3, SMT DEF State, Local, PlacedAs, SameLocks, HeldIn, FirstOf, ReadLockedIn
<1>9. QED BY <1>2, <1>4, <1>5, <1>6, <1>7, <1>8, QuietStep DEF Local, q

LEMMA SyncOtherStep ==
  ASSUME LockInv, NEW t \in Thread, SyncOther(t)
  PROVE  LockInv'
<1> DEFINE q == tx[t]
           r1 == [q EXCEPT !.status = "idle", !.pc = "sync_other_wait"]
           r2 == [q EXCEPT !.pc = "restart"]
<1>1. q \in State /\ Local(t, q) /\ q.pc = "sync_other"
  BY ThreadFacts DEF SyncOther, At
<1>2. RestTyped' /\ UNCHANGED <<read_lock, write_lock>>
  BY Constants DEF SyncOther, LockInv, TypeOK, RestTyped, clocks, ghosts
<1>3. q.rolled_back /\ q.write_log = <<>> /\ Len(q.write_log) = 0
  BY <1>1, EntryTyped DEF Local, LoggedAs
<1>4. synchronization_in_progress => Become(t, r1)
  BY <1>3 DEF SyncOther, Goto, At
<1>5. ~ synchronization_in_progress => Become(t, r2)
  BY <1>3 DEF SyncOther, Goto, At
<1> HIDE DEF q
<1>6. CASE synchronization_in_progress
  <2>1. r1 \in State
    BY <1>1, <1>3 DEF State, PC
  <2>2. PlacedAs(t, r1)
    BY <1>1, <1>3, <1>6, SMT DEF State, Local, PlacedAs, OpOf, OpsOf
  <2>3. LoggedAs(t, r1)
    BY <1>1, <1>3, <1>6, SMT DEF State, Local, LoggedAs, FillingIn, HasLocksIn, OpOf, OpsOf
  <2>4. SameLocks(q, r1)
    BY <1>1, <1>3, <1>6, SMT DEF State, Local, PlacedAs, SameLocks, HeldIn, FirstOf, ReadLockedIn
  <2>5. QED BY <1>2, <1>4, <1>6, <2>1, <2>2, <2>3, <2>4, QuietStep DEF Local, q
<1>7. CASE ~ synchronization_in_progress
  <2>1. r2 \in State
    BY <1>1, <1>3 DEF State, PC
  <2>2. PlacedAs(t, r2)
    BY <1>1, <1>3, <1>7, SMT DEF State, Local, PlacedAs, OpOf, OpsOf
  <2>3. LoggedAs(t, r2)
    BY <1>1, <1>3, <1>7, SMT DEF State, Local, LoggedAs, FillingIn, HasLocksIn, OpOf, OpsOf
  <2>4. SameLocks(q, r2)
    BY <1>1, <1>3, <1>7, SMT DEF State, Local, PlacedAs, SameLocks, HeldIn, FirstOf, ReadLockedIn
  <2>5. QED BY <1>2, <1>5, <1>7, <2>1, <2>2, <2>3, <2>4, QuietStep DEF Local, q
<1>8. QED BY <1>6, <1>7

LEMMA SyncOtherWaitStep ==
  ASSUME LockInv, NEW t \in Thread, SyncOtherWait(t)
  PROVE  LockInv'
<1> DEFINE q == tx[t]
           r == [q EXCEPT !.pc = "restart"]
<1>1. q \in State /\ Local(t, q) /\ q.pc = "sync_other_wait"
  BY ThreadFacts DEF SyncOtherWait, At
<1>2. RestTyped' /\ UNCHANGED <<read_lock, write_lock>>
  BY Constants DEF SyncOtherWait, LockInv, TypeOK, RestTyped, clocks, ghosts
<1>3. q.rolled_back /\ q.write_log = <<>> /\ Len(q.write_log) = 0
  BY <1>1, EntryTyped DEF Local, LoggedAs
<1>4. Become(t, r)
  BY <1>3 DEF SyncOtherWait, Goto, At
<1> HIDE DEF q
<1>5. r \in State
  BY <1>1, <1>3 DEF State, PC
<1>6. PlacedAs(t, r)
  BY <1>1, <1>3, SMT DEF State, Local, PlacedAs, OpOf, OpsOf
<1>7. LoggedAs(t, r)
  BY <1>1, <1>3, SMT DEF State, Local, LoggedAs, FillingIn, HasLocksIn, OpOf, OpsOf
<1>8. SameLocks(q, r)
  BY <1>1, <1>3, SMT DEF State, Local, PlacedAs, SameLocks, HeldIn, FirstOf, ReadLockedIn
<1>9. QED BY <1>2, <1>4, <1>5, <1>6, <1>7, <1>8, QuietStep DEF Local, q
\* The log of an operation that is over: every entry has a version, and words of
\* its own stripe.
LogDone(p) ==
  \A n \in 1 .. Len(p.write_log) :
    /\ p.write_log[n].old_version >= 1
    /\ \A a \in Addr : p.write_log[n].words[a] # NULL => StripeOf[a] = p.write_log[n].stripe

LEMMA DoneLog ==
  ASSUME NEW t \in Thread, NEW q \in State, LoggedAs(t, q),
         ~ FillingIn(t, q), q.pc \notin Undoing
  PROVE  LogDone(q)
  BY DEF LoggedAs, LogDone

\* The application goes on: it holds every stripe of its log, and no read lock.
LEMMA ToNextOp ==
  ASSUME NEW t \in Thread, NEW p \in State, p.ip >= 1, p.done < Len(Code[t]),
         ~ p.rolled_back, LogDone(p)
  PROVE  /\ NextOp(p) \in State /\ Local(t, NextOp(p))
         /\ NextOp(p).write_log = p.write_log
         /\ HeldIn(NextOp(p)) = 1 .. Len(p.write_log) /\ ReadLockedIn(NextOp(p)) = {}
<1> DEFINE r == NextOp(p)
<1>1. /\ r \in State /\ r.pc = "run" /\ r.ip = p.ip + 1 /\ r.done = p.done
      /\ r.rolled_back = p.rolled_back /\ r.write_log = p.write_log
  BY NextOpTyped
<1> HIDE DEF r
<1>2. PlacedAs(t, r)
  <2>1. p.ip \in Nat
    BY DEF State
  <2>2. r.ip >= 1 /\ r.done < Len(Code[t])
    BY <1>1, <2>1
  <2>3. QED BY <1>1, <2>2, SMT DEF PlacedAs
<1>3. LoggedAs(t, r)
  BY <1>1, SMT DEF LogDone, LoggedAs, HasLocksIn, FillingIn
<1>4. HeldIn(r) = 1 .. Len(p.write_log) /\ ReadLockedIn(r) = {}
  BY <1>1, SMT DEF State, HeldIn, FirstOf, ReadLockedIn
<1>5. QED BY <1>1, <1>2, <1>3, <1>4 DEF Local, r

\* What a thread holds during an access.
LEMMA AccessHolds ==
  ASSUME NEW t \in Thread, NEW q \in State, Local(t, q), q.pc \in AccessPc \cup {"run"}
  PROVE  /\ HeldIn(q) = 1 .. Len(q.write_log) /\ ReadLockedIn(q) = {}
         /\ q.ip >= 1 /\ q.done < Len(Code[t]) /\ ~ q.rolled_back
         /\ q.pc \in AccessPc => q.ip <= Len(OpsOf(t, q))
<1>1. HeldIn(q) = 1 .. Len(q.write_log) /\ ReadLockedIn(q) = {}
  <2>1. FirstOf(q) = 1 /\ q.pc # "committed"
    BY DEF FirstOf
  <2>2. HeldIn(q) = 1 .. Len(q.write_log)
    BY <2>1, SMT DEF State, HeldIn
  <2>3. ReadLockedIn(q) = {}
    BY DEF ReadLockedIn
  <2>4. QED BY <2>2, <2>3
<1>2. /\ q.ip >= 1 /\ q.done < Len(Code[t])
      /\ q.pc \in AccessPc => q.ip <= Len(OpsOf(t, q))
  BY SMT DEF Local, PlacedAs
<1>3. ~ q.rolled_back
  BY SMT DEF Local, LoggedAs, HasLocksIn
<1>4. QED BY <1>1, <1>2, <1>3

\* An operation ends and leaves the locks alone.
LEMMA OperationEnds ==
  ASSUME LockInv, NEW t \in Thread, tx[t].pc \in AccessPc \cup {"run"}, NEW p \in State,
         p.ip = tx[t].ip, p.done = tx[t].done, p.rolled_back = tx[t].rolled_back, LogDone(p),
         Len(p.write_log) = Len(tx[t].write_log),
         \A n \in 1 .. Len(p.write_log) : p.write_log[n].stripe = tx[t].write_log[n].stripe,
         Become(t, NextOp(p)), UNCHANGED <<read_lock, write_lock>>, RestTyped'
  PROVE  LockInv'
<1> DEFINE q == tx[t]
           r == NextOp(p)
<1>1. q \in State /\ Local(t, q)
  BY ThreadFacts
<1>2. /\ HeldIn(q) = 1 .. Len(q.write_log) /\ ReadLockedIn(q) = {}
      /\ q.ip >= 1 /\ q.done < Len(Code[t]) /\ ~ q.rolled_back
  BY <1>1, AccessHolds
<1>3. /\ r \in State /\ Local(t, r) /\ r.write_log = p.write_log
      /\ HeldIn(r) = 1 .. Len(p.write_log) /\ ReadLockedIn(r) = {}
  BY <1>2, ToNextOp
<1>4. SameLocks(q, r)
  BY <1>2, <1>3 DEF SameLocks
<1>5. QED BY <1>3, <1>4, QuietStep

LEMMA SkipStep ==
  ASSUME LockInv, NEW t \in Thread, Skip(t)
  PROVE  LockInv'
<1>1. tx[t] \in State /\ Local(t, tx[t]) /\ tx[t].pc = "run"
  BY ThreadFacts DEF Skip, At
<1>2. LogDone(tx[t])
  BY <1>1, DoneLog DEF Local, FillingIn
<1>3. RestTyped' /\ UNCHANGED <<read_lock, write_lock>> /\ Become(t, NextOp(tx[t]))
  BY DEF Skip, LockInv, TypeOK, RestTyped, clocks, ghosts
<1>4. QED BY <1>1, <1>2, <1>3, OperationEnds

\* A read returns a value.
LEMMA ReadReturns ==
  ASSUME LockInv, NEW t \in Thread, tx[t].pc \in AccessPc \cup {"run"},
         NEW p \in State, NEW v \in Nat, p.ip = tx[t].ip, p.done = tx[t].done,
         p.rolled_back = tx[t].rolled_back, p.write_log = tx[t].write_log,
         LogDone(tx[t]), Become(t, Returned(p, v)),
         UNCHANGED <<read_lock, write_lock>>, RestTyped'
  PROVE  LockInv'
<1> DEFINE r == [p EXCEPT !.acc = v]
<1>1. r \in State
  BY DEF State
<1>2. /\ r.ip = p.ip /\ r.done = p.done /\ r.rolled_back = p.rolled_back
      /\ r.write_log = p.write_log
  BY SMT DEF State
<1>3. Become(t, NextOp(r))
  BY DEF Returned
<1> HIDE DEF r
<1>4. LogDone(r)
  BY <1>2 DEF LogDone
<1>5. QED BY <1>1, <1>2, <1>3, <1>4, OperationEnds

\* A stripe that is locked by t is that of an entry of its log.
LEMMA LockedEntry ==
  ASSUME LockInv, NEW t \in Thread, NEW s \in Stripe, LockedByMe(t, write_lock[s])
  PROVE  /\ write_lock[s][2] \in HeldIn(tx[t]) /\ write_lock[s][2] \in 1 .. Len(tx[t].write_log)
         /\ tx[t].write_log[write_lock[s][2]].stripe = s
         /\ write_lock[s] = <<t, write_lock[s][2]>>
<1>1. write_lock[s] \in Ptr /\ tx[t] \in State
  BY DEF LockInv, TypeOK, LockedByMe
<1>2. PICK n \in Nat \ {0} : write_lock[s] = <<t, n>>
  BY <1>1 DEF Ptr, LockedByMe
<1>3. n \in HeldIn(tx[t]) /\ tx[t].write_log[n].stripe = s
  BY <1>2 DEF LockInv, WriteLocks
<1>4. QED BY <1>1, <1>2, <1>3, ReadLockedHeld

LEMMA ReadWordStep ==
  ASSUME LockInv, NEW t \in Thread, ReadWord(t)
  PROVE  LockInv'
<1> DEFINE q == tx[t]
           a == Op(t).addr
           e == write_lock[StripeOf[a]]
           r == [q EXCEPT !.pc = "read_version"]
<1>1. /\ q \in State /\ Local(t, q) /\ q.pc = "run" /\ q.ip <= Len(Ops(t))
      /\ Op(t).kind = "read"
  BY ThreadFacts DEF ReadWord, Doing, At
<1>2. RestTyped' /\ UNCHANGED <<read_lock, write_lock>>
  BY DEF ReadWord, LockInv, TypeOK, RestTyped, clocks
<1>3. LogDone(q)
  BY <1>1, DoneLog DEF Local, FillingIn
<1>4. a \in Addr /\ e \in Ptr \cup {NULL} /\ memory[a] \in Nat /\ StripeOf[a] \in Stripe
  BY <1>1, Beginning
<1>5. CASE ~ LockedByMe(t, e)
  <2>1. Become(t, r)
    BY <1>5 DEF ReadWord, Goto
  <2>2. OpOf(t, q).kind = "read" /\ q.ip <= Len(OpsOf(t, q))
    BY <1>1, ThreadFacts
  <2> HIDE DEF q
  <2>3. r \in State
    BY <1>1 DEF State, PC
  <2>4. PlacedAs(t, r)
    BY <1>1, <2>2, SMT DEF State, Local, PlacedAs, OpOf, OpsOf
  <2>5. LoggedAs(t, r)
    BY <1>1, <2>2, SMT DEF State, Local, LoggedAs, FillingIn, HasLocksIn, OpOf, OpsOf
  <2>6. SameLocks(q, r)
    BY <1>1, SMT DEF State, SameLocks, HeldIn, FirstOf, ReadLockedIn
  <2>7. QED BY <1>2, <2>1, <2>3, <2>4, <2>5, <2>6, QuietStep DEF Local, q
<1>6. CASE LockedByMe(t, e) /\ Deref(e).words[a] # NULL
  <2>1. e[2] \in 1 .. Len(q.write_log)
    BY <1>4, <1>6, LockedEntry
  <2>2. Deref(e).words[a] \in Nat
    BY <1>1, <1>4, <1>6, <2>1, EntryTyped DEF Deref, Mine, LockedByMe
  <2>3. Become(t, Returned(q, Deref(e).words[a]))
    BY <1>6 DEF ReadWord
  <2> HIDE DEF e
  <2>4. QED BY <1>1, <1>2, <1>3, <2>2, <2>3, ReadReturns
<1>7. CASE LockedByMe(t, e) /\ Deref(e).words[a] = NULL
  <2>1. Become(t, Returned(q, memory[a]))
    BY <1>7 DEF ReadWord
  <2> HIDE DEF a
  <2>2. QED BY <1>1, <1>2, <1>3, <1>4, <2>1, ReadReturns
<1>8. QED BY <1>5, <1>6, <1>7

LEMMA ReadCheckStep ==
  ASSUME LockInv, NEW t \in Thread, ReadCheck(t)
  PROVE  LockInv'
<1> DEFINE q == tx[t]
           again == read_lock[StripeOfOp(t)]
           log == Append(q.read_log, [stripe |-> StripeOfOp(t), version |-> again])
           logged == [q EXCEPT !.read_log = log]
           r1 == [q EXCEPT !.pc = "read_version"]
           r2 == [q EXCEPT !.pc = "read_value", !.version = again]
           r3 == [q EXCEPT !.read_log = log, !.pc = "extend_ts"]
<1>1. q \in State /\ Local(t, q) /\ q.pc = "read_check"
  BY ThreadFacts DEF ReadCheck, At
<1>2. RestTyped' /\ UNCHANGED <<read_lock, write_lock>>
  BY DEF ReadCheck, LockInv, TypeOK, RestTyped, clocks
<1>3. again \in Nat /\ StripeOfOp(t) \in Stripe
  BY <1>1, Accessing
<1>4. OpOf(t, q).kind = "read"
  BY <1>1 DEF Local, PlacedAs
<1>5. log \in Seq(ReadEntry) /\ log # <<>>
  <2>1. q.read_log \in Seq(ReadEntry)
    BY <1>1 DEF State
  <2>2. [stripe |-> StripeOfOp(t), version |-> again] \in ReadEntry
    BY <1>3 DEF ReadEntry
  <2> HIDE DEF q
  <2>3. QED BY <2>1, <2>2, AppendProperties
<1>6. CASE again = 0
  <2>1. Become(t, r1)
    BY <1>6 DEF ReadCheck, Goto, READ_LOCK_SET
  <2> HIDE DEF q
  <2>2. r1 \in State
    BY <1>1 DEF State, PC
  <2>3. PlacedAs(t, r1)
    BY <1>1, SMT DEF State, Local, PlacedAs, OpOf, OpsOf
  <2>4. LoggedAs(t, r1)
    BY <1>1, SMT DEF State, Local, LoggedAs, FillingIn, HasLocksIn, OpOf, OpsOf
  <2>5. SameLocks(q, r1)
    BY <1>1, SMT DEF State, SameLocks, HeldIn, FirstOf, ReadLockedIn
  <2>6. QED BY <1>2, <2>1, <2>2, <2>3, <2>4, <2>5, QuietStep DEF Local, q
<1>7. CASE again # 0 /\ again # q.version
  <2>1. Become(t, r2) /\ again >= 1
    BY <1>3, <1>7 DEF ReadCheck, READ_LOCK_SET
  <2> HIDE DEF q, again
  <2>2. r2 \in State
    BY <1>1, <1>3 DEF State, PC
  <2>3. PlacedAs(t, r2)
    BY <1>1, <1>3, <2>1, SMT DEF State, Local, PlacedAs, OpOf, OpsOf
  <2>4. LoggedAs(t, r2)
    BY <1>1, <1>3, SMT DEF State, Local, LoggedAs, FillingIn, HasLocksIn, OpOf, OpsOf
  <2>5. SameLocks(q, r2)
    BY <1>1, <1>3, SMT DEF State, SameLocks, HeldIn, FirstOf, ReadLockedIn
  <2>6. QED BY <1>2, <2>1, <2>2, <2>3, <2>4, <2>5, QuietStep DEF Local, q
<1>8. CASE again # 0 /\ again = q.version /\ ShouldExtend(t, again)
  <2>1. Become(t, r3)
    BY <1>8 DEF ReadCheck, READ_LOCK_SET
  <2> HIDE DEF q, log
  <2>2. r3 \in State
    BY <1>1, <1>5 DEF State, PC
  <2>3. PlacedAs(t, r3)
    BY <1>1, <1>4, <1>5, SMT DEF State, Local, PlacedAs, OpOf, OpsOf
  <2>4. LoggedAs(t, r3)
    BY <1>1, <1>4, <1>5, SMT DEF State, Local, LoggedAs, FillingIn, HasLocksIn, OpOf, OpsOf
  <2>5. SameLocks(q, r3)
    BY <1>1, <1>5, SMT DEF State, SameLocks, HeldIn, FirstOf, ReadLockedIn
  <2>6. QED BY <1>2, <2>1, <2>2, <2>3, <2>4, <2>5, QuietStep DEF Local, q
<1>9. CASE again # 0 /\ again = q.version /\ ~ ShouldExtend(t, again)
  <2>1. Become(t, Returned(logged, logged.value))
    BY <1>9 DEF ReadCheck, READ_LOCK_SET
  <2>2. LogDone(q)
    BY <1>1, <1>4, DoneLog DEF Local, FillingIn
  <2>3. logged \in State
    <3> HIDE DEF q, log
    <3>1. QED BY <1>1, <1>5 DEF State
  <2>4. /\ logged.value \in Nat /\ logged.ip = q.ip /\ logged.done = q.done
        /\ logged.rolled_back = q.rolled_back /\ logged.write_log = q.write_log
    <3> HIDE DEF q, log
    <3>1. QED BY <1>1, SMT DEF State
  <2> HIDE DEF logged
  <2>5. QED BY <1>1, <1>2, <2>1, <2>2, <2>3, <2>4, ReadReturns
<1>10. QED BY <1>6, <1>7, <1>8, <1>9

LEMMA ReadExtendedStep ==
  ASSUME LockInv, NEW t \in Thread, ReadExtended(t)
  PROVE  LockInv'
<1> DEFINE q == tx[t]
           p == [q EXCEPT !.valid_ts = Truncated(q.ts)]
<1>1. q \in State /\ Local(t, q) /\ q.pc = "extended" /\ OpOf(t, q).kind = "read"
  BY ThreadFacts DEF ReadExtended, At
<1>2. RestTyped' /\ UNCHANGED <<read_lock, write_lock>>
  BY DEF ReadExtended, LockInv, TypeOK, RestTyped, clocks
<1>3. Truncated(q.ts) \in Nat /\ q.value \in Nat
  BY <1>1, Constants DEF State
<1>4. LogDone(q)
  BY <1>1, DoneLog DEF Local, FillingIn
<1>5. Become(t, [Returned(q, q.value) EXCEPT !.valid_ts = Truncated(q.ts)])
  BY DEF ReadExtended
<1>6. p \in State
  <2> HIDE DEF q
  <2>1. QED BY <1>1, <1>3 DEF State
<1>7. /\ p.ip = q.ip /\ p.done = q.done /\ p.rolled_back = q.rolled_back
      /\ p.write_log = q.write_log
  <2> HIDE DEF q
  <2>1. QED BY <1>1, SMT DEF State
<1>8. [Returned(q, q.value) EXCEPT !.valid_ts = Truncated(q.ts)] = Returned(p, q.value)
  <2> HIDE DEF q
  <2>1. QED BY <1>1, Zenon DEF Returned, NextOp, State
<1> HIDE DEF p
<1>9. QED BY <1>1, <1>2, <1>3, <1>4, <1>5, <1>6, <1>7, <1>8, ReadReturns

\* A log whose entry n is given a version and words.
LEMMA EntryFilled ==
  ASSUME NEW log \in Seq(Entry), NEW n \in 1 .. Len(log), NEW v \in Nat,
         NEW w \in [Addr -> Nat \cup {NULL}], NEW new,
         new = [log EXCEPT ![n] = [stripe |-> log[n].stripe, old_version |-> v, words |-> w]]
  PROVE  /\ new \in Seq(Entry) /\ Len(new) = Len(log)
         /\ \A m \in 1 .. Len(log) : new[m].stripe = log[m].stripe
         /\ \A m \in 1 .. Len(log) \ {n} : new[m] = log[m]
         /\ new[n].old_version = v /\ new[n].words = w
<1> DEFINE e == [stripe |-> log[n].stripe, old_version |-> v, words |-> w]
<1>1. log[n] \in Entry
  OBVIOUS
<1>2. e \in Entry /\ e.stripe = log[n].stripe /\ e.old_version = v /\ e.words = w
  BY <1>1 DEF Entry
<1> HIDE DEF e
<1>3. new \in Seq(Entry) /\ Len(new) = Len(log)
  BY <1>2, ExceptSeq DEF e
<1>4. new[n] = e /\ \A m \in 1 .. Len(log) \ {n} : new[m] = log[m]
  BY DEF e
<1>5. QED BY <1>2, <1>3, <1>4

\* The application's word in the words of an entry.
LEMMA InsertedTyped ==
  ASSUME LockInv, NEW t \in Thread, Op(t).addr \in Addr, NEW w \in [Addr -> Nat \cup {NULL}]
  PROVE  /\ Inserted(t, w) \in [Addr -> Nat \cup {NULL}]
         /\ \A a \in Addr : Inserted(t, w)[a] # NULL => w[a] # NULL \/ a = Op(t).addr
<1>1. NewValue(t) \in Nat
  BY ThreadFacts DEF NewValue, State
<1>2. QED BY <1>1 DEF Inserted

LEMMA WriteWordStep ==
  ASSUME LockInv, NEW t \in Thread, WriteWord(t)
  PROVE  LockInv'
<1> DEFINE q == tx[t]
           s == StripeOfOp(t)
           e == write_lock[s]
           r1 == [q EXCEPT !.pc = "write_cas"]
           r2 == [q EXCEPT !.pc = "write_locked"]
<1>1. /\ q \in State /\ Local(t, q) /\ q.pc = "run" /\ q.ip <= Len(Ops(t))
      /\ Op(t).kind # "read"
  BY ThreadFacts DEF WriteWord, Doing, At
<1>2. RestTyped' /\ UNCHANGED <<read_lock, write_lock>>
  BY DEF WriteWord, LockInv, TypeOK, RestTyped, clocks, ghosts
<1>3. LogDone(q)
  BY <1>1, DoneLog DEF Local, FillingIn
<1>4. s \in Stripe /\ Op(t).addr \in Addr /\ StripeOf[Op(t).addr] = s
  BY <1>1, Beginning
<1>5. OpOf(t, q).kind # "read" /\ q.ip <= Len(OpsOf(t, q))
  BY <1>1, ThreadFacts
<1>6. CASE ~ LockedByMe(t, e) /\ e = NULL
  <2>1. Become(t, r1)
    BY <1>6 DEF WriteWord, Goto
  <2> HIDE DEF q
  <2>2. r1 \in State
    BY <1>1 DEF State, PC
  <2>3. PlacedAs(t, r1)
    BY <1>1, <1>5, SMT DEF State, Local, PlacedAs, OpOf, OpsOf
  <2>4. LoggedAs(t, r1)
    BY <1>1, <1>5, SMT DEF State, Local, LoggedAs, FillingIn, HasLocksIn, OpOf, OpsOf
  <2>5. SameLocks(q, r1)
    BY <1>1, SMT DEF State, SameLocks, HeldIn, FirstOf, ReadLockedIn
  <2>6. QED BY <1>2, <2>1, <2>2, <2>3, <2>4, <2>5, QuietStep DEF Local, q
<1>7. CASE ~ LockedByMe(t, e) /\ e # NULL
  <2>1. Become(t, r2)
    BY <1>7 DEF WriteWord, Goto
  <2> HIDE DEF q
  <2>2. r2 \in State
    BY <1>1 DEF State, PC
  <2>3. PlacedAs(t, r2)
    BY <1>1, <1>5, SMT DEF State, Local, PlacedAs, OpOf, OpsOf
  <2>4. LoggedAs(t, r2)
    BY <1>1, <1>5, SMT DEF State, Local, LoggedAs, FillingIn, HasLocksIn, OpOf, OpsOf
  <2>5. SameLocks(q, r2)
    BY <1>1, SMT DEF State, SameLocks, HeldIn, FirstOf, ReadLockedIn
  <2>6. QED BY <1>2, <2>1, <2>2, <2>3, <2>4, <2>5, QuietStep DEF Local, q
<1>8. CASE LockedByMe(t, e)
  <2> DEFINE n == e[2]
             log == q.write_log
             w == Inserted(t, log[n].words)
             new == [log EXCEPT ![n] = [stripe |-> log[n].stripe,
                                        old_version |-> log[n].old_version, words |-> w]]
             p == [q EXCEPT !.write_log = new]
  <2>1. n \in 1 .. Len(log) /\ log[n].stripe = s
    BY <1>4, <1>8, LockedEntry
  <2>2. /\ log \in Seq(Entry) /\ log[n] \in Entry /\ log[n].old_version \in Nat
        /\ log[n].words \in [Addr -> Nat \cup {NULL}]
    BY <1>1, <2>1, EntryTyped DEF State
  <2>3. /\ w \in [Addr -> Nat \cup {NULL}]
        /\ \A a \in Addr : w[a] # NULL => log[n].words[a] # NULL \/ a = Op(t).addr
    BY <1>4, <2>2, InsertedTyped
  <2>4. Become(t, NextOp([q EXCEPT !.write_log[n].words = Inserted(t, @)]))
    BY <1>8 DEF WriteWord
  <2>5. [q EXCEPT !.write_log[n].words = Inserted(t, @)] = p
    <3>1. [log[n] EXCEPT !.words = w] = [stripe |-> log[n].stripe,
                                         old_version |-> log[n].old_version, words |-> w]
      <4> HIDE DEF log, n, w
      <4>1. QED BY <2>2, SMT DEF Entry
    <3>3. [log EXCEPT ![n].words = Inserted(t, @)] = new
      BY <3>1, Zenon
    <3> HIDE DEF q, n, w, new
    <3>2. QED BY <3>3, Zenon
  <2>11. new = [log EXCEPT ![n] = [stripe |-> log[n].stripe,
                                   old_version |-> log[n].old_version, words |-> w]]
    OBVIOUS
  <2> HIDE DEF q, n, log, w, new
  <2>6. /\ new \in Seq(Entry) /\ Len(new) = Len(log)
        /\ \A m \in 1 .. Len(log) : new[m].stripe = log[m].stripe
        /\ \A m \in 1 .. Len(log) \ {n} : new[m] = log[m]
        /\ new[n].old_version = log[n].old_version /\ new[n].words = w
    BY <2>1, <2>2, <2>3, <2>11, EntryFilled
  <2>7. p \in State
    BY <1>1, <2>6 DEF State
  <2>8. p.ip = q.ip /\ p.done = q.done /\ p.rolled_back = q.rolled_back /\ p.write_log = new
    BY <1>1, SMT DEF State
  <2> HIDE DEF p
  <2>9. LogDone(p)
    <3>1. SUFFICES ASSUME NEW m \in 1 .. Len(log)
                   PROVE  /\ new[m].old_version >= 1
                          /\ \A a \in Addr : new[m].words[a] # NULL =>
                               StripeOf[a] = new[m].stripe
      BY <2>6, <2>8 DEF LogDone
    <3>2. /\ log[m].old_version >= 1
          /\ \A a \in Addr : log[m].words[a] # NULL => StripeOf[a] = log[m].stripe
      BY <1>3 DEF LogDone, log
    <3>3. CASE m = n
      BY <1>4, <2>1, <2>3, <2>6, <3>2, <3>3
    <3>4. CASE m # n
      BY <2>6, <3>2, <3>4
    <3>5. QED BY <3>3, <3>4
  <2>10. QED BY <1>1, <1>2, <2>4, <2>5, <2>6, <2>7, <2>8, <2>9, OperationEnds DEF q, log
<1>9. QED BY <1>6, <1>7, <1>8

\* The last entry of the log gets its version and the word that is written.
LEMMA EntryWritten ==
  ASSUME LockInv, NEW t \in Thread, NEW r \in State,
         tx[t].pc \in ExtendPc \cup {"write_version"}, FillingIn(t, tx[t]),
         r.write_log = tx[t].write_log, WriteLocked(t, r)
  PROVE  \E p \in State :
           /\ Become(t, NextOp(p)) /\ p.ip = r.ip /\ p.done = r.done
           /\ p.rolled_back = r.rolled_back /\ p.read_log = r.read_log /\ p.valid_ts = r.valid_ts
           /\ Len(p.write_log) = Len(r.write_log) /\ Len(r.write_log) \in 1 .. Len(r.write_log)
           /\ \A m \in 1 .. Len(r.write_log) : p.write_log[m].stripe = r.write_log[m].stripe
           /\ \A m \in 1 .. Len(r.write_log) \ {Len(r.write_log)} :
                p.write_log[m] = r.write_log[m]
           /\ p.write_log[Len(r.write_log)].stripe = StripeOfOp(t)
           /\ p.write_log[Len(r.write_log)].old_version = r.version
           /\ \A a \in Addr : p.write_log[Len(r.write_log)].words[a] # NULL =>
                StripeOf[a] = StripeOfOp(t)
<1> DEFINE q == tx[t]
           log == r.write_log
           n == Len(log)
           w == Inserted(t, log[n].words)
           new == [log EXCEPT ![n] = [stripe |-> log[n].stripe,
                                      old_version |-> r.version, words |-> w]]
           k == IF ~ HasGreedyTs(t) THEN r.locations_accessed + 1 ELSE r.locations_accessed
           p == [r EXCEPT !.locations_accessed = k, !.write_log = new]
<1>1. q \in State /\ Local(t, q) /\ StripeOfOp(t) = StripeOf[OpOf(t, q).addr]
  BY ThreadFacts
<1>2. q.write_log # <<>> /\ q.write_log[Len(q.write_log)].stripe = StripeOfOp(t)
  BY <1>1 DEF Local, LoggedAs
<1>3. log \in Seq(Entry) /\ n \in 1 .. Len(log) /\ log[n].stripe = StripeOfOp(t)
  BY <1>2, EntryTyped DEF State
<1>4. log[n] \in Entry /\ log[n].words \in [Addr -> Nat \cup {NULL}]
  BY <1>3, EntryTyped
<1>5. Op(t).addr \in Addr /\ StripeOfOp(t) = StripeOf[Op(t).addr]
  BY Accessing DEF StripeOfOp
<1>6. /\ w \in [Addr -> Nat \cup {NULL}]
      /\ \A a \in Addr : w[a] # NULL => log[n].words[a] # NULL \/ a = Op(t).addr
  BY <1>4, <1>5, InsertedTyped
<1>7. r.version \in Nat /\ k \in Nat
  BY DEF State
<1>8. Become(t, NextOp(p))
  <2> DEFINE y == [stripe |-> log[n].stripe, old_version |-> r.version, words |-> w]
             z == [r EXCEPT !.locations_accessed = k, !.write_log[n] = y]
  <2>1. z = [r EXCEPT !.locations_accessed = k, !.write_log[n] =
               [stripe |-> @.stripe, old_version |-> r.version, words |-> Inserted(t, @.words)]]
    <3> HIDE DEF n, k
    <3>1. QED BY Zenon DEF State
  <2>2. Become(t, NextOp(z))
    <3> HIDE DEF z
    <3>1. QED BY <2>1 DEF WriteLocked
  <2>3. z = p
    <3> HIDE DEF n, k, w, y
    <3>1. QED BY Zenon DEF State, y
  <2>4. QED BY <2>2, <2>3
<1>9. new = [log EXCEPT ![n] = [stripe |-> log[n].stripe,
                                old_version |-> r.version, words |-> w]]
  OBVIOUS
<1>10. \A a \in Addr : log[n].words[a] # NULL => StripeOf[a] = log[n].stripe
  BY <1>1, <1>3 DEF Local, LoggedAs
<1> HIDE DEF q, log, n, w, new, k
<1>11. /\ new \in Seq(Entry) /\ Len(new) = Len(log)
       /\ \A m \in 1 .. Len(log) : new[m].stripe = log[m].stripe
       /\ \A m \in 1 .. Len(log) \ {n} : new[m] = log[m]
       /\ new[n].old_version = r.version /\ new[n].words = w
  BY <1>3, <1>6, <1>7, <1>9, EntryFilled
<1>12. p \in State
  BY <1>7, <1>11 DEF State
<1>13. /\ p.ip = r.ip /\ p.done = r.done /\ p.rolled_back = r.rolled_back /\ p.write_log = new
       /\ p.read_log = r.read_log /\ p.valid_ts = r.valid_ts
  BY SMT DEF State
<1> HIDE DEF p
<1>14. \A a \in Addr : new[n].words[a] # NULL => StripeOf[a] = StripeOfOp(t)
  BY <1>3, <1>5, <1>6, <1>10, <1>11
<1>15. QED BY <1>3, <1>8, <1>11, <1>12, <1>13, <1>14 DEF log, n

\* The write ends: LockInv is kept.
LEMMA WriteLockedStep ==
  ASSUME LockInv, NEW t \in Thread, NEW r \in State,
         tx[t].pc \in ExtendPc \cup {"write_version"}, FillingIn(t, tx[t]),
         r.ip = tx[t].ip, r.done = tx[t].done, r.rolled_back = tx[t].rolled_back,
         r.write_log = tx[t].write_log, r.version >= 1, WriteLocked(t, r),
         UNCHANGED <<read_lock, write_lock, memory, commit_ts, synchronization_in_progress>>
  PROVE  LockInv'
<1> DEFINE log == r.write_log
           n == Len(log)
<1>1. PICK p \in State :
         /\ Become(t, NextOp(p)) /\ p.ip = r.ip /\ p.done = r.done
         /\ p.rolled_back = r.rolled_back
         /\ Len(p.write_log) = n /\ n \in 1 .. n
         /\ \A m \in 1 .. n : p.write_log[m].stripe = log[m].stripe
         /\ \A m \in 1 .. n \ {n} : p.write_log[m] = log[m]
         /\ p.write_log[n].stripe = StripeOfOp(t)
         /\ p.write_log[n].old_version = r.version
         /\ \A a \in Addr : p.write_log[n].words[a] # NULL => StripeOf[a] = StripeOfOp(t)
  BY EntryWritten
<1>2. RestTyped'
  BY AppendProperties DEF WriteLocked, LockInv, TypeOK, RestTyped
<1>3. \A m \in 1 .. n \ {n} :
        /\ log[m].old_version >= 1
        /\ \A a \in Addr : log[m].words[a] # NULL => StripeOf[a] = log[m].stripe
  BY ThreadFacts DEF Local, LoggedAs
<1> HIDE DEF n, log
<1>4. LogDone(p)
  <2>1. SUFFICES ASSUME NEW m \in 1 .. n
                 PROVE  /\ p.write_log[m].old_version >= 1
                        /\ \A a \in Addr : p.write_log[m].words[a] # NULL =>
                             StripeOf[a] = p.write_log[m].stripe
    BY <1>1 DEF LogDone
  <2>2. CASE m = n
    BY <1>1, <2>2
  <2>3. CASE m # n
    BY <1>1, <1>3, <2>3
  <2>4. QED BY <2>2, <2>3
<1>5. QED BY <1>1, <1>2, <1>4, OperationEnds DEF log, n

\* The stripe whose entry is filled in is not read-locked: only its owner could
\* have done so.
LEMMA FillingUnlocked ==
  ASSUME LockInv, NEW t \in Thread, tx[t].pc = "write_version"
  PROVE  read_lock[StripeOfOp(t)] >= 1 /\ read_lock[StripeOfOp(t)] \in Nat
<1> DEFINE s == StripeOfOp(t)
           n == Len(tx[t].write_log)
<1>1. tx[t] \in State /\ Local(t, tx[t]) /\ s = StripeOf[OpOf(t, tx[t]).addr]
  BY ThreadFacts
<1>2. s \in Stripe /\ read_lock[s] \in Nat
  BY Accessing
<1>3. tx[t].write_log # <<>> /\ tx[t].write_log[n].stripe = s
  BY <1>1 DEF Local, LoggedAs, FillingIn
<1>4. HeldIn(tx[t]) = 1 .. n /\ ReadLockedIn(tx[t]) = {}
  BY <1>1, AccessHolds
<1>5. n \in HeldIn(tx[t]) /\ n \in Nat \ {0}
  BY <1>1, <1>3, <1>4, EntryTyped
<1>6. write_lock[s] = <<t, n>>
  BY <1>2, <1>3, <1>5 DEF LockInv, WriteLocks
<1>7. ASSUME read_lock[s] = 0 PROVE FALSE
  <2>1. PICK u \in Thread : \E m \in ReadLockedIn(tx[u]) : tx[u].write_log[m].stripe = s
    BY <1>2, <1>7 DEF LockInv, ReadLocks
  <2>2. PICK m \in ReadLockedIn(tx[u]) : tx[u].write_log[m].stripe = s
    BY <2>1
  <2>3. m \in HeldIn(tx[u]) /\ m \in Nat \ {0}
    BY <2>2, ReadLockedHeld DEF LockInv, TypeOK
  <2>4. write_lock[s] = <<u, m>>
    BY <1>2, <2>2, <2>3 DEF LockInv, WriteLocks
  <2>5. u = t
    BY <1>6, <2>4
  <2>6. QED BY <1>4, <2>2, <2>5
<1>8. QED BY <1>2, <1>7

LEMMA WriteVersionStep ==
  ASSUME LockInv, NEW t \in Thread, WriteVersion(t)
  PROVE  LockInv'
<1> DEFINE q == tx[t]
           v == read_lock[StripeOfOp(t)]
           p == [q EXCEPT !.version = v]
           r == [q EXCEPT !.version = v, !.pc = "extend_ts"]
<1>1. q \in State /\ Local(t, q) /\ q.pc = "write_version"
  BY ThreadFacts DEF WriteVersion, At
<1>2. v \in Nat /\ v >= 1
  BY <1>1, FillingUnlocked
<1>3. UNCHANGED <<read_lock, write_lock, memory, commit_ts, synchronization_in_progress>>
  BY DEF WriteVersion
<1>4. FillingIn(t, q) /\ OpOf(t, q).kind # "read"
  BY <1>1 DEF FillingIn, Local, PlacedAs
<1>5. CASE ShouldExtend(t, v)
  <2>1. Become(t, r) /\ UNCHANGED cm_order
    <3>1. p.version = v
      BY <1>1, SMT DEF State
    <3>2. QED BY <1>5, <3>1 DEF WriteVersion
  <2>2. RestTyped'
    BY <1>3, <2>1 DEF LockInv, TypeOK, RestTyped
  <2> HIDE DEF q, v
  <2>3. r \in State
    BY <1>1, <1>2 DEF State, PC
  <2>4. PlacedAs(t, r)
    <3>1. /\ r.pc = "extend_ts" /\ r.ip = q.ip /\ r.done = q.done /\ r.version >= 1
          /\ r.read_log = q.read_log
      BY <1>1, <1>2, SMT DEF State
    <3> HIDE DEF r
    <3>2. QED BY <1>1, <1>4, <3>1, SMT DEF Local, PlacedAs, OpOf, OpsOf
  <2>5. LoggedAs(t, r)
    <3>1. /\ r.pc = "extend_ts" /\ r.ip = q.ip /\ r.done = q.done /\ r.rolled_back = q.rolled_back
          /\ r.read_log = q.read_log /\ r.write_log = q.write_log
      BY <1>1, SMT DEF State
    <3> HIDE DEF r
    <3>2. OpOf(t, r) = OpOf(t, q)
      BY <3>1 DEF OpOf, OpsOf
    <3>3. FillingIn(t, r)
      BY <1>4, <3>1, <3>2 DEF FillingIn
    <3>4. QED BY <1>1, <1>4, <3>1, <3>2, <3>3, SMT DEF Local, LoggedAs, HasLocksIn
  <2>6. SameLocks(q, r)
    BY <1>1, <1>2, SMT DEF State, SameLocks, HeldIn, FirstOf, ReadLockedIn
  <2>7. QED BY <1>3, <2>1, <2>2, <2>3, <2>4, <2>5, <2>6, QuietStep DEF Local, q
<1>6. CASE ~ ShouldExtend(t, v)
  <2>1. p.version = v
    BY <1>1, SMT DEF State
  <2>2. WriteLocked(t, p)
    BY <1>6, <2>1 DEF WriteVersion
  <2>3. p \in State
    <3> HIDE DEF q, v
    <3>1. QED BY <1>1, <1>2 DEF State
  <2>4. /\ p.ip = q.ip /\ p.done = q.done /\ p.rolled_back = q.rolled_back
        /\ p.write_log = q.write_log
    <3> HIDE DEF q, v
    <3>1. QED BY <1>1, SMT DEF State
  <2> HIDE DEF p, v
  <2>5. QED BY <1>1, <1>2, <1>3, <1>4, <2>1, <2>2, <2>3, <2>4, WriteLockedStep
<1>7. QED BY <1>5, <1>6

LEMMA WriteExtendedStep ==
  ASSUME LockInv, NEW t \in Thread, WriteExtended(t)
  PROVE  LockInv'
<1> DEFINE q == tx[t]
           p == [q EXCEPT !.valid_ts = Truncated(q.ts)]
<1>1. /\ q \in State /\ Local(t, q) /\ q.pc = "extended" /\ OpOf(t, q).kind # "read"
      /\ WriteLocked(t, p)
  BY ThreadFacts DEF WriteExtended, At
<1>2. UNCHANGED <<read_lock, write_lock, memory, commit_ts, synchronization_in_progress>>
  BY DEF WriteExtended
<1>3. FillingIn(t, q) /\ q.version >= 1 /\ Truncated(q.ts) \in Nat
  BY <1>1, Constants DEF FillingIn, Local, PlacedAs, State
<1>4. p \in State
  <2> HIDE DEF q
  <2>1. QED BY <1>1, <1>3 DEF State
<1>5. /\ p.ip = q.ip /\ p.done = q.done /\ p.rolled_back = q.rolled_back
      /\ p.write_log = q.write_log /\ p.version = q.version
  <2> HIDE DEF q
  <2>1. QED BY <1>1, SMT DEF State
<1> HIDE DEF p
<1>6. QED BY <1>1, <1>2, <1>3, <1>4, <1>5, WriteLockedStep

\* A thread tells another one to abort: a flag of the other's record.
LEMMA AbortOtherStep ==
  ASSUME LockInv, NEW t \in Thread, AbortOther(t)
  PROVE  LockInv'
<1> DEFINE q == tx[t]
           other == q.ptr[1]
           r == [q EXCEPT !.pc = "write_cas", !.ptr = NULL]
           Told(x) == [x EXCEPT !.aborted_externally = TRUE]
<1>1. q \in State /\ Local(t, q) /\ q.pc = "abort_other"
  BY ThreadFacts DEF AbortOther, At
<1>2. other \in Thread
  <2>1. q.ptr \in Ptr
    BY <1>1 DEF State, Local, PlacedAs
  <2>2. QED BY <2>1 DEF Ptr
<1>3. tx' = [[tx EXCEPT ![t] = r] EXCEPT ![other] = Told(@)]
  BY Zenon DEF AbortOther
<1>4. RestTyped' /\ UNCHANGED <<read_lock, write_lock>>
  BY DEF AbortOther, LockInv, TypeOK, RestTyped, clocks, ghosts
<1>5. r \in State /\ Local(t, r) /\ SameLocks(q, r)
  <2> HIDE DEF q
  <2>1. NULL \in Ptr \cup {NULL}
    OBVIOUS
  <2>2. r \in State
    BY <1>1, <2>1 DEF State, PC
  <2>3. PlacedAs(t, r)
    BY <1>1, SMT DEF State, Local, PlacedAs, OpOf, OpsOf
  <2>4. LoggedAs(t, r)
    BY <1>1, SMT DEF State, Local, LoggedAs, FillingIn, HasLocksIn, OpOf, OpsOf
  <2>5. SameLocks(q, r)
    BY <1>1, SMT DEF State, SameLocks, HeldIn, FirstOf, ReadLockedIn
  <2>6. QED BY <2>2, <2>3, <2>4, <2>5 DEF Local
<1>6. ASSUME NEW u \in Thread, NEW x \in State, Local(u, x)
      PROVE  Told(x) \in State /\ Local(u, Told(x)) /\ SameLocks(x, Told(x))
  <2>1. Told(x) \in State
    BY DEF State
  <2>2. /\ Told(x).pc = x.pc /\ Told(x).ip = x.ip /\ Told(x).done = x.done /\ Told(x).ptr = x.ptr
        /\ Told(x).i = x.i /\ Told(x).ts = x.ts /\ Told(x).version = x.version
        /\ Told(x).read_log = x.read_log /\ Told(x).write_log = x.write_log
        /\ Told(x).rolled_back = x.rolled_back
    BY SMT DEF State
  <2> HIDE DEF Told
  <2>3. PlacedAs(u, Told(x))
    BY <1>6, <2>2, SMT DEF Local, PlacedAs, OpOf, OpsOf
  <2>4. LoggedAs(u, Told(x))
    BY <1>6, <2>2, SMT DEF Local, LoggedAs, FillingIn, HasLocksIn, OpOf, OpsOf
  <2>5. SameLocks(x, Told(x))
    BY <2>2, SMT DEF SameLocks, HeldIn, FirstOf, ReadLockedIn
  <2>6. QED BY <2>1, <2>3, <2>4, <2>5 DEF Local
<1> HIDE DEF r, Told, other
<1>7. [tx EXCEPT ![t] = r] \in [Thread -> State]
  BY <1>5 DEF LockInv, TypeOK
<1>8. ASSUME NEW u \in Thread
      PROVE  tx'[u] \in State /\ Local(u, tx'[u]) /\ SameLocks(tx[u], tx'[u])
  <2> DEFINE x == [tx EXCEPT ![t] = r][u]
  <2>1. x \in State /\ Local(u, x) /\ SameLocks(tx[u], x)
    BY <1>5 DEF LockInv, TypeOK, SameLocks
  <2>2. tx'[u] = IF u = other THEN Told(x) ELSE x
    BY <1>2, <1>3, <1>7
  <2> HIDE DEF x
  <2>3. CASE u = other
    BY <1>6, <2>1, <2>2, <2>3 DEF SameLocks
  <2>4. CASE u # other
    BY <2>1, <2>2, <2>4
  <2>5. QED BY <2>3, <2>4
<1>9. tx' \in [Thread -> State]
  <2>1. tx' = [u \in Thread |-> tx'[u]]
    BY <1>3, <1>7
  <2>2. QED BY <1>8, <2>1
<1>10. QED BY <1>4, <1>8, <1>9, AllQuiet

\* Lock a free stripe with a new entry.
LEMMA WriteCasStep ==
  ASSUME LockInv, NEW t \in Thread, WriteCas(t)
  PROVE  LockInv'
<1> DEFINE q == tx[t]
           s == StripeOfOp(t)
           n == Len(q.write_log) + 1
           log == Append(q.write_log, EntryFor(s))
           r1 == [q EXCEPT !.write_log = log, !.pc = "write_version"]
           r2 == [q EXCEPT !.pc = "write_reload"]
<1>1. /\ q \in State /\ Local(t, q) /\ q.pc = "write_cas" /\ s = StripeOf[OpOf(t, q).addr]
  BY ThreadFacts DEF WriteCas, At
<1>2. RestTyped' /\ UNCHANGED read_lock
  BY DEF WriteCas, LockInv, TypeOK, RestTyped, clocks, ghosts
<1>3. s \in Stripe
  BY <1>1, Accessing
<1>4. CASE write_lock[s] # NULL
  <2>1. Become(t, r2) /\ UNCHANGED write_lock
    BY <1>4 DEF WriteCas, Goto
  <2> HIDE DEF q
  <2>2. r2 \in State
    BY <1>1 DEF State, PC
  <2>3. PlacedAs(t, r2)
    BY <1>1, SMT DEF State, Local, PlacedAs, OpOf, OpsOf
  <2>4. LoggedAs(t, r2)
    BY <1>1, SMT DEF State, Local, LoggedAs, FillingIn, HasLocksIn, OpOf, OpsOf
  <2>5. SameLocks(q, r2)
    BY <1>1, SMT DEF State, SameLocks, HeldIn, FirstOf, ReadLockedIn
  <2>6. QED BY <1>2, <2>1, <2>2, <2>3, <2>4, <2>5, QuietStep DEF Local, q
<1>5. CASE write_lock[s] = NULL
  <2>1. /\ write_lock' = [write_lock EXCEPT ![s] = <<t, n>>] /\ Become(t, r1)
    BY <1>5 DEF WriteCas, TakesLock
  <2>2. /\ HeldIn(q) = 1 .. Len(q.write_log) /\ ReadLockedIn(q) = {} /\ LogDone(q)
    BY <1>1, AccessHolds, DoneLog DEF Local, FillingIn
  <2>3. q.write_log \in Seq(Entry) /\ Len(q.write_log) \in Nat
    BY <1>1, EntryTyped DEF State
  <2>4. /\ EntryFor(s) \in Entry /\ EntryFor(s).stripe = s /\ EntryFor(s).old_version = 0
        /\ \A a \in Addr : EntryFor(s).words[a] = NULL
    BY <1>3 DEF EntryFor, Entry
  <2> HIDE DEF q, s
  <2>5. /\ log \in Seq(Entry) /\ Len(log) = n /\ log[n] = EntryFor(s)
        /\ \A m \in 1 .. Len(q.write_log) : log[m] = q.write_log[m]
    BY <2>3, <2>4, AppendProperties
  <2> HIDE DEF log
  <2>6. r1 \in State
    BY <1>1, <2>5 DEF State, PC
  <2>7. /\ r1.pc = "write_version" /\ r1.write_log = log /\ r1.ip = q.ip /\ r1.done = q.done
        /\ r1.rolled_back = q.rolled_back
    BY <1>1, SMT DEF State
  <2> HIDE DEF r1
  <2>8. n \in Nat \ {0} /\ log # <<>>
    BY <2>3, <2>5
  <2>9. PlacedAs(t, r1)
    BY <1>1, <2>7, SMT DEF Local, PlacedAs, OpOf, OpsOf
  <2>10. LoggedAs(t, r1)
    <3>1. OpOf(t, r1) = OpOf(t, q) /\ FillingIn(t, r1) /\ HasLocksIn(r1) /\ ~ r1.rolled_back
      BY <1>1, <2>7 DEF OpOf, OpsOf, FillingIn, HasLocksIn, Local, LoggedAs
    <3>2. ASSUME NEW m \in 1 .. n
          PROVE  /\ log[m].old_version >= 1 \/ m = n
                 /\ \A a \in Addr : log[m].words[a] # NULL => StripeOf[a] = log[m].stripe
      <4>1. CASE m = n
        BY <2>4, <2>5, <4>1
      <4>2. CASE m # n
        <5>1. m \in 1 .. Len(q.write_log)
          BY <2>3, <4>2
        <5>2. QED BY <2>2, <2>5, <5>1 DEF LogDone
      <4>3. QED BY <4>1, <4>2
    <3>3. QED BY <1>1, <2>4, <2>5, <2>7, <2>8, <3>1, <3>2, SMT DEF LoggedAs
  <2>11. HeldIn(r1) = 1 .. n /\ ReadLockedIn(r1) = {}
    BY <2>5, <2>7, <2>8, SMT DEF HeldIn, FirstOf, ReadLockedIn
  <2>12. /\ write_lock' \in [Stripe -> Ptr \cup {NULL}]
         /\ write_lock'[s] = <<t, n>> /\ \A s2 \in Stripe \ {s} : write_lock'[s2] = write_lock[s2]
    BY <1>3, <2>1, <2>8 DEF LockInv, TypeOK, Ptr
  <2>13. WriteLocksFit(t, r1)
    <3>1. SUFFICES ASSUME NEW s2 \in Stripe, NEW m \in Nat \ {0}
                   PROVE  /\ write_lock'[s2] = <<t, m>> <=> m \in 1 .. n /\ log[m].stripe = s2
                          /\ \A u \in Thread \ {t} :
                               write_lock'[s2] = <<u, m>> <=> write_lock[s2] = <<u, m>>
      BY <2>7, <2>11 DEF WriteLocksFit
    <3>2. write_lock[s2] = <<t, m>> <=> m \in 1 .. Len(q.write_log) /\ q.write_log[m].stripe = s2
      BY <2>2 DEF LockInv, WriteLocks, q
    <3>3. \A u \in Thread : NULL # <<u, m>>
      BY NotAPtr
    <3>4. m \in 1 .. n <=> m = n \/ m \in 1 .. Len(q.write_log)
      BY <2>3
    <3>5. n \notin 1 .. Len(q.write_log)
      BY <2>3
    <3>6. CASE s2 = s
      <4>1. write_lock[s2] = NULL /\ write_lock'[s2] = <<t, n>>
        BY <1>5, <2>12, <3>6 DEF s
      <4>2. log[m].stripe = s2 /\ m \in 1 .. n <=> m = n
        BY <2>4, <2>5, <3>2, <3>3, <3>4, <3>6, <4>1
      <4>3. \A u \in Thread \ {t} : <<t, n>> # <<u, m>>
        OBVIOUS
      <4>4. QED BY <3>3, <4>1, <4>2, <4>3
    <3>7. CASE s2 # s
      BY <2>4, <2>5, <2>12, <3>2, <3>4, <3>5, <3>7
    <3>8. QED BY <3>6, <3>7
  <2>14. ReadLocksFit(t, r1) /\ read_lock' \in [Stripe -> Nat]
    BY <1>2, <2>2 DEF ReadLocksFit, LockInv, TypeOK, q
  <2>15. QED BY <1>2, <2>1, <2>6, <2>9, <2>10, <2>12, <2>13, <2>14, LockStep DEF Local
<1>6. QED BY <1>4, <1>5

\* Set one read lock after the other.
LEMMA LockReadsStep ==
  ASSUME LockInv, NEW t \in Thread, LockReads(t)
  PROVE  LockInv'
<1> DEFINE q == tx[t]
           r == Advance(q, Len(q.write_log), "increment_ts")
<1>1. q \in State /\ Local(t, q) /\ q.pc = "lock_reads"
  BY ThreadFacts DEF LockReads, At
<1>2. RestTyped' /\ UNCHANGED write_lock
  BY DEF LockReads, LockInv, TypeOK, RestTyped, clocks, ghosts
<1>3. q.i \in 1 .. Len(q.write_log) /\ Len(q.write_log) \in Nat /\ q.write_log # <<>>
  BY <1>1, EntryTyped DEF Local, PlacedAs
<1>4. /\ Become(t, r)
      /\ read_lock' = [read_lock EXCEPT ![Mine(t, q.i).stripe] = 0]
  BY DEF LockReads, READ_LOCK_SET
<1>5. r \in State
  BY <1>1, <1>3, AdvanceTyped DEF PC
<1> HIDE DEF q
<1>7. /\ r.write_log = q.write_log /\ r.read_log = q.read_log /\ r.ip = q.ip /\ r.done = q.done
      /\ r.rolled_back = q.rolled_back
      /\ \/ r.pc = "lock_reads" /\ r.i = q.i + 1 /\ q.i < Len(q.write_log)
         \/ r.pc = "increment_ts" /\ r.i = 1 /\ q.i = Len(q.write_log)
  BY <1>1, <1>3, AdvanceFields DEF PC
<1> HIDE DEF r
<1>8. PlacedAs(t, r)
  BY <1>1, <1>3, <1>7, SMT DEF Local, PlacedAs, OpOf, OpsOf
<1>9. LoggedAs(t, r)
  BY <1>1, <1>3, <1>7, SMT DEF Local, LoggedAs, FillingIn, HasLocksIn, OpOf, OpsOf
<1>10. HeldIn(r) = HeldIn(q)
  BY <1>1, <1>3, <1>7, SMT DEF HeldIn, FirstOf
<1>11. ReadLockedIn(q) \subseteq ReadLockedIn(r) /\ q.i \in ReadLockedIn(r)
  BY <1>1, <1>3, <1>7, SMT DEF ReadLockedIn
<1>12. Local(t, r) /\ 0 \in Nat
  BY <1>8, <1>9 DEF Local
<1>13. PICK k \in 1 .. Len(tx[t].write_log) : k = q.i
  BY <1>3 DEF q
<1>14. /\ r.write_log = tx[t].write_log /\ HeldIn(r) = HeldIn(tx[t])
       /\ ReadLockedIn(tx[t]) \ {k} \subseteq ReadLockedIn(r) /\ k \in ReadLockedIn(r)
  BY <1>7, <1>10, <1>11, <1>13 DEF q
<1>15. Become(t, r) /\ read_lock' = [read_lock EXCEPT ![Mine(t, k).stripe] = 0]
  BY <1>4, <1>13
<1>16. QED BY <1>2, <1>5, <1>12, <1>14, <1>15, ReadLockStep

\* Publish the version of one entry.
LEMMA UnlockReadStep ==
  ASSUME LockInv, NEW t \in Thread, UnlockRead(t)
  PROVE  LockInv'
<1> DEFINE q == tx[t]
           r == [q EXCEPT !.pc = "unlock_write"]
<1>1. q \in State /\ Local(t, q) /\ q.pc = "unlock_read"
  BY ThreadFacts DEF UnlockRead, At
<1>2. RestTyped' /\ UNCHANGED write_lock
  BY DEF UnlockRead, LockInv, TypeOK, RestTyped, clocks, ghosts
<1>3. /\ q.i \in 1 .. Len(q.write_log) /\ Len(q.write_log) \in Nat
      /\ q.ts \in Nat /\ q.ts # 0
  BY <1>1, EntryTyped DEF Local, PlacedAs, State
<1>4. /\ Become(t, r)
      /\ read_lock' = [read_lock EXCEPT ![Mine(t, q.i).stripe] = q.ts]
  BY DEF UnlockRead, Goto
<1> HIDE DEF q
<1>5. r \in State
  BY <1>1 DEF State, PC
<1>6. PlacedAs(t, r)
  BY <1>1, SMT DEF State, Local, PlacedAs, OpOf, OpsOf
<1>7. LoggedAs(t, r)
  BY <1>1, SMT DEF State, Local, LoggedAs, FillingIn, HasLocksIn, OpOf, OpsOf
<1>8. r.write_log = q.write_log /\ HeldIn(r) = HeldIn(q)
  BY <1>1, SMT DEF State, HeldIn, FirstOf
<1>9. ReadLockedIn(q) \ {q.i} \subseteq ReadLockedIn(r)
  BY <1>1, <1>3, SMT DEF State, ReadLockedIn
<1>10. QED BY <1>2, <1>3, <1>4, <1>5, <1>6, <1>7, <1>8, <1>9, ReadLockStep DEF Local, q

\* Drop the write lock of one entry that has been published.
LEMMA UnlockWriteStep ==
  ASSUME LockInv, NEW t \in Thread, UnlockWrite(t)
  PROVE  LockInv'
<1> DEFINE q == tx[t]
           r1 == [q EXCEPT !.pc = "write_back", !.i = q.i + 1]
           r2 == [q EXCEPT !.pc = "committed"]
<1>1. q \in State /\ Local(t, q) /\ q.pc = "unlock_write"
  BY ThreadFacts DEF UnlockWrite, At
<1>2. RestTyped' /\ UNCHANGED read_lock
  BY DEF UnlockWrite, LockInv, TypeOK, RestTyped, clocks, ghosts
<1>3. q.i \in 1 .. Len(q.write_log) /\ Len(q.write_log) \in Nat /\ q.i + 1 \in Nat
  <2> HIDE DEF q
  <2>1. q.i \in 1 .. Len(q.write_log)
    BY <1>1 DEF Local, PlacedAs
  <2>2. Len(q.write_log) \in Nat
    BY <1>1, EntryTyped
  <2>3. QED BY <2>1, <2>2
<1>4. /\ write_lock' = [write_lock EXCEPT ![Mine(t, q.i).stripe] = NULL]
      /\ q.i < Len(q.write_log) => Become(t, r1)
      /\ ~ (q.i < Len(q.write_log)) => Become(t, r2)
  BY DEF UnlockWrite
<1>5. q.i \in HeldIn(q)
  BY <1>1, <1>3, SMT DEF HeldIn, FirstOf
<1> HIDE DEF q
<1>6. CASE q.i < Len(q.write_log)
  <2>1. r1 \in State
    BY <1>1, <1>3 DEF State, PC
  <2>2. PlacedAs(t, r1)
    BY <1>1, <1>3, <1>6, SMT DEF State, Local, PlacedAs, OpOf, OpsOf
  <2>3. LoggedAs(t, r1)
    BY <1>1, SMT DEF State, Local, LoggedAs, FillingIn, HasLocksIn, OpOf, OpsOf
  <2>4. r1.write_log = q.write_log /\ r1.pc = "write_back" /\ r1.i = q.i + 1
    BY <1>1, SMT DEF State
  <2> HIDE DEF r1
  <2>5. HeldIn(r1) = HeldIn(q) \ {q.i} /\ ReadLockedIn(r1) = ReadLockedIn(q)
    <3>1. HeldIn(r1) = HeldIn(q) \ {q.i}
      BY <1>1, <1>3, <2>4, SMT DEF HeldIn, FirstOf
    <3>2. ReadLockedIn(r1) = ReadLockedIn(q)
      BY <1>1, <1>3, <2>4, SMT DEF ReadLockedIn
    <3>3. QED BY <3>1, <3>2
  <2>6. QED BY <1>2, <1>4, <1>5, <1>6, <2>1, <2>2, <2>3, <2>4, <2>5, DropStep DEF Local, q
<1>7. CASE ~ (q.i < Len(q.write_log))
  <2>1. r2 \in State
    BY <1>1, <1>3 DEF State, PC
  <2>2. PlacedAs(t, r2)
    BY <1>1, <1>3, SMT DEF State, Local, PlacedAs, OpOf, OpsOf
  <2>3. LoggedAs(t, r2)
    BY <1>1, SMT DEF State, Local, LoggedAs, FillingIn, HasLocksIn, OpOf, OpsOf
  <2>4. r2.write_log = q.write_log /\ r2.pc = "committed"
    BY <1>1, SMT DEF State
  <2> HIDE DEF r2
  <2>5. HeldIn(r2) = HeldIn(q) \ {q.i} /\ ReadLockedIn(r2) = ReadLockedIn(q)
    <3>1. HeldIn(r2) = HeldIn(q) \ {q.i}
      BY <1>1, <1>3, <1>7, <2>4, SMT DEF HeldIn, FirstOf
    <3>2. ReadLockedIn(r2) = ReadLockedIn(q)
      BY <1>1, <1>3, <1>7, <2>4, SMT DEF ReadLockedIn
    <3>3. QED BY <3>1, <3>2
  <2>6. QED BY <1>2, <1>4, <1>5, <1>7, <2>1, <2>2, <2>3, <2>4, <2>5, DropStep DEF Local, q
<1>8. QED BY <1>6, <1>7

\* Put one version back.
LEMMA ReleaseReadLocksStep ==
  ASSUME LockInv, NEW t \in Thread, NEW pc, NEW after,
         \/ pc = "release" /\ after = "restart"
         \/ pc = "overflow_release" /\ after = "overflow_rollback",
         ReleaseReadLocks(t, pc, after)
  PROVE  LockInv'
<1> DEFINE q == tx[t]
           r == Advance(q, Len(q.write_log), after)
           v == q.write_log[q.i].old_version
<1>1. q \in State /\ Local(t, q) /\ q.pc = pc
  BY ThreadFacts DEF ReleaseReadLocks, At
<1>2. RestTyped' /\ UNCHANGED write_lock
  BY DEF ReleaseReadLocks, LockInv, TypeOK, RestTyped, clocks, ghosts
<1>3. q.i \in 1 .. Len(q.write_log) /\ Len(q.write_log) \in Nat /\ q.write_log # <<>>
  BY <1>1, EntryTyped DEF Local, PlacedAs
<1>4. v \in Nat /\ v # 0
  <2>1. v \in Nat /\ v >= 1
    BY <1>1, <1>3, EntryTyped DEF Local, LoggedAs, FillingIn
  <2>2. QED BY <2>1
<1>5. /\ Become(t, r)
      /\ read_lock' = [read_lock EXCEPT ![Mine(t, q.i).stripe] = v]
  BY DEF ReleaseReadLocks, Mine
<1>6. r \in State
  BY <1>1, <1>3, AdvanceTyped DEF PC
<1> HIDE DEF q, v
<1>8. /\ r.write_log = q.write_log /\ r.read_log = q.read_log /\ r.ip = q.ip /\ r.done = q.done
      /\ r.rolled_back = q.rolled_back
      /\ \/ r.pc = q.pc /\ r.i = q.i + 1 /\ q.i < Len(q.write_log)
         \/ r.pc = after /\ r.i = 1 /\ q.i = Len(q.write_log)
  BY <1>1, <1>3, AdvanceFields DEF PC
<1> HIDE DEF r
<1>9. PlacedAs(t, r)
  BY <1>1, <1>3, <1>8, SMT DEF Local, PlacedAs, OpOf, OpsOf
<1>10. LoggedAs(t, r)
  BY <1>1, <1>3, <1>8, SMT DEF Local, LoggedAs, FillingIn, HasLocksIn, OpOf, OpsOf
<1>11. HeldIn(r) = HeldIn(q) /\ r.write_log = q.write_log
  <2>1. FirstOf(q) = 1 /\ FirstOf(r) = 1 /\ q.pc # "committed" /\ r.pc # "committed"
    BY <1>1, <1>8 DEF FirstOf
  <2>2. QED BY <1>8, <2>1 DEF HeldIn
<1>12. ReadLockedIn(q) \ {q.i} \subseteq ReadLockedIn(r)
  BY <1>1, <1>3, <1>8, SMT DEF ReadLockedIn
<1>13. QED BY <1>2, <1>3, <1>4, <1>5, <1>6, <1>9, <1>10, <1>11, <1>12, ReadLockStep
           DEF Local, q

\* Drop one write lock, or empty the logs.
LEMMA RollbackStep ==
  ASSUME LockInv, NEW t \in Thread, NEW after, ~ tx[t].rolled_back,
         \/ tx[t].pc \in {"restart", "abort"} /\ after = tx[t].pc
         \/ tx[t].pc = "overflow_rollback" /\ after = "sync",
         Rollback(t, after)
  PROVE  LockInv'
<1> DEFINE q == tx[t]
           r1 == [q EXCEPT !.i = q.i + 1]
           c == Cleared(q)
           r2 == [c EXCEPT !.pc = after, !.rolled_back = TRUE]
<1>1. q \in State /\ Local(t, q) /\ q.pc \in Undoing /\ ~ q.rolled_back
  BY ThreadFacts
<1>2. RestTyped' /\ UNCHANGED read_lock
  BY DEF Rollback, LockInv, TypeOK, RestTyped, clocks
<1>3. q.i >= 1 /\ q.i \in Nat /\ q.i + 1 \in Nat /\ Len(q.write_log) \in Nat
  <2> HIDE DEF q
  <2>1. q.i >= 1
    BY <1>1 DEF Local, PlacedAs
  <2>2. q.i \in Nat
    BY <1>1 DEF State
  <2>3. Len(q.write_log) \in Nat
    BY <1>1, EntryTyped
  <2>4. QED BY <2>1, <2>2, <2>3
<1>4. /\ q.i <= Len(q.write_log) =>
           write_lock' = [write_lock EXCEPT ![Mine(t, q.i).stripe] = NULL] /\ Become(t, r1)
      /\ ~ (q.i <= Len(q.write_log)) => UNCHANGED write_lock /\ Become(t, r2)
  BY DEF Rollback
<1>5. after \in PC /\ (q.pc = "overflow_rollback" => after = "sync")
      /\ (q.pc # "overflow_rollback" => after = q.pc)
  BY DEF PC
<1>6. ReadLockedIn(q) = {}
  BY <1>1 DEF ReadLockedIn
<1> HIDE DEF q
<1>7. CASE q.i <= Len(q.write_log)
  <2>1. r1 \in State
    BY <1>1, <1>3 DEF State, PC
  <2>2. /\ r1.write_log = q.write_log /\ r1.pc = q.pc /\ r1.i = q.i + 1 /\ r1.done = q.done
        /\ r1.ip = q.ip /\ r1.rolled_back = q.rolled_back
    BY <1>1, SMT DEF State
  <2> HIDE DEF r1
  <2>3. PlacedAs(t, r1)
    BY <1>1, <1>3, <2>2, SMT DEF Local, PlacedAs, OpOf, OpsOf
  <2>4. LoggedAs(t, r1)
    BY <1>1, <2>2, SMT DEF Local, LoggedAs, FillingIn, HasLocksIn, OpOf, OpsOf
  <2>5. q.i \in HeldIn(q) /\ HeldIn(r1) = HeldIn(q) \ {q.i}
    <3>1. q.i \in HeldIn(q)
      BY <1>1, <1>3, <1>7, SMT DEF HeldIn, FirstOf
    <3>2. HeldIn(r1) = HeldIn(q) \ {q.i}
      BY <1>1, <1>3, <2>2, SMT DEF HeldIn, FirstOf
    <3>3. QED BY <3>1, <3>2
  <2>6. ReadLockedIn(r1) = ReadLockedIn(q)
    BY <1>1, <1>6, <2>2 DEF ReadLockedIn
  <2>7. QED BY <1>2, <1>4, <1>7, <2>1, <2>2, <2>3, <2>4, <2>5, <2>6, DropStep DEF Local, q
<1>8. CASE ~ (q.i <= Len(q.write_log))
  <2>1. /\ c \in State /\ c.read_log = <<>> /\ c.write_log = <<>> /\ c.ip = 1 /\ c.done = q.done
    BY <1>1, ClearedTyped
  <2> HIDE DEF c
  <2>2. r2 \in State
    BY <1>5, <2>1 DEF State
  <2>3. /\ r2.pc = after /\ r2.rolled_back /\ r2.read_log = <<>> /\ r2.write_log = <<>>
        /\ r2.ip = 1 /\ r2.done = q.done
    BY <2>1, SMT DEF State
  <2> HIDE DEF r2
  <2>4. Len(r2.write_log) = 0 /\ r2.pc \in {"restart", "abort", "sync"}
    BY <1>1, <1>5, <2>3
  <2>5. PlacedAs(t, r2)
    BY <1>1, <2>3, <2>4, SMT DEF Local, PlacedAs
  <2>6. LoggedAs(t, r2)
    BY <2>3, <2>4, SMT DEF LoggedAs, FillingIn, HasLocksIn
  <2>7. HeldIn(q) = {}
    BY <1>1, <1>3, <1>8, SMT DEF HeldIn, FirstOf
  <2>8. HeldIn(r2) = {} /\ ReadLockedIn(r2) = {}
    BY <2>4, SMT DEF HeldIn, ReadLockedIn
  <2>9. SameLocks(q, r2)
    BY <1>6, <2>7, <2>8 DEF SameLocks
  <2>10. QED BY <1>2, <1>4, <1>8, <2>2, <2>5, <2>6, <2>9, QuietStep DEF Local, q
<1>9. QED BY <1>7, <1>8

LEMMA TxCommittedStep ==
  ASSUME LockInv, NEW t \in Thread, TxCommitted(t)
  PROVE  LockInv'
<1> DEFINE q == tx[t]
           c == Cleared(q)
           r == [c EXCEPT !.pc = "start", !.status = "committed", !.done = q.done + 1]
<1>1. q \in State /\ Local(t, q) /\ q.pc = "committed"
  BY ThreadFacts DEF TxCommitted, At
<1>2. RestTyped' /\ UNCHANGED <<read_lock, write_lock>>
  BY DEF TxCommitted, LockInv, TypeOK, RestTyped, clocks
<1>3. /\ c \in State /\ c.read_log = <<>> /\ c.write_log = <<>> /\ c.ip = 1 /\ c.done = q.done
  BY <1>1, ClearedTyped
<1>4. Become(t, r)
  <2> HIDE DEF c
  <2>1. [c EXCEPT !.pc = "start", !.status = "committed", !.done = @ + 1] = r
    BY <1>3, SMT DEF State
  <2>2. QED BY <2>1 DEF TxCommitted, c
<1>5. q.done + 1 \in Nat
  BY <1>1 DEF State
<1> HIDE DEF q, c
<1>6. r \in State
  BY <1>3, <1>5 DEF State, PC
<1>7. r.pc = "start" /\ r.read_log = <<>> /\ r.write_log = <<>> /\ r.ip = 1
  BY <1>3, SMT DEF State
<1> HIDE DEF r
<1>8. PlacedAs(t, r)
  BY <1>7, SMT DEF PlacedAs
<1>9. LoggedAs(t, r)
  BY <1>7, SMT DEF LoggedAs, FillingIn, HasLocksIn
<1>10. /\ HeldIn(q) = {} /\ ReadLockedIn(q) = {}
       /\ HeldIn(r) = {} /\ ReadLockedIn(r) = {}
  BY <1>1, <1>7, SMT DEF HeldIn, ReadLockedIn
<1>11. SameLocks(q, r)
  BY <1>10 DEF SameLocks
<1>12. QED BY <1>2, <1>4, <1>6, <1>8, <1>9, <1>11, QuietStep DEF Local, q

LEMMA RestartReadLocksStep ==
  ASSUME LockInv, NEW t \in Thread, RestartReadLocks(t)
  PROVE  LockInv'
<1> DEFINE q == tx[t]
           r == [q EXCEPT !.pc = "end_sync"]
<1>1. q \in State /\ Local(t, q) /\ q.pc = "restart_locks"
  BY ThreadFacts DEF RestartReadLocks, At
<1>2. /\ RestTyped' /\ UNCHANGED write_lock /\ Become(t, r)
      /\ read_lock' = [s \in Stripe |-> 1]
  BY DEF RestartReadLocks, Goto, MINIMUM_TS, LockInv, TypeOK, RestTyped, clocks, ghosts
<1> HIDE DEF q
<1>3. r \in State
  BY <1>1 DEF State, PC
<1>4. PlacedAs(t, r)
  BY <1>1, SMT DEF State, Local, PlacedAs, OpOf, OpsOf
<1>5. LoggedAs(t, r)
  BY <1>1, SMT DEF State, Local, LoggedAs, FillingIn, HasLocksIn, OpOf, OpsOf
<1>6. HeldIn(r) = HeldIn(q) /\ r.write_log = q.write_log
  BY <1>1, SMT DEF State, HeldIn, FirstOf
<1>7. WriteLocksFit(t, r)
  BY <1>2, <1>6 DEF WriteLocksFit, LockInv, WriteLocks, q
<1>8. ReadLocksFit(t, r)
  BY <1>2 DEF ReadLocksFit
<1>9. read_lock' \in [Stripe -> Nat] /\ write_lock' \in [Stripe -> Ptr \cup {NULL}]
  BY <1>2 DEF LockInv, TypeOK
<1>10. QED BY <1>2, <1>3, <1>4, <1>5, <1>7, <1>8, <1>9, LockStep DEF Local

----------------------------------------------------------------------------
(* The invariant *)

LEMMA LockInit == Init => LockInv
<1> SUFFICES ASSUME Init PROVE LockInv
  OBVIOUS
<1>1. Idle \in State
  <2>1. <<>> \in Seq(Entry) /\ <<>> \in Seq(ReadEntry) /\ 0 \in Nat /\ 1 \in Nat
        /\ NULL \in Ptr \cup {NULL}
    OBVIOUS
  <2>2. QED BY <2>1 DEF Idle, State, PC
<1>2. TypeOK
  <2>1. tx \in [Thread -> State]
    BY <1>1 DEF Init
  <2>2. <<>> \in Seq(Thread)
    OBVIOUS
  <2>6. read_lock \in [Stripe -> Nat] /\ write_lock \in [Stripe -> Ptr \cup {NULL}]
    BY DEF Init, MINIMUM_TS
  <2>3. /\ memory \in [Addr -> Nat] /\ commit_ts \in Nat
        /\ synchronization_in_progress \in BOOLEAN
    BY DEF Init, MINIMUM_TS
  <2>4. cm_order \in Seq(Thread)
    BY <2>2 DEF Init
  <2>5. QED BY <2>1, <2>3, <2>4, <2>6 DEF TypeOK
<1>3. \A t \in Thread : tx[t] = Idle
  BY DEF Init
<1>4. ASSUME NEW t \in Thread PROVE Local(t, Idle)
  BY SMT DEF Idle, Local, PlacedAs, LoggedAs, FillingIn, HasLocksIn
<1>5. HeldIn(Idle) = {}
  BY SMT DEF HeldIn, FirstOf, Idle
<1>6. WriteLocks
  <2>1. \A s \in Stripe, t \in Thread, n \in Nat \ {0} : write_lock[s] # <<t, n>>
    BY NotAPtr DEF Init
  <2>2. QED BY <1>3, <1>5, <2>1 DEF WriteLocks
<1>7. ReadLocks
  BY DEF Init, ReadLocks, MINIMUM_TS
<1>8. QED BY <1>2, <1>3, <1>4, <1>6, <1>7 DEF LockInv

LEMMA LockNext == LockInv /\ [Next]_vars => LockInv'
<1> SUFFICES ASSUME LockInv, [Next]_vars PROVE LockInv'
  OBVIOUS
<1>1. CASE UNCHANGED vars
  BY <1>1 DEF vars, LockInv, TypeOK, WriteLocks, ReadLocks
<1>2. ASSUME NEW t \in Thread, Step(t) PROVE LockInv'
  <2>1. CASE Starts(t)
    BY <2>1, TxStartStep, StartSyncStep, StartWaitStep, StartAgainStep, StartTsStep DEF Starts
  <2>2. CASE Skip(t)
    BY <2>2, SkipStep
  <2>3. CASE Reads(t)
    BY <2>3, ReadWordStep, ReadVersionStep, ReadValueStep, ReadCheckStep, ExtendTsStep,
       ValidateStep, ReadExtendedStep DEF Reads
  <2>4. CASE Writes(t)
    BY <2>4, WriteWordStep, WriteConflictStep, AbortOtherStep, WriteCasStep, WriteReloadStep,
       WriteVersionStep, WriteExtendedStep DEF Writes
  <2>5. CASE Ends(t)
    <3>1. ReleaseInvalid(t) => LockInv'
      BY ReleaseReadLocksStep DEF ReleaseInvalid
    <3>2. TxRestart(t) \/ AbortRollback(t) => LockInv'
      BY RollbackStep DEF TxRestart, AbortRollback, At
    <3>3. QED BY <2>5, <3>1, <3>2, TxCommitStep, LockReadsStep, IncrementCommitTsStep,
             ValidateCommitStep, WriteBackStep, UnlockReadStep, UnlockWriteStep,
             TxCommittedStep, TxRestartedStep, TxAbortStep, TxAbortedStep DEF Ends
  <2>6. CASE Restarts(t)
    <3>1. OverflowRelease(t) => LockInv'
      BY ReleaseReadLocksStep DEF OverflowRelease
    <3>2. OverflowRollback(t) => LockInv'
      <4>1. tx[t].pc = "overflow_rollback" => ~ tx[t].rolled_back
        BY ThreadFacts DEF Local, LoggedAs, HasLocksIn
      <4>2. QED BY <4>1, RollbackStep DEF OverflowRollback, At
    <3>3. QED BY <2>6, <3>1, <3>2, OverflowStep, StartSynchronizationStep, SyncWaitStep,
             RestartCommitTsStep, RestartReadLocksStep, EndSynchronizationStep, SyncOtherStep,
             SyncOtherWaitStep DEF Restarts
  <2>7. QED BY <1>2, <2>1, <2>2, <2>3, <2>4, <2>5, <2>6 DEF Step
<1>3. QED BY <1>1, <1>2 DEF Next

\* The records of the threads and the lock table agree in every state.
THEOREM LockInvariant == Spec => []LockInv
  BY LockInit, LockNext, PTL DEF Spec

\* Every variable keeps its type: in particular every entry that is released
\* has a version to put back, and every pointer leads to a thread.
THEOREM Typed == Spec => []TypeOK
<1>1. LockInv => TypeOK
  BY DEF LockInv
<1>2. QED BY <1>1, LockInvariant, PTL

\* A write lock leads to a live entry of its owner's log, for that stripe.
THEOREM LocksAreLogged == Spec => []LocksLogged
<1>1. ASSUME LockInv PROVE LocksLogged
  <2>1. SUFFICES ASSUME NEW s \in Stripe, write_lock[s] # NULL
                 PROVE  LET e == write_lock[s]
                        IN /\ e[2] \in DOMAIN tx[e[1]].write_log /\ Deref(e).stripe = s
                           /\ HasLocks(e[1])
    BY DEF LocksLogged
  <2>2. PICK t \in Thread, n \in Nat \ {0} : write_lock[s] = <<t, n>>
    <3>1. write_lock[s] \in Ptr
      BY <1>1, <2>1 DEF LockInv, TypeOK
    <3>2. QED BY <3>1 DEF Ptr
  <2>3. n \in HeldIn(tx[t]) /\ tx[t].write_log[n].stripe = s
    BY <1>1, <2>2 DEF LockInv, WriteLocks
  <2>4. tx[t] \in State /\ Local(t, tx[t])
    BY <1>1, ThreadFacts
  <2>5. n \in 1 .. Len(tx[t].write_log) /\ tx[t].write_log # <<>> /\ tx[t].pc # "committed"
    BY <2>3, <2>4, EntryTyped, ReadLockedHeld DEF HeldIn
  <2>6. DOMAIN tx[t].write_log = 1 .. Len(tx[t].write_log)
    BY <2>4 DEF State
  <2>7. HasLocks(t)
    BY <2>4, <2>5 DEF Local, LoggedAs, HasLocksIn, HasLocks
  <2>8. QED BY <2>2, <2>3, <2>5, <2>6, <2>7 DEF Deref, Mine
<1>2. QED BY <1>1, LockInvariant, PTL

\* A read lock that is set belongs to a transaction that has write-locked the
\* stripe and is between setting its read locks and releasing them.
THEOREM ReadLocksAreOwned == Spec => []ReadLocksOwned
<1>1. ASSUME LockInv PROVE ReadLocksOwned
  <2>1. SUFFICES ASSUME NEW s \in Stripe, read_lock[s] = 0
                 PROVE  \E t \in Thread :
                          /\ LockedByMe(t, write_lock[s])
                          /\ tx[t].pc \in CommitPc \cup {"overflow", "overflow_release"}
    BY DEF ReadLocksOwned, READ_LOCK_SET
  <2>2. PICK t \in Thread : \E n \in ReadLockedIn(tx[t]) : tx[t].write_log[n].stripe = s
    BY <1>1, <2>1 DEF LockInv, ReadLocks
  <2>3. PICK n \in ReadLockedIn(tx[t]) : tx[t].write_log[n].stripe = s
    BY <2>2
  <2>4. n \in HeldIn(tx[t]) /\ n \in Nat \ {0}
    BY <1>1, <2>3, ReadLockedHeld DEF LockInv, TypeOK
  <2>5. write_lock[s] = <<t, n>>
    BY <1>1, <2>3, <2>4 DEF LockInv, WriteLocks
  <2>6. LockedByMe(t, write_lock[s])
    BY <2>4, <2>5, NotAPtr DEF LockedByMe
  <2>7. tx[t].pc \in CommitPc \cup {"overflow", "overflow_release"}
    BY <2>3 DEF ReadLockedIn
  <2>8. QED BY <2>6, <2>7
<1>2. QED BY <1>1, LockInvariant, PTL

(***************************************************************************)
(* The restart of SwissTm's clock: the thread that restarts it waits, one  *)
(* thread after the other, until none executes, while threads go on to     *)
(* start, overflow the clock themselves and look whether a restart is      *)
(* under way.  For every number of threads and every program, the first    *)
(* restart finds nobody at work.  A second one may (see the README).       *)
(***************************************************************************)

\* The thread that restarts the clock.
Leading == {"sync_wait", "restart_ts", "restart_locks", "end_sync"}
Restarted == {"restart_locks", "end_sync"}

\* The pcs at which tx_status says that the thread executes,
Running == AccessPc \cup CommitPc \cup {"start_sync", "start_ts", "run", "overflow", "committed"}
\* and those that a thread does not leave for work while the clock restarts.
Quiet == {"start", "start_sync", "start_wait", "overflow_release", "overflow_rollback"} \cup SyncPc

\* The first restart has not ended.
FirstRestart == \/ history.epoch = 0
                \/ history.epoch = 1 /\ \E t \in Thread : tx[t].pc \in Restarted

\* t has found that u does not execute.
Passed(t, u) == \/ tx[t].pc = "sync_wait" /\ u < tx[t].i
                \/ tx[t].pc \in Leading \ {"sync_wait"}

OneLeads ==
  /\ synchronization_in_progress <=> \E t \in Thread : tx[t].pc \in Leading
  /\ \A t, u \in Thread : tx[t].pc \in Leading /\ tx[u].pc \in Leading => t = u
  /\ \A t \in Thread : tx[t].pc \in Restarted => history.epoch >= 1

\* What tx_status tells the others.  Until the first restart ends nobody has
\* waited for one, so that nobody goes on without another look.
Shown(t) ==
  /\ tx[t].pc \in Running => tx[t].status = "executing"
  /\ FirstRestart =>
       /\ tx[t].pc # "start_again"
       /\ tx[t].pc \in {"restart", "abort"} => tx[t].status = "executing"
       /\ tx[t].pc \in {"start_wait", "sync_other", "sync_other_wait"} =>
            synchronization_in_progress

\* Whom the thread that restarts the clock has passed stays where it is.
Stopped == FirstRestart =>
  \A t, u \in Thread : tx[t].pc \in Leading /\ Passed(t, u) => tx[u].pc \in Quiet

Epochs == /\ history = [epoch |-> history.epoch, commits |-> history.commits]
          /\ history.epoch \in Nat

RestartInv == Epochs /\ OneLeads /\ Stopped /\ \A t \in Thread : Shown(t)

----------------------------------------------------------------------------
(* Steps of a thread that does not restart the clock *)

SameStage(u) == /\ tx'[u].pc = tx[u].pc /\ tx'[u].status = tx[u].status /\ tx'[u].i = tx[u].i
SameClock == /\ UNCHANGED synchronization_in_progress
             /\ history'.epoch = history.epoch /\ Epochs'

LEMMA FollowerStep ==
  ASSUME RestartInv, NEW t \in Thread, SameClock, \A u \in Thread : u # t => SameStage(u),
         tx[t].pc \notin Leading, tx'[t].pc \notin Leading,
         tx'[t].pc \in Running => tx'[t].status = "executing",
         FirstRestart =>
           /\ tx'[t].pc # "start_again"
           /\ tx'[t].pc \in {"restart", "abort"} => tx'[t].status = "executing"
           /\ tx'[t].pc \in {"start_wait", "sync_other", "sync_other_wait"} =>
                synchronization_in_progress
           /\ tx[t].pc \in Quiet /\ synchronization_in_progress => tx'[t].pc \in Quiet
  PROVE  RestartInv'
<1>1. \A u \in Thread : /\ tx'[u].pc \in Leading <=> tx[u].pc \in Leading
                        /\ tx'[u].pc \in Restarted <=> tx[u].pc \in Restarted
                        /\ tx[u].pc \in Leading => u # t /\ SameStage(u)
  BY DEF SameStage, Leading, Restarted
<1>2. FirstRestart' <=> FirstRestart
  BY <1>1 DEF FirstRestart, SameClock
<1>3. OneLeads'
  BY <1>1 DEF RestartInv, OneLeads, SameClock
<1>4. ASSUME NEW u \in Thread PROVE Shown(u)'
  <2>1. CASE u = t
    BY <1>2, <2>1 DEF Shown, SameClock
  <2>2. CASE u # t
    BY <1>2, <2>2 DEF RestartInv, Shown, SameClock, SameStage
  <2>3. QED BY <2>1, <2>2
<1>5. Stopped'
  <2>1. SUFFICES ASSUME FirstRestart, NEW v \in Thread, NEW u \in Thread,
                        tx'[v].pc \in Leading, Passed(v, u)'
                 PROVE  tx'[u].pc \in Quiet
    BY <1>2 DEF Stopped
  <2>2. tx[v].pc \in Leading /\ SameStage(v)
    BY <1>1, <2>1
  <2>3. Passed(v, u)
    BY <2>1, <2>2 DEF Passed, SameStage
  <2>4. tx[u].pc \in Quiet /\ synchronization_in_progress
    BY <2>1, <2>2, <2>3 DEF RestartInv, Stopped, OneLeads
  <2>5. QED BY <2>1, <2>4 DEF SameStage
<1>6. QED BY <1>3, <1>4, <1>5 DEF RestartInv, SameClock

\* One that executes goes on, or to where it undoes what it has done.
LEMMA WorkStep ==
  ASSUME RestartInv, NEW t \in Thread, SameClock, \A u \in Thread : u # t => SameStage(u),
         tx'[t].status = tx[t].status,
         \/ /\ tx[t].pc \in Running \ {"start_sync"}
            /\ tx'[t].pc \in (Running \cup {"restart", "abort"})
         \/ tx[t].pc \in {"restart", "abort"} /\ tx'[t].pc = tx[t].pc
  PROVE  RestartInv'
<1>1. /\ tx[t].pc \in Running => tx[t].status = "executing"
      /\ FirstRestart /\ tx[t].pc \in {"restart", "abort"} => tx[t].status = "executing"
  BY DEF RestartInv, Shown
<1>2. ASSUME NEW pc \in Running \cup {"restart", "abort"}
      PROVE  /\ pc \notin Leading
             /\ pc \notin {"start_again", "start_wait", "sync_other", "sync_other_wait"}
             /\ pc # "start_sync" => pc \notin Quiet
  <2>1. pc \notin Leading /\ pc \notin SyncPc
    BY <1>2 DEF Running, Leading
  <2>2. pc \notin {"start", "start_wait", "overflow_release", "overflow_rollback", "start_again"}
    BY <1>2 DEF Running
  <2>3. QED BY <2>1, <2>2 DEF Quiet
<1>3. /\ tx[t].pc \in (Running \cup {"restart", "abort"}) \ {"start_sync"}
      /\ tx'[t].pc \in Running \cup {"restart", "abort"}
      /\ tx'[t].pc \in Running => tx[t].pc \in Running
  BY DEF Running
<1>4. tx[t].pc \notin Leading /\ tx'[t].pc \notin Leading /\ tx[t].pc \notin Quiet
  BY <1>2, <1>3
<1>5. /\ tx'[t].pc # "start_again"
      /\ tx'[t].pc \notin {"start_wait", "sync_other", "sync_other_wait"}
  BY <1>2, <1>3
<1>6. /\ tx'[t].pc \in Running => tx'[t].status = "executing"
      /\ FirstRestart /\ tx'[t].pc \in {"restart", "abort"} => tx'[t].status = "executing"
  BY <1>1, <1>3
<1>7. QED BY <1>4, <1>5, <1>6, FollowerStep

----------------------------------------------------------------------------
(* What a step does to the pc and the status *)

LEMMA Staged ==
  ASSUME TypeOK, NEW t \in Thread, NEW r, Become(t, r)
  PROVE  tx'[t] = r /\ \A u \in Thread : u # t => SameStage(u)
  BY DEF TypeOK, Become, SameStage

LEMMA SameClocks ==
  ASSUME Epochs, UNCHANGED synchronization_in_progress,
         UNCHANGED history \/ \E c : history' = [history EXCEPT !.commits = c]
  PROVE  SameClock
<1>1. CASE UNCHANGED history
  BY <1>1 DEF SameClock, Epochs
<1>2. ASSUME NEW c, history' = [history EXCEPT !.commits = c] PROVE SameClock
  <2>1. history = [epoch |-> history.epoch, commits |-> history.commits] /\ history.epoch \in Nat
    BY DEF Epochs
  <2>2. history' = [epoch |-> history.epoch, commits |-> c]
    BY <1>2, <2>1
  <2>3. QED BY <2>1, <2>2 DEF SameClock, Epochs
<1>3. QED BY <1>1, <1>2

\* A record that goes to a place in pcs.
Goes(q, r, pcs) == r.pc \in pcs /\ r.status = q.status

LEMMA RecordsGo ==
  ASSUME NEW q, {"pc", "status"} \subseteq DOMAIN q
  PROVE  /\ \A pc : Goes(q, [q EXCEPT !.pc = pc], {pc})
         /\ \A v : Goes(q, Returned(q, v), {"run"})
         /\ Goes(q, NextOp(q), {"run"})
         /\ \A last, after : Goes(q, Advance(q, last, after), {q.pc, after})
<1>1. \A pc : Goes(q, [q EXCEPT !.pc = pc], {pc})
  BY DEF Goes
<1>2. Goes(q, NextOp(q), {"run"})
  BY DEF Goes, NextOp
<1>3. \A v : Goes(q, Returned(q, v), {"run"})
  BY DEF Goes, NextOp, Returned
<1>4. ASSUME NEW last, NEW after PROVE Goes(q, Advance(q, last, after), {q.pc, after})
  <2>1. \/ Advance(q, last, after) = [q EXCEPT !.i = @ + 1]
        \/ Advance(q, last, after) = [q EXCEPT !.pc = after, !.i = 1]
    BY Zenon DEF Advance
  <2>2. QED BY <2>1 DEF Goes
<1>5. QED BY <1>1, <1>2, <1>3, <1>4

LEMMA Fields == ASSUME TypeOK, NEW t \in Thread
                PROVE  {"pc", "status", "i"} \subseteq DOMAIN tx[t] /\ tx[t] \in State
  BY DEF TypeOK, State

\* A step of one that executes.
Works(t, r) == /\ Become(t, r) /\ SameClock
               /\ \/ /\ tx[t].pc \in Running \ {"start_sync"}
                     /\ Goes(tx[t], r, Running \cup {"restart", "abort"})
                  \/ /\ tx[t].pc \in {"restart", "abort"}
                     /\ Goes(tx[t], r, {tx[t].pc})

LEMMA WorksKeeps ==
  ASSUME TypeOK, RestartInv, NEW t \in Thread, NEW r, Works(t, r)
  PROVE  RestartInv'
<1>1. tx'[t] = r /\ \A u \in Thread : u # t => SameStage(u)
  BY Staged DEF Works
<1>2. SameClock /\ tx'[t].status = tx[t].status
  BY <1>1 DEF Works, Goes
<1>3. \/ /\ tx[t].pc \in Running \ {"start_sync"}
         /\ tx'[t].pc \in (Running \cup {"restart", "abort"})
      \/ tx[t].pc \in {"restart", "abort"} /\ tx'[t].pc = tx[t].pc
  BY <1>1 DEF Works, Goes
<1>4. QED BY <1>1, <1>2, <1>3, WorkStep

LEMMA Work ==
  ASSUME TypeOK, RestartInv, NEW t \in Thread, tx[t].pc \in Running \ {"start_sync"},
         NEW r, Become(t, r), Goes(tx[t], r, Running \cup {"restart", "abort"}),
         UNCHANGED synchronization_in_progress,
         UNCHANGED history \/ \E c : history' = [history EXCEPT !.commits = c]
  PROVE  RestartInv'
<1>1. SameClock
  BY SameClocks DEF RestartInv
<1>2. QED BY <1>1, WorksKeeps DEF Works

LEMMA StartsWork ==
  ASSUME TypeOK, RestartInv, NEW t \in Thread, StartTs(t) \/ Skip(t) PROVE RestartInv'
<1> DEFINE q == tx[t]
<1>1. {"pc", "status"} \subseteq DOMAIN q
  BY Fields
<1>2. CASE StartTs(t)
  <2> DEFINE r == [q EXCEPT !.pc = "run", !.valid_ts = commit_ts, !.locations_accessed = 0,
                            !.aborted_externally = FALSE, !.rolled_back = FALSE]
  <2>1. Goes(q, r, {"run"})
    BY <1>1 DEF Goes
  <2>2. /\ Become(t, r) /\ q.pc = "start_ts" /\ UNCHANGED synchronization_in_progress
        /\ UNCHANGED history
    BY <1>2 DEF StartTs, At, ghosts
  <2> HIDE DEF r
  <2>3. QED BY <2>1, <2>2, Work DEF Goes, Running
<1>3. CASE Skip(t)
  <2>1. /\ Become(t, NextOp(q)) /\ q.pc = "run" /\ UNCHANGED synchronization_in_progress
        /\ UNCHANGED history
    BY <1>3 DEF Skip, At, clocks, ghosts
  <2>2. Goes(q, NextOp(q), {"run"})
    BY <1>1, RecordsGo
  <2>3. QED BY <2>1, <2>2, Work DEF Goes, Running
<1>4. QED BY <1>2, <1>3

\* A step of t to one of the places in pcs.
Moves(t, pcs) == \E r : Become(t, r) /\ Goes(tx[t], r, pcs)

LEMMA MovesTo ==
  ASSUME TypeOK, NEW t \in Thread
  PROVE  /\ \A r, pcs : Become(t, r) /\ r.pc \in pcs /\ r.status = tx[t].status => Moves(t, pcs)
         /\ \A pc : Goto(t, pc) => Moves(t, {pc})
         /\ \A v : Become(t, Returned(tx[t], v)) => Moves(t, {"run"})
         /\ Become(t, NextOp(tx[t])) => Moves(t, {"run"})
         /\ \A last, after : Become(t, Advance(tx[t], last, after)) => Moves(t, {tx[t].pc, after})
<1> DEFINE q == tx[t]
<1>1. {"pc", "status"} \subseteq DOMAIN q
  BY Fields
<1>2. /\ \A pc : Goes(q, [q EXCEPT !.pc = pc], {pc})
      /\ \A v : Goes(q, Returned(q, v), {"run"})
      /\ Goes(q, NextOp(q), {"run"})
      /\ \A last, after : Goes(q, Advance(q, last, after), {q.pc, after})
  BY <1>1, RecordsGo
<1>3. \A r, pcs : Become(t, r) /\ r.pc \in pcs /\ r.status = q.status => Moves(t, pcs)
  BY DEF Moves, Goes
<1>4. \A pc : Goto(t, pc) => Moves(t, {pc})
  BY <1>2, Zenon DEF Moves, Goto
<1>5. \A v : Become(t, Returned(q, v)) => Moves(t, {"run"})
  BY <1>2, Zenon DEF Moves
<1>6. Become(t, NextOp(q)) => Moves(t, {"run"})
  BY <1>2, Zenon DEF Moves
<1>7. \A last, after : Become(t, Advance(q, last, after)) => Moves(t, {q.pc, after})
  BY <1>2, Zenon DEF Moves
<1>8. QED BY <1>3, <1>4, <1>5, <1>6, <1>7

\* One that executes moves to where it executes, or undoes what it has done.
LEMMA MoveWorks ==
  ASSUME TypeOK, RestartInv, NEW t \in Thread, tx[t].pc \in Running \ {"start_sync"},
         NEW pcs, Moves(t, pcs), pcs \subseteq Running \cup {"restart", "abort"},
         UNCHANGED synchronization_in_progress,
         UNCHANGED history \/ \E c : history' = [history EXCEPT !.commits = c]
  PROVE  RestartInv'
<1>1. PICK r : Become(t, r) /\ Goes(tx[t], r, pcs)
  BY DEF Moves
<1>2. Goes(tx[t], r, Running \cup {"restart", "abort"})
  BY <1>1 DEF Goes
<1>3. QED BY <1>1, <1>2, Work

LEMMA ReadsWork == ASSUME TypeOK, RestartInv, NEW t \in Thread, Reads(t) PROVE RestartInv'
<1> DEFINE q == tx[t]
           Working == Running \cup {"restart", "abort"}
<1>1. {"pc", "status"} \subseteq DOMAIN q
  BY Fields
<1>2. UNCHANGED <<synchronization_in_progress, history>>
  BY DEF Reads, ReadWord, ReadVersion, ReadValue, ReadCheck, ExtendTs, Validate, ReadExtended,
     clocks, ghosts
<1>3. q.pc \in Running \ {"start_sync"}
  BY DEF Reads, ReadWord, ReadVersion, ReadValue, ReadCheck, ExtendTs, Validate, ReadExtended,
     Doing, At, Running
<1>4. AccessPc \cup {"run", "restart", "abort"} \subseteq Working
  BY DEF Running
<1>5. \E pcs : Moves(t, pcs) /\ pcs \subseteq AccessPc \cup {"run", "restart"}
  <2>1. CASE ReadWord(t)
    <3>1. \/ Goto(t, "read_version") \/ \E v : Become(t, Returned(q, v))
      BY <2>1, Zenon DEF ReadWord
    <3>2. Moves(t, {"read_version"}) \/ Moves(t, {"run"})
      BY <3>1, MovesTo
    <3>3. QED BY <3>2
  <2>2. CASE ReadVersion(t)
    <3> DEFINE r == [q EXCEPT !.pc = "read_value", !.version = read_lock[StripeOfOp(t)]]
    <3>1. Become(t, r) /\ r.pc = "read_value" /\ r.status = q.status
      BY <1>1, <2>2 DEF ReadVersion
    <3> HIDE DEF r
    <3>2. Moves(t, {"read_value"})
      BY <3>1, MovesTo
    <3>3. QED BY <3>2
  <2>3. CASE ReadValue(t)
    <3> DEFINE r == [q EXCEPT !.pc = "read_check", !.value = memory[Op(t).addr]]
    <3>1. Become(t, r) /\ r.pc = "read_check" /\ r.status = q.status
      BY <1>1, <2>3 DEF ReadValue
    <3> HIDE DEF r
    <3>2. Moves(t, {"read_check"})
      BY <3>1, MovesTo
    <3>3. QED BY <3>2
  <2>4. CASE ReadCheck(t)
    <3> DEFINE again == read_lock[StripeOfOp(t)]
               logged == [q EXCEPT !.read_log =
                            Append(@, [stripe |-> StripeOfOp(t), version |-> again])]
               r1 == [q EXCEPT !.pc = "read_value", !.version = again]
               r2 == [logged EXCEPT !.pc = "extend_ts"]
               r3 == Returned(logged, logged.value)
    <3>1. Goto(t, "read_version") \/ Become(t, r1) \/ Become(t, r2) \/ Become(t, r3)
      BY <2>4, Zenon DEF ReadCheck
    <3>2. /\ r1.pc = "read_value" /\ r1.status = q.status
          /\ r2.pc = "extend_ts" /\ r2.status = q.status
      BY <1>1
    <3>3. r3.pc = "run" /\ r3.status = q.status
      BY <1>1 DEF Returned, NextOp
    <3> HIDE DEF r1, r2, r3
    <3>4. \/ Moves(t, {"read_version"}) \/ Moves(t, {"read_value"})
          \/ Moves(t, {"extend_ts"}) \/ Moves(t, {"run"})
      BY <3>1, <3>2, <3>3, MovesTo
    <3>5. QED BY <3>4
  <2>5. CASE ExtendTs(t)
    <3> DEFINE pc == IF q.read_log = <<>> THEN "extended" ELSE "extend"
               r == [q EXCEPT !.pc = pc, !.ts = commit_ts, !.i = 1]
    <3>1. Become(t, r) /\ r.pc \in {"extended", "extend"} /\ r.status = q.status
      BY <1>1, <2>5 DEF ExtendTs
    <3> HIDE DEF r
    <3>2. Moves(t, {"extended", "extend"})
      BY <3>1, MovesTo
    <3>3. QED BY <3>2
  <2>6. CASE Validate(t)
    <3> DEFINE r == [q EXCEPT !.pc = "restart", !.i = 1]
    <3>1. Become(t, r) \/ Become(t, Advance(q, Len(q.read_log), "extended"))
      BY <2>6, Zenon DEF Validate
    <3>2. q.pc = "extend" /\ r.pc = "restart" /\ r.status = q.status
      BY <1>1, <2>6 DEF Validate, At
    <3> HIDE DEF r
    <3>3. Moves(t, {"restart"}) \/ Moves(t, {q.pc, "extended"})
      BY <3>1, <3>2, MovesTo
    <3>4. QED BY <3>2, <3>3
  <2>7. CASE ReadExtended(t)
    <3> DEFINE r == [Returned(q, q.value) EXCEPT !.valid_ts = Truncated(q.ts)]
    <3>1. Become(t, r)
      BY <2>7 DEF ReadExtended
    <3>2. r.pc = "run" /\ r.status = q.status
      BY <1>1 DEF Returned, NextOp
    <3> HIDE DEF r
    <3>3. Moves(t, {"run"})
      BY <3>1, <3>2, MovesTo
    <3>4. QED BY <3>3
  <2>8. QED BY <2>1, <2>2, <2>3, <2>4, <2>5, <2>6, <2>7 DEF Reads
<1>6. QED BY <1>2, <1>3, <1>4, <1>5, MoveWorks

\* A greedy writer tells the owner of the stripe: that changes no pc or status.
LEMMA AbortOtherKeeps ==
  ASSUME LockInv, RestartInv, NEW t \in Thread, AbortOther(t) PROVE RestartInv'
<1> DEFINE q == tx[t]
           w == q.ptr[1]
           mine == [q EXCEPT !.pc = "write_cas", !.ptr = NULL]
           told == [tx EXCEPT ![t] = mine]
<1>1. TypeOK /\ q.pc = "abort_other" /\ UNCHANGED synchronization_in_progress /\ UNCHANGED history
  BY DEF LockInv, AbortOther, At, clocks, ghosts
<1>2. q \in State /\ q.ptr # NULL
  BY <1>1, ThreadFacts DEF Local, PlacedAs
<1>3. w \in Thread
  BY <1>2 DEF State, Ptr
<1>4. tx' = [told EXCEPT ![w].aborted_externally = TRUE]
  BY Zenon DEF AbortOther
<1>5. /\ told[t] = mine /\ (\A u \in Thread : u # t => told[u] = tx[u]) /\ DOMAIN told = Thread
  BY <1>1 DEF TypeOK
<1>6. mine.pc = "write_cas" /\ mine.status = q.status
  BY <1>2 DEF State
<1>7. \A u \in Thread : "pc" \in DOMAIN told[u] /\ "status" \in DOMAIN told[u] /\ "i" \in DOMAIN told[u]
  <2>1. {"pc", "status", "i"} \subseteq DOMAIN mine
    BY <1>1, Fields
  <2> HIDE DEF mine
  <2>2. \A u \in Thread : {"pc", "status", "i"} \subseteq DOMAIN tx[u]
    BY <1>1, Fields
  <2> HIDE DEF told
  <2>3. QED BY <1>5, <2>1, <2>2
<1> HIDE DEF told, mine
<1>8. \A u \in Thread : /\ tx'[u].pc = told[u].pc /\ tx'[u].status = told[u].status
                        /\ tx'[u].i = told[u].i
  BY <1>3, <1>4, <1>5, <1>7
<1>9. /\ tx'[t].pc = "write_cas" /\ tx'[t].status = q.status
      /\ \A u \in Thread : u # t => SameStage(u)
  BY <1>5, <1>6, <1>8 DEF SameStage
<1>10. SameClock
  BY <1>1, SameClocks DEF RestartInv
<1>11. QED BY <1>1, <1>9, <1>10, WorkStep DEF Running

LEMMA WriteLockedMoves ==
  ASSUME TypeOK, NEW t \in Thread, NEW r, WriteLocked(t, r),
         {"pc", "status"} \subseteq DOMAIN r, r.status = tx[t].status
  PROVE  Moves(t, {"run"})
<1>1. PICK n, log : Become(t, NextOp([r EXCEPT !.locations_accessed = n,
                                               !.write_log[Len(r.write_log)] = log]))
  BY DEF WriteLocked
<1> DEFINE s == [r EXCEPT !.locations_accessed = n, !.write_log[Len(r.write_log)] = log]
<1>2. {"pc", "status"} \subseteq DOMAIN s /\ s.status = tx[t].status
  OBVIOUS
<1> HIDE DEF s
<1>3. NextOp(s).pc = "run" /\ NextOp(s).status = tx[t].status
  BY <1>2 DEF NextOp
<1>4. Become(t, NextOp(s))
  BY <1>1 DEF s
<1>5. QED BY <1>3, <1>4, MovesTo

LEMMA WritesWork == ASSUME LockInv, RestartInv, NEW t \in Thread, Writes(t) PROVE RestartInv'
<1> DEFINE q == tx[t]
<1> SUFFICES ASSUME ~ AbortOther(t) PROVE RestartInv'
  BY AbortOtherKeeps
<1>1. TypeOK /\ {"pc", "status"} \subseteq DOMAIN q
  BY Fields DEF LockInv
<1>2. UNCHANGED <<synchronization_in_progress, history>>
  BY DEF Writes, WriteWord, WriteConflict, WriteCas, WriteReload, WriteVersion, WriteExtended,
     clocks, ghosts
<1>3. q.pc \in Running \ {"start_sync"}
  BY DEF Writes, WriteWord, WriteConflict, WriteCas, WriteReload, WriteVersion, WriteExtended,
     Doing, At, Running
<1>4. \E pcs : Moves(t, pcs) /\ pcs \subseteq AccessPc \cup {"run", "restart"}
  <2>1. CASE WriteWord(t)
    <3>1. \/ \E n : Become(t, NextOp([q EXCEPT !.write_log[n].words =
                                         Inserted(t, q.write_log[n].words)]))
          \/ Goto(t, "write_cas") \/ Goto(t, "write_locked")
      BY <2>1 DEF WriteWord
    <3>2. CASE \E n : Become(t, NextOp([q EXCEPT !.write_log[n].words =
                                         Inserted(t, q.write_log[n].words)]))
      <4>1. PICK n : Become(t, NextOp([q EXCEPT !.write_log[n].words =
                                         Inserted(t, q.write_log[n].words)]))
        BY <3>2
      <4> DEFINE s == [q EXCEPT !.write_log[n].words = Inserted(t, q.write_log[n].words)]
      <4>2. {"pc", "status"} \subseteq DOMAIN s /\ s.status = q.status
        BY <1>1
      <4> HIDE DEF s
      <4>3. NextOp(s).pc = "run" /\ NextOp(s).status = q.status
        BY <4>2 DEF NextOp
      <4>4. Moves(t, {"run"})
        BY <1>1, <4>1, <4>3, MovesTo DEF s
      <4>5. QED BY <4>4
    <3>3. CASE Goto(t, "write_cas") \/ Goto(t, "write_locked")
      <4>1. Moves(t, {"write_cas"}) \/ Moves(t, {"write_locked"})
        BY <1>1, <3>3, MovesTo
      <4>2. QED BY <4>1
    <3>4. QED BY <3>1, <3>2, <3>3
  <2>2. CASE WriteConflict(t)
    <3> DEFINE e == write_lock[StripeOfOp(t)]
               r1 == [q EXCEPT !.pc = "write_cas"]
               r2 == [q EXCEPT !.pc = "abort_other", !.ptr = e]
               r3 == [q EXCEPT !.pc = "restart", !.i = 1]
    <3>1. Become(t, r1) \/ Become(t, r2) \/ Become(t, r3)
      BY <2>2, Zenon DEF WriteConflict
    <3>2. /\ r1.pc = "write_cas" /\ r1.status = q.status
          /\ r2.pc = "abort_other" /\ r2.status = q.status
          /\ r3.pc = "restart" /\ r3.status = q.status
      BY <1>1
    <3> HIDE DEF r1, r2, r3
    <3>3. Moves(t, {"write_cas"}) \/ Moves(t, {"abort_other"}) \/ Moves(t, {"restart"})
      BY <1>1, <3>1, <3>2, MovesTo
    <3>4. QED BY <3>3
  <2>3. CASE WriteCas(t)
    <3> DEFINE r == [q EXCEPT !.write_log = Append(@, EntryFor(StripeOfOp(t))),
                              !.pc = "write_version"]
    <3>1. Become(t, r) \/ Goto(t, "write_reload")
      BY <2>3, Zenon DEF WriteCas, TakesLock
    <3>2. r.pc = "write_version" /\ r.status = q.status
      BY <1>1
    <3> HIDE DEF r
    <3>3. Moves(t, {"write_version"}) \/ Moves(t, {"write_reload"})
      BY <1>1, <3>1, <3>2, MovesTo
    <3>4. QED BY <3>3
  <2>4. CASE WriteReload(t)
    <3>1. Goto(t, "write_cas") \/ Goto(t, "write_locked")
      BY <2>4 DEF WriteReload
    <3>2. Moves(t, {"write_cas"}) \/ Moves(t, {"write_locked"})
      BY <1>1, <3>1, MovesTo
    <3>3. QED BY <3>2
  <2>5. CASE WriteVersion(t)
    <3> DEFINE r == [q EXCEPT !.version = read_lock[StripeOfOp(t)]]
               extends == [r EXCEPT !.pc = "extend_ts"]
    <3>1. Become(t, extends) \/ WriteLocked(t, r)
      BY <2>5, Zenon DEF WriteVersion
    <3>2. /\ {"pc", "status"} \subseteq DOMAIN r /\ r.status = q.status
          /\ extends.pc = "extend_ts" /\ extends.status = q.status
      BY <1>1
    <3> HIDE DEF r, extends
    <3>3. Moves(t, {"extend_ts"}) \/ Moves(t, {"run"})
      BY <1>1, <3>1, <3>2, MovesTo, WriteLockedMoves
    <3>4. QED BY <3>3
  <2>6. CASE WriteExtended(t)
    <3> DEFINE r == [q EXCEPT !.valid_ts = Truncated(q.ts)]
    <3>1. WriteLocked(t, r)
      BY <2>6 DEF WriteExtended
    <3>2. {"pc", "status"} \subseteq DOMAIN r /\ r.status = q.status
      BY <1>1
    <3> HIDE DEF r
    <3>3. Moves(t, {"run"})
      BY <1>1, <3>1, <3>2, WriteLockedMoves
    <3>4. QED BY <3>3
  <2>7. QED BY <2>1, <2>2, <2>3, <2>4, <2>5, <2>6 DEF Writes
<1>5. AccessPc \cup {"run", "restart"} \subseteq Running \cup {"restart", "abort"}
  BY DEF Running
<1>6. QED BY <1>1, <1>2, <1>3, <1>4, <1>5, MoveWorks

LEMMA RollbackMoves ==
  ASSUME TypeOK, NEW t \in Thread, NEW after, Rollback(t, after)
  PROVE  Moves(t, {tx[t].pc, after})
<1> DEFINE q == tx[t]
           r1 == [q EXCEPT !.i = @ + 1]
           r2 == [Cleared(q) EXCEPT !.pc = after, !.rolled_back = TRUE]
<1>1. {"pc", "status"} \subseteq DOMAIN q
  BY Fields
<1>2. Become(t, r1) \/ Become(t, r2)
  BY Zenon DEF Rollback
<1>3. r1.pc = q.pc /\ r1.status = q.status
  BY <1>1
<1>4. r2.pc = after /\ r2.status = q.status
  BY <1>1 DEF Cleared
<1> HIDE DEF r1, r2
<1>5. QED BY <1>2, <1>3, <1>4, MovesTo

LEMMA ReleaseMoves ==
  ASSUME TypeOK, NEW t \in Thread, NEW pc, NEW after, ReleaseReadLocks(t, pc, after)
  PROVE  tx[t].pc = pc /\ Moves(t, {pc, after})
<1>1. tx[t].pc = pc /\ Become(t, Advance(tx[t], Len(tx[t].write_log), after))
  BY DEF ReleaseReadLocks, At
<1>2. QED BY <1>1, MovesTo

LEMMA CommitWorks ==
  ASSUME TypeOK, RestartInv, NEW t \in Thread,
         \/ TxCommit(t) \/ LockReads(t) \/ IncrementCommitTs(t) \/ ValidateCommit(t)
         \/ WriteBack(t) \/ UnlockRead(t) \/ UnlockWrite(t) \/ ReleaseInvalid(t) \/ TxAbort(t)
  PROVE  RestartInv'
<1> DEFINE q == tx[t]
<1>1. {"pc", "status"} \subseteq DOMAIN q
  BY Fields
<1>2. UNCHANGED synchronization_in_progress
  BY DEF TxCommit, LockReads, IncrementCommitTs, ValidateCommit, WriteBack, UnlockRead,
     UnlockWrite, ReleaseInvalid, ReleaseReadLocks, TxAbort, clocks
<1>3. UNCHANGED history \/ \E c : history' = [history EXCEPT !.commits = c]
  <2>1. CASE IncrementCommitTs(t)
    <3>1. UNCHANGED history \/ Commits(t, commit_ts + 1)
      BY <2>1, Zenon DEF IncrementCommitTs
    <3>2. QED BY <3>1 DEF Commits
  <2>2. CASE ValidateCommit(t)
    <3>1. UNCHANGED history \/ Commits(t, tx[t].ts)
      BY <2>2, Zenon DEF ValidateCommit
    <3>2. QED BY <3>1 DEF Commits
  <2>3. QED BY <2>1, <2>2 DEF TxCommit, LockReads, WriteBack, UnlockRead, UnlockWrite,
            ReleaseInvalid, ReleaseReadLocks, TxAbort, ghosts
<1>4. q.pc \in CommitPc \cup {"run"}
  BY DEF TxCommit, LockReads, IncrementCommitTs, ValidateCommit, WriteBack, UnlockRead,
     UnlockWrite, ReleaseInvalid, ReleaseReadLocks, TxAbort, Doing, At
<1>5. \E pcs : /\ Moves(t, pcs)
               /\ pcs \subseteq CommitPc \cup {"committed", "overflow", "restart", "abort"}
  <2>1. CASE TxCommit(t)
    <3> DEFINE pc == IF q.write_log = <<>> THEN "committed" ELSE "lock_reads"
               r == [q EXCEPT !.pc = pc, !.i = 1]
    <3>1. Become(t, r) /\ r.pc \in {"committed", "lock_reads"} /\ r.status = q.status
      BY <1>1, <2>1 DEF TxCommit
    <3> HIDE DEF r
    <3>2. Moves(t, {"committed", "lock_reads"})
      BY <3>1, MovesTo
    <3>3. QED BY <3>2
  <2>2. CASE LockReads(t)
    <3>1. q.pc = "lock_reads" /\ Become(t, Advance(q, Len(q.write_log), "increment_ts"))
      BY <2>2 DEF LockReads, At
    <3>2. Moves(t, {"lock_reads", "increment_ts"})
      BY <3>1, MovesTo
    <3>3. QED BY <3>2
  <2>3. CASE IncrementCommitTs(t)
    <3>1. PICK pc \in {"overflow", "write_back", "validate"} :
            Become(t, [q EXCEPT !.ts = commit_ts + 1, !.pc = pc])
      BY <2>3 DEF IncrementCommitTs
    <3> DEFINE r == [q EXCEPT !.ts = commit_ts + 1, !.pc = pc]
    <3>2. r.pc = pc /\ r.status = q.status
      BY <1>1
    <3>3. Become(t, r)
      BY <3>1
    <3> HIDE DEF r
    <3>4. Moves(t, {pc})
      BY <3>2, <3>3, MovesTo
    <3>5. QED BY <3>4
  <2>4. CASE ValidateCommit(t)
    <3> DEFINE r == [q EXCEPT !.pc = "release", !.i = 1]
    <3>1. Become(t, Advance(q, Len(q.read_log), "write_back")) \/ Become(t, r)
      BY <2>4, Zenon DEF ValidateCommit
    <3>2. q.pc = "validate" /\ r.pc = "release" /\ r.status = q.status
      BY <1>1, <2>4 DEF ValidateCommit, At
    <3> HIDE DEF r
    <3>3. Moves(t, {"release"}) \/ Moves(t, {"validate", "write_back"})
      BY <3>1, <3>2, MovesTo
    <3>4. QED BY <3>3
  <2>5. CASE WriteBack(t) \/ UnlockRead(t)
    <3>1. Goto(t, "unlock_read") \/ Goto(t, "unlock_write")
      BY <2>5 DEF WriteBack, UnlockRead
    <3>2. Moves(t, {"unlock_read"}) \/ Moves(t, {"unlock_write"})
      BY <3>1, MovesTo
    <3>3. QED BY <3>2
  <2>6. CASE UnlockWrite(t)
    <3> DEFINE r1 == [q EXCEPT !.pc = "write_back", !.i = @ + 1]
               r2 == [q EXCEPT !.pc = "committed"]
    <3>1. Become(t, r1) \/ Become(t, r2)
      BY <2>6, Zenon DEF UnlockWrite
    <3>2. r1.pc = "write_back" /\ r2.pc = "committed" /\ r1.status = q.status /\ r2.status = q.status
      BY <1>1
    <3> HIDE DEF r1, r2
    <3>3. Moves(t, {"write_back"}) \/ Moves(t, {"committed"})
      BY <3>1, <3>2, MovesTo
    <3>4. QED BY <3>3
  <2>7. CASE ReleaseInvalid(t)
    <3>1. Moves(t, {"release", "restart"})
      BY <2>7, ReleaseMoves DEF ReleaseInvalid
    <3>2. QED BY <3>1
  <2>8. CASE TxAbort(t)
    <3> DEFINE r == [q EXCEPT !.pc = "abort", !.i = 1]
    <3>1. Become(t, r) /\ r.pc = "abort" /\ r.status = q.status
      BY <1>1, <2>8 DEF TxAbort
    <3> HIDE DEF r
    <3>2. Moves(t, {"abort"})
      BY <3>1, MovesTo
    <3>3. QED BY <3>2
  <2>9. QED BY <2>1, <2>2, <2>3, <2>4, <2>5, <2>6, <2>7, <2>8
<1>6. /\ q.pc \in Running \ {"start_sync"}
      /\ CommitPc \cup {"committed", "overflow", "restart", "abort"}
           \subseteq Running \cup {"restart", "abort"}
  BY <1>4 DEF Running
<1>7. QED BY <1>2, <1>3, <1>5, <1>6, MoveWorks

\* One that undoes what it has done is still seen to execute.
LEMMA UndoWorks ==
  ASSUME TypeOK, RestartInv, NEW t \in Thread, TxRestart(t) \/ AbortRollback(t)
  PROVE  RestartInv'
<1>1. tx[t].pc \in {"restart", "abort"} /\ Rollback(t, tx[t].pc)
  BY DEF TxRestart, AbortRollback, At
<1>2. UNCHANGED synchronization_in_progress /\ UNCHANGED history
  BY <1>1 DEF Rollback, clocks
<1>3. PICK r : Become(t, r) /\ Goes(tx[t], r, {tx[t].pc})
  BY <1>1, RollbackMoves DEF Moves
<1>4. SameClock
  BY <1>2, SameClocks DEF RestartInv
<1>5. QED BY <1>1, <1>3, <1>4, WorksKeeps DEF Works

----------------------------------------------------------------------------
(* The beginning and the end of a transaction, and the overflow *)

\* A step to a place where a thread does not execute.
LEMMA Follow ==
  ASSUME TypeOK, RestartInv, NEW t \in Thread, NEW r, Become(t, r),
         UNCHANGED synchronization_in_progress, UNCHANGED history,
         tx[t].pc \notin Leading, r.pc \in PC \ Leading,
         r.pc \in Running => r.status = "executing",
         FirstRestart =>
           /\ r.pc \notin {"start_again", "restart", "abort"}
           /\ r.pc \in {"start_wait", "sync_other", "sync_other_wait"} =>
                synchronization_in_progress
           /\ tx[t].pc \in Quiet /\ synchronization_in_progress => r.pc \in Quiet
  PROVE  RestartInv'
<1>1. tx'[t] = r /\ \A u \in Thread : u # t => SameStage(u)
  BY Staged
<1>2. SameClock
  BY SameClocks DEF RestartInv
<1>3. QED BY <1>1, <1>2, FollowerStep

LEMMA EndKeeps ==
  ASSUME TypeOK, RestartInv, NEW t \in Thread, TxCommitted(t) \/ TxRestarted(t) \/ TxAborted(t)
  PROVE  RestartInv'
<1> DEFINE q == tx[t]
<1>1. {"pc", "status"} \subseteq DOMAIN q
  BY Fields
<1>2. /\ UNCHANGED synchronization_in_progress /\ UNCHANGED history
      /\ q.pc \in {"committed", "restart", "abort"}
  BY DEF TxCommitted, TxRestarted, TxAborted, At, clocks, ghosts
<1>3. PICK r : Become(t, r) /\ r.pc = "start"
  <2>1. CASE TxCommitted(t)
    <3> DEFINE r == [Cleared(q) EXCEPT !.pc = "start", !.status = "committed", !.done = @ + 1]
    <3>1. Become(t, r) /\ r.pc = "start"
      BY <1>1, <2>1 DEF TxCommitted, Cleared
    <3>2. QED BY <3>1
  <2>2. CASE TxRestarted(t)
    <3> DEFINE r == [q EXCEPT !.pc = "start", !.status = "restarted", !.i = 0]
    <3>1. Become(t, r) /\ r.pc = "start"
      BY <1>1, <2>2 DEF TxRestarted
    <3>2. QED BY <3>1
  <2>3. CASE TxAborted(t)
    <3> DEFINE r == [q EXCEPT !.pc = "start", !.status = "aborted", !.done = @ + 1, !.i = 0]
    <3>1. Become(t, r) /\ r.pc = "start"
      BY <1>1, <2>3 DEF TxAborted
    <3>2. QED BY <3>1
  <2>4. QED BY <2>1, <2>2, <2>3
<1>4. "start" \in Quiet /\ "start" \in PC /\ "start" \notin Running /\ "start" \notin Leading
  BY DEF Quiet, PC, Running, Leading
<1>5. QED BY <1>2, <1>3, <1>4, Follow DEF Leading

LEMMA Places ==
  /\ {"start", "start_sync", "start_wait", "overflow_release", "overflow_rollback",
      "sync", "sync_other", "sync_other_wait"} \subseteq Quiet
  /\ {"start", "start_sync", "start_wait", "start_again", "start_ts", "overflow_release",
      "overflow_rollback", "sync", "sync_other", "sync_other_wait", "restart"} \subseteq PC \ Leading
  /\ {"start_sync", "start_ts", "overflow"} \subseteq Running
  /\ "start_ts" \notin Quiet /\ "start_again" \notin Quiet /\ "overflow" \notin Quiet
  /\ {"start", "start_wait", "start_again", "overflow_release", "overflow_rollback",
      "sync", "sync_other", "sync_other_wait", "restart"} \cap Running = {}
<1>1. {"start", "start_sync", "start_wait", "overflow_release", "overflow_rollback",
       "sync", "sync_other", "sync_other_wait"} \subseteq Quiet
  BY DEF Quiet
<1>2. {"start", "start_sync", "start_wait", "start_again", "start_ts", "overflow_release",
       "overflow_rollback", "sync", "sync_other", "sync_other_wait", "restart"} \subseteq PC \ Leading
  BY DEF PC, Leading
<1>3. {"start_sync", "start_ts", "overflow"} \subseteq Running
  BY DEF Running
<1>4. "start_ts" \notin Quiet /\ "start_again" \notin Quiet /\ "overflow" \notin Quiet
  BY DEF Quiet
<1>5. {"start", "start_wait", "start_again", "overflow_release", "overflow_rollback",
       "sync", "sync_other", "sync_other_wait", "restart"} \cap Running = {}
  BY DEF Running
<1>6. QED BY <1>1, <1>2, <1>3, <1>4, <1>5

LEMMA StartKeeps ==
  ASSUME TypeOK, RestartInv, NEW t \in Thread,
         TxStart(t) \/ StartSync(t) \/ StartWait(t) \/ StartAgain(t)
  PROVE  RestartInv'
<1> DEFINE q == tx[t]
<1>1. {"pc", "status"} \subseteq DOMAIN q
  BY Fields
<1>2. UNCHANGED synchronization_in_progress /\ UNCHANGED history
  BY DEF TxStart, StartSync, StartWait, StartAgain, clocks, ghosts
<1>3. CASE TxStart(t)
  <2> DEFINE r == [q EXCEPT !.status = "executing", !.pc = "start_sync"]
  <2>1. Become(t, r) /\ q.pc = "start" /\ r.pc = "start_sync" /\ r.status = "executing"
    BY <1>1, <1>3 DEF TxStart, At
  <2> HIDE DEF r
  <2>2. QED BY <1>2, <2>1, Follow, Places
<1>4. CASE StartSync(t)
  <2> DEFINE r1 == [q EXCEPT !.status = "idle", !.pc = "start_wait"]
             r2 == [q EXCEPT !.pc = "start_ts"]
  <2>1. q.pc = "start_sync" /\ q.status = "executing"
    BY <1>4, Places DEF StartSync, At, RestartInv, Shown
  <2>2. \/ synchronization_in_progress /\ Become(t, r1)
        \/ ~ synchronization_in_progress /\ Become(t, r2)
    BY <1>4, Zenon DEF StartSync
  <2>3. r1.pc = "start_wait" /\ r2.pc = "start_ts" /\ r2.status = q.status
    BY <1>1
  <2> HIDE DEF r1, r2
  <2>4. QED BY <1>2, <2>1, <2>2, <2>3, Follow, Places
<1>5. CASE StartWait(t)
  <2> DEFINE r == [q EXCEPT !.pc = "start_again"]
  <2>1. /\ Become(t, r) /\ q.pc = "start_wait" /\ r.pc = "start_again"
        /\ ~ synchronization_in_progress
    BY <1>1, <1>5 DEF StartWait, At, Goto
  <2>2. ~ FirstRestart
    BY <2>1 DEF RestartInv, Shown
  <2> HIDE DEF r
  <2>3. QED BY <1>2, <2>1, <2>2, Follow, Places
<1>6. CASE StartAgain(t)
  <2> DEFINE r == [q EXCEPT !.status = "executing", !.pc = "start_ts"]
  <2>1. Become(t, r) /\ q.pc = "start_again" /\ r.pc = "start_ts" /\ r.status = "executing"
    BY <1>1, <1>6 DEF StartAgain, At
  <2>2. ~ FirstRestart
    BY <2>1 DEF RestartInv, Shown
  <2> HIDE DEF r
  <2>3. QED BY <1>2, <2>1, <2>2, Follow, Places
<1>7. QED BY <1>3, <1>4, <1>5, <1>6

LEMMA OverflowKeeps ==
  ASSUME TypeOK, RestartInv, NEW t \in Thread,
         Overflow(t) \/ OverflowRelease(t) \/ OverflowRollback(t)
  PROVE  RestartInv'
<1> DEFINE q == tx[t]
<1>1. {"pc", "status"} \subseteq DOMAIN q
  BY Fields
<1>2. UNCHANGED synchronization_in_progress /\ UNCHANGED history
  BY DEF Overflow, OverflowRelease, ReleaseReadLocks, OverflowRollback, Rollback, clocks, ghosts
<1>3. CASE Overflow(t)
  <2> DEFINE r == [q EXCEPT !.status = "aborted", !.pc = "overflow_release", !.i = 1]
  <2>1. Become(t, r) /\ q.pc = "overflow" /\ r.pc = "overflow_release"
    BY <1>1, <1>3 DEF Overflow, At
  <2> HIDE DEF r
  <2>2. QED BY <1>2, <2>1, Follow, Places DEF Leading
<1>4. CASE OverflowRelease(t)
  <2>1. q.pc = "overflow_release" /\ Moves(t, {"overflow_release", "overflow_rollback"})
    BY <1>4, ReleaseMoves DEF OverflowRelease
  <2>2. PICK r : Become(t, r) /\ r.pc \in {"overflow_release", "overflow_rollback"}
    BY <2>1 DEF Moves, Goes
  <2>3. QED BY <1>2, <2>1, <2>2, Follow, Places
<1>5. CASE OverflowRollback(t)
  <2>1. q.pc = "overflow_rollback" /\ Moves(t, {"overflow_rollback", "sync"})
    BY <1>5, RollbackMoves DEF OverflowRollback, At
  <2>2. PICK r : Become(t, r) /\ r.pc \in {"overflow_rollback", "sync"}
    BY <2>1 DEF Moves, Goes
  <2>3. QED BY <1>2, <2>1, <2>2, Follow, Places
<1>6. QED BY <1>3, <1>4, <1>5

LEMMA SyncOtherKeeps ==
  ASSUME TypeOK, RestartInv, NEW t \in Thread, SyncOther(t) \/ SyncOtherWait(t)
  PROVE  RestartInv'
<1> DEFINE q == tx[t]
<1>1. {"pc", "status"} \subseteq DOMAIN q
  BY Fields
<1>2. UNCHANGED synchronization_in_progress /\ UNCHANGED history
  BY DEF SyncOther, SyncOtherWait, clocks, ghosts
<1>3. CASE SyncOther(t)
  <2> DEFINE r1 == [q EXCEPT !.status = "idle", !.pc = "sync_other_wait"]
             r2 == [q EXCEPT !.pc = "restart"]
  <2>1. q.pc = "sync_other"
    BY <1>3 DEF SyncOther, At
  <2>2. \/ synchronization_in_progress /\ Become(t, r1)
        \/ ~ synchronization_in_progress /\ Become(t, r2)
    BY <1>3, Zenon DEF SyncOther
  <2>3. r1.pc = "sync_other_wait" /\ r2.pc = "restart"
    BY <1>1
  <2>4. FirstRestart => synchronization_in_progress
    BY <2>1 DEF RestartInv, Shown
  <2> HIDE DEF r1, r2
  <2>5. QED BY <1>2, <2>1, <2>2, <2>3, <2>4, Follow, Places
<1>4. CASE SyncOtherWait(t)
  <2> DEFINE r == [q EXCEPT !.pc = "restart"]
  <2>1. /\ Become(t, r) /\ q.pc = "sync_other_wait" /\ r.pc = "restart"
        /\ ~ synchronization_in_progress
    BY <1>1, <1>4 DEF SyncOtherWait, At, Goto
  <2>2. ~ FirstRestart
    BY <2>1 DEF RestartInv, Shown
  <2> HIDE DEF r
  <2>3. QED BY <1>2, <2>1, <2>2, Follow, Places
<1>5. QED BY <1>3, <1>4

----------------------------------------------------------------------------
(* The thread that restarts the clock *)

\* It goes on leading, and everybody it has passed is at rest.
LEMMA LeadStep ==
  ASSUME RestartInv, NEW t \in Thread, tx'[t].pc \in Leading, synchronization_in_progress',
         \A u \in Thread : u # t => SameStage(u) /\ tx[u].pc \notin Leading,
         Epochs', history'.epoch >= history.epoch,
         tx'[t].pc \in Restarted => history'.epoch >= 1,
         FirstRestart' => FirstRestart,
         FirstRestart => \A u \in Thread : u # t /\ Passed(t, u)' => tx[u].pc \in Quiet
  PROVE  RestartInv'
<1>1. \A u \in Thread : u # t => tx'[u].pc \notin Leading
  BY DEF SameStage
<1>2. OneLeads'
  <2>1. \A u \in Thread : tx'[u].pc \in Restarted => tx'[u].pc \in Leading
    BY DEF Restarted, Leading
  <2>2. QED BY <1>1, <2>1 DEF OneLeads
<1>3. ASSUME NEW u \in Thread PROVE Shown(u)'
  <2>1. CASE u = t
    <3>1. tx'[t].pc \notin Running
      <4>1. \A pc \in Leading : pc \notin Running
        BY DEF Leading, Running
      <4>2. QED BY <4>1
    <3>2. tx'[t].pc \notin {"start_again", "restart", "abort", "start_wait", "sync_other",
                            "sync_other_wait"}
      BY DEF Leading
    <3>3. QED BY <2>1, <3>1, <3>2 DEF Shown
  <2>2. CASE u # t
    BY <2>2 DEF RestartInv, Shown, SameStage
  <2>3. QED BY <2>1, <2>2
<1>4. Stopped'
  <2>1. SUFFICES ASSUME FirstRestart', NEW v \in Thread, NEW u \in Thread,
                        tx'[v].pc \in Leading, Passed(v, u)'
                 PROVE  tx'[u].pc \in Quiet
    BY DEF Stopped
  <2>2. v = t
    BY <1>1, <2>1
  <2>3. CASE u = t
    <3>1. Leading \subseteq Quiet
      BY DEF Leading, Quiet
    <3>2. QED BY <2>3, <3>1
  <2>4. CASE u # t
    BY <2>1, <2>2, <2>4 DEF SameStage
  <2>5. QED BY <2>3, <2>4
<1>5. QED BY <1>2, <1>3, <1>4 DEF RestartInv

\* One that is not seen to execute is at rest, before the first restart ends.
LEMMA Idles ==
  ASSUME TypeOK, RestartInv, FirstRestart, NEW u \in Thread, tx[u].status # "executing"
  PROVE  tx[u].pc \in Quiet
<1>1. /\ tx[u].pc \notin Running
      /\ tx[u].pc \notin {"start_again", "restart", "abort"}
  BY DEF RestartInv, Shown
<1>2. tx[u].pc \in PC
  BY DEF TypeOK, State
<1>3. QED BY <1>1, <1>2 DEF PC, Running, Quiet

\* A step of the thread that restarts the clock while others stay.
LEMMA Leads ==
  ASSUME TypeOK, RestartInv, NEW t \in Thread, tx[t].pc \in Leading, NEW r, Become(t, r)
  PROVE  /\ tx'[t] = r /\ synchronization_in_progress
         /\ \A u \in Thread : u # t => SameStage(u) /\ tx[u].pc \notin Leading
<1>1. tx'[t] = r /\ \A u \in Thread : u # t => SameStage(u)
  BY Staged
<1>2. QED BY <1>1 DEF RestartInv, OneLeads

LEMMA StartSynchronizationKeeps ==
  ASSUME TypeOK, RestartInv, NEW t \in Thread, StartSynchronization(t) PROVE RestartInv'
<1> DEFINE q == tx[t]
           r1 == [q EXCEPT !.pc = "sync_other"]
           r2 == [q EXCEPT !.pc = "sync_wait", !.i = 1]
<1>1. {"pc", "status", "i"} \subseteq DOMAIN q
  BY Fields
<1>2. r1.pc = "sync_other" /\ r2.pc = "sync_wait" /\ r2.i = 1
  BY <1>1
<1>3. q.pc = "sync" /\ UNCHANGED history
  BY DEF StartSynchronization, At, ghosts
<1>4. \/ synchronization_in_progress /\ synchronization_in_progress' = synchronization_in_progress
         /\ Become(t, r1)
      \/ ~ synchronization_in_progress /\ synchronization_in_progress' = TRUE /\ Become(t, r2)
  BY Zenon DEF StartSynchronization, Goto
<1> HIDE DEF r1, r2
<1>5. CASE synchronization_in_progress
  BY <1>2, <1>3, <1>4, <1>5, Follow, Places
<1>6. CASE ~ synchronization_in_progress
  <2>1. tx'[t] = r2 /\ \A u \in Thread : u # t => SameStage(u)
    BY <1>4, <1>6, Staged
  <2>2. \A u \in Thread : tx[u].pc \notin Leading
    BY <1>6 DEF RestartInv, OneLeads
  <2>3. tx'[t].pc \in Leading /\ tx'[t].pc \notin Restarted /\ synchronization_in_progress'
    BY <1>2, <1>4, <1>6, <2>1 DEF Leading, Restarted
  <2>4. Epochs' /\ history'.epoch >= history.epoch
    BY <1>3 DEF RestartInv, Epochs
  <2>5. FirstRestart' => FirstRestart
    <3>1. \A u \in Thread : tx'[u].pc \notin Restarted
      BY <2>1, <2>2, <2>3 DEF SameStage, Restarted, Leading
    <3>2. QED BY <1>3, <3>1 DEF FirstRestart
  <2>6. \A u \in Thread : ~ Passed(t, u)'
    <3>1. ASSUME NEW u \in Thread PROVE ~ (u < 1)
      BY Constants DEF Thread
    <3>2. QED BY <1>2, <2>1, <3>1 DEF Passed
  <2>7. QED BY <2>1, <2>2, <2>3, <2>4, <2>5, <2>6, LeadStep
<1>7. QED BY <1>5, <1>6

LEMMA SyncWaitKeeps ==
  ASSUME LockInv, RestartInv, NEW t \in Thread, SyncWait(t) PROVE RestartInv'
<1> DEFINE q == tx[t]
           r1 == [q EXCEPT !.i = @ + 1]
           r2 == [q EXCEPT !.pc = "restart_ts", !.i = 1]
<1>1. TypeOK /\ {"pc", "status", "i"} \subseteq DOMAIN q
  BY Fields DEF LockInv
<1>2. /\ q.pc = "sync_wait" /\ tx[q.i].status # "executing" /\ UNCHANGED history
      /\ UNCHANGED synchronization_in_progress
  BY DEF SyncWait, At, clocks, ghosts
<1>3. q.i \in Thread
  BY <1>2, ThreadFacts DEF Local, PlacedAs
<1>4. FirstRestart => tx[q.i].pc \in Quiet
  BY <1>1, <1>2, <1>3, Idles
<1>5. /\ r1.pc = "sync_wait" /\ r1.i = q.i + 1
      /\ r2.pc = "restart_ts"
  BY <1>1, <1>2
<1>6. \/ q.i < NThreads /\ Become(t, r1)
      \/ ~ (q.i < NThreads) /\ Become(t, r2)
  BY Zenon DEF SyncWait, Advance
<1>7. q.pc \in Leading
  BY <1>2 DEF Leading
<1> HIDE DEF r1, r2
<1>8. /\ tx'[t].pc \in {"sync_wait", "restart_ts"} /\ synchronization_in_progress
      /\ tx'[t].pc = "sync_wait" => tx'[t].i = q.i + 1
      /\ tx'[t].pc = "restart_ts" => ~ (q.i < NThreads)
      /\ \A u \in Thread : u # t => SameStage(u) /\ tx[u].pc \notin Leading
  BY <1>1, <1>5, <1>6, <1>7, Leads
<1>9. ASSUME NEW u \in Thread, Passed(t, u)' PROVE u = q.i \/ Passed(t, u)
  <2>1. u \in Int /\ q.i \in Int /\ u <= NThreads /\ NThreads \in Int
    BY <1>3, Constants DEF Thread
  <2>2. u < q.i \/ u = q.i
    BY <1>8, <1>9, <2>1 DEF Passed
  <2>3. QED BY <1>2, <2>2 DEF Passed
<1>10. FirstRestart => \A u \in Thread : u # t /\ Passed(t, u)' => tx[u].pc \in Quiet
  BY <1>4, <1>7, <1>9 DEF RestartInv, Stopped
<1>11. tx'[t].pc \in Leading /\ tx'[t].pc \notin Restarted /\ synchronization_in_progress'
  BY <1>2, <1>8 DEF Leading, Restarted
<1>12. Epochs' /\ history'.epoch >= history.epoch
  BY <1>2 DEF RestartInv, Epochs
<1>13. FirstRestart' => FirstRestart
  <2>1. \A u \in Thread : tx'[u].pc \notin Restarted
    BY <1>8, <1>11 DEF SameStage, Restarted, Leading
  <2>2. QED BY <1>2, <2>1 DEF FirstRestart
<1>14. QED BY <1>8, <1>10, <1>11, <1>12, <1>13, LeadStep

LEMMA RestartCommitTsKeeps ==
  ASSUME TypeOK, RestartInv, NEW t \in Thread, RestartCommitTs(t) PROVE RestartInv'
<1> DEFINE q == tx[t]
           r == [q EXCEPT !.pc = "restart_locks"]
<1>1. {"pc", "status", "i"} \subseteq DOMAIN q
  BY Fields
<1>2. /\ q.pc = "restart_ts" /\ Become(t, r) /\ r.pc = "restart_locks"
      /\ history' = [history EXCEPT !.epoch = @ + 1] /\ UNCHANGED synchronization_in_progress
  BY <1>1 DEF RestartCommitTs, At, Goto
<1> HIDE DEF r
<1>3. q.pc \in Leading
  BY <1>2 DEF Leading
<1>4. /\ tx'[t].pc = "restart_locks" /\ synchronization_in_progress
      /\ \A u \in Thread : u # t => SameStage(u) /\ tx[u].pc \notin Leading
  BY <1>2, <1>3, Leads
<1>5. Epochs' /\ history'.epoch = history.epoch + 1 /\ history.epoch \in Nat
  <2>1. /\ history = [epoch |-> history.epoch, commits |-> history.commits]
        /\ history.epoch \in Nat
    BY DEF RestartInv, Epochs
  <2>2. history' = [epoch |-> history.epoch + 1, commits |-> history.commits]
    BY <1>2, <2>1
  <2>3. QED BY <2>1, <2>2 DEF Epochs
<1>6. FirstRestart' => FirstRestart
  BY <1>5 DEF FirstRestart
<1>7. FirstRestart => \A u \in Thread : u # t /\ Passed(t, u)' => tx[u].pc \in Quiet
  BY <1>2, <1>3 DEF RestartInv, Stopped, Passed, Leading
<1>8. tx'[t].pc \in Leading /\ synchronization_in_progress'
  BY <1>2, <1>4 DEF Leading
<1>9. QED BY <1>4, <1>5, <1>6, <1>7, <1>8, LeadStep

LEMMA RestartReadLocksKeeps ==
  ASSUME TypeOK, RestartInv, NEW t \in Thread, RestartReadLocks(t) PROVE RestartInv'
<1> DEFINE q == tx[t]
           r == [q EXCEPT !.pc = "end_sync"]
<1>1. {"pc", "status", "i"} \subseteq DOMAIN q
  BY Fields
<1>2. /\ q.pc = "restart_locks" /\ Become(t, r) /\ r.pc = "end_sync"
      /\ UNCHANGED history /\ UNCHANGED synchronization_in_progress
  BY <1>1 DEF RestartReadLocks, At, Goto, clocks, ghosts
<1> HIDE DEF r
<1>3. q.pc \in Leading /\ q.pc \in Restarted
  BY <1>2 DEF Leading, Restarted
<1>4. /\ tx'[t].pc = "end_sync" /\ synchronization_in_progress
      /\ \A u \in Thread : u # t => SameStage(u) /\ tx[u].pc \notin Leading
  BY <1>2, <1>3, Leads
<1>5. Epochs' /\ history'.epoch = history.epoch /\ history.epoch >= 1 /\ history.epoch \in Nat
  BY <1>2, <1>3 DEF RestartInv, Epochs, OneLeads
<1>6. FirstRestart' => FirstRestart
  BY <1>3, <1>5 DEF FirstRestart
<1>7. FirstRestart => \A u \in Thread : u # t /\ Passed(t, u)' => tx[u].pc \in Quiet
  BY <1>2, <1>3 DEF RestartInv, Stopped, Passed, Leading
<1>8. tx'[t].pc \in Leading /\ synchronization_in_progress'
  BY <1>2, <1>4 DEF Leading
<1>9. QED BY <1>4, <1>5, <1>6, <1>7, <1>8, LeadStep

\* With it the first restart is over.
LEMMA EndSynchronizationKeeps ==
  ASSUME TypeOK, RestartInv, NEW t \in Thread, EndSynchronization(t) PROVE RestartInv'
<1> DEFINE q == tx[t]
           r == [q EXCEPT !.pc = "restart"]
<1>1. {"pc", "status", "i"} \subseteq DOMAIN q
  BY Fields
<1>2. /\ q.pc = "end_sync" /\ Become(t, r) /\ r.pc = "restart"
      /\ UNCHANGED history /\ synchronization_in_progress' = FALSE
  BY <1>1 DEF EndSynchronization, At, Goto, ghosts
<1> HIDE DEF r
<1>3. q.pc \in Leading /\ q.pc \in Restarted
  BY <1>2 DEF Leading, Restarted
<1>4. /\ tx'[t].pc = "restart"
      /\ \A u \in Thread : u # t => SameStage(u) /\ tx[u].pc \notin Leading
  BY <1>2, <1>3, Leads
<1>5. Epochs' /\ history'.epoch >= 1
  BY <1>2, <1>3 DEF RestartInv, Epochs, OneLeads
<1>6. \A u \in Thread : tx'[u].pc \notin Leading /\ tx'[u].pc \notin Restarted
  BY <1>4 DEF SameStage, Leading, Restarted
<1>7. ~ FirstRestart'
  BY <1>5, <1>6 DEF FirstRestart, RestartInv, Epochs
<1>8. OneLeads'
  BY <1>2, <1>6 DEF OneLeads
<1>9. ASSUME NEW u \in Thread PROVE Shown(u)'
  <2>1. u = t => tx'[u].pc \notin Running
    BY <1>4, Places
  <2>2. u # t => (tx'[u].pc \in Running => tx'[u].status = "executing")
    BY <1>4 DEF RestartInv, Shown, SameStage
  <2>3. QED BY <1>7, <2>1, <2>2 DEF Shown
<1>10. Stopped'
  BY <1>7 DEF Stopped
<1>11. QED BY <1>5, <1>8, <1>9, <1>10 DEF RestartInv

----------------------------------------------------------------------------
(* The theorems *)

LEMMA RestartInit == Init => RestartInv
<1> SUFFICES ASSUME Init PROVE RestartInv
  OBVIOUS
<1>1. Epochs
  BY DEF Init, Epochs
<1>2. \A t \in Thread : tx[t].pc = "start"
  BY DEF Init, Idle
<1>3. OneLeads
  BY <1>2 DEF Init, OneLeads, Leading, Restarted
<1>4. Stopped
  BY <1>2 DEF Stopped, Leading
<1>5. \A t \in Thread : Shown(t)
  BY <1>2, Places DEF Shown
<1>6. QED BY <1>1, <1>3, <1>4, <1>5 DEF RestartInv

LEMMA RestartNext == LockInv /\ RestartInv /\ [Next]_vars => RestartInv'
<1> SUFFICES ASSUME LockInv, RestartInv, [Next]_vars PROVE RestartInv'
  OBVIOUS
<1>1. CASE UNCHANGED vars
  BY <1>1 DEF vars, RestartInv, Epochs, OneLeads, Stopped, Shown, FirstRestart, Passed
<1>2. ASSUME NEW t \in Thread, Step(t) PROVE RestartInv'
  <2>0. TypeOK
    BY DEF LockInv
  <2>1. CASE Starts(t)
    BY <2>0, <2>1, StartKeeps, StartsWork DEF Starts
  <2>2. CASE Skip(t)
    BY <2>0, <2>2, StartsWork
  <2>3. CASE Reads(t)
    BY <2>0, <2>3, ReadsWork
  <2>4. CASE Writes(t)
    BY <2>4, WritesWork
  <2>5. CASE Ends(t)
    BY <2>0, <2>5, CommitWorks, UndoWorks, EndKeeps DEF Ends
  <2>6. CASE Restarts(t)
    BY <2>0, <2>6, OverflowKeeps, StartSynchronizationKeeps, SyncWaitKeeps, RestartCommitTsKeeps,
       RestartReadLocksKeeps, EndSynchronizationKeeps, SyncOtherKeeps DEF Restarts
  <2>7. QED BY <1>2, <2>1, <2>2, <2>3, <2>4, <2>5, <2>6 DEF Step
<1>3. QED BY <1>1, <1>2 DEF Next

\* At most one thread restarts the clock, a thread that uses its timestamps is
\* seen to execute, and who was found at rest stays so until the first restart
\* has ended.
THEOREM RestartInvariant == Spec => []RestartInv
<1>1. LockInv /\ RestartInv /\ [Next]_vars => RestartInv'
  BY RestartNext
<1>2. QED BY <1>1, RestartInit, LockInvariant, PTL DEF Spec

\* QuietRestart, of the first restart of the clock: when commit_ts and the read
\* locks are set back, no transaction reads, writes or commits.
THEOREM FirstRestartIsQuiet == Spec => [](FirstRestart => QuietRestart)
<1>1. RestartInv => (FirstRestart => QuietRestart)
  <2> SUFFICES ASSUME RestartInv, FirstRestart, NEW t \in Thread, NEW u \in Thread,
                      tx[t].pc \in {"restart_ts", "restart_locks"}
               PROVE  tx[u].pc \notin AccessPc \cup CommitPc \cup {"run"}
    BY DEF QuietRestart
  <2>1. tx[u].pc \in Quiet
    BY DEF RestartInv, Stopped, Passed, Leading
  <2>2. QED BY <2>1 DEF Quiet
<1>2. QED BY <1>1, RestartInvariant, PTL

----------------------------------------------------------------------------
(* Versions *)

\* The version of a stripe: of its read lock, or while that is set, the one its
\* owner is going to publish or to put back.
EntryVersion(r, n) == IF r.pc \in Publishing THEN r.ts ELSE r.write_log[n].old_version
Version == [s \in Stripe |->
  IF read_lock[s] # 0 THEN read_lock[s]
  ELSE EntryVersion(tx[write_lock[s][1]], write_lock[s][2])]

\* A committing transaction that has its timestamp and is not valid yet.
Pending(t) == tx[t].pc = "validate"
StripesOf(t) == {tx[t].write_log[n].stripe : n \in 1 .. Len(tx[t].write_log)}
Wrote(c, s) == \E a \in Addr : c.words[a] # NULL /\ StripeOf[a] = s

\* The entries of a valid transaction whose words are not in memory yet.
UnwrittenIn(r) == {n \in 1 .. Len(r.write_log) : \/ r.pc \in Publishing /\ n > r.i
                                                 \/ r.pc = "write_back" /\ n = r.i}
Unwritten(t, a) == \E n \in UnwrittenIn(tx[t]) : tx[t].write_log[n].words[a] # NULL
Settled == {s \in Stripe :
  \A t \in Thread : \A n \in UnwrittenIn(tx[t]) : tx[t].write_log[n].stripe # s}

\* What a is after the commits up to v.
CommitsTo(commits, v) == {c \in commits : c.ts <= v}
ValueAt(commits, a, v) == ValueIn(a, CommitsTo(commits, v))

\* No other thread is about to commit to s at T or before.
Closed(s, T, t) == \A u \in Thread \ {t} : Pending(u) /\ s \in StripesOf(u) => tx[u].ts > T

\* The version v of stripe s is the one to read at T, now and later: nothing was
\* committed to s in between, and nothing will be.
Clean(s, v, T, t) ==
  /\ v <= T /\ Closed(s, T, t)
  /\ \A c \in history.commits : Wrote(c, s) => c.ts <= v \/ c.ts > T

\* What was read of a word is its value at T, now and later.
There(x, T, t) == Closed(StripeOf[x.addr], T, t) /\ x.value = ValueAt(history.commits, x.addr, T)

----------------------------------------------------------------------------
(* What the shared state says in the first epoch of the clock *)

\* A read lock that is held is set, and the clock is not being restarted.
ReadLocksSet ==
  /\ \A t \in Thread : \A n \in ReadLockedIn(tx[t]) : read_lock[tx[t].write_log[n].stripe] = 0
  /\ \A t \in Thread : tx[t].pc \notin {"restart_locks", "end_sync"}

\* An owner knows the version of what it holds.
HeldVersions(t) ==
  /\ \A n \in HeldIn(tx[t]) :
       IF tx[t].pc \in Publishing THEN Version[tx[t].write_log[n].stripe] = tx[t].ts
       ELSE tx[t].write_log[n].old_version >= 1 =>
              Version[tx[t].write_log[n].stripe] = tx[t].write_log[n].old_version
  /\ tx[t].pc \in {"validate"} \cup Publishing => tx[t].ts <= commit_ts

Versions ==
  /\ \A s \in Stripe : Version[s] \in Nat /\ Version[s] <= commit_ts
  /\ \A c \in history.commits, s \in Stripe : Wrote(c, s) => c.ts <= Version[s]

\* No two transactions have one timestamp.
Timestamps ==
  /\ \A c \in history.commits : c.epoch = 0 /\ c.ts <= commit_ts
  /\ \A c, d \in history.commits : c.ts = d.ts => c = d
  /\ \A t \in Thread, c \in history.commits : Pending(t) => c.ts # tx[t].ts
  /\ \A t, u \in Thread : Pending(t) /\ Pending(u) /\ t # u => tx[t].ts # tx[u].ts

\* Memory is what the commits wrote, but for the words still to be written back.
Memory ==
  /\ \A t \in Thread : \A n \in UnwrittenIn(tx[t]), a \in Addr :
       tx[t].write_log[n].words[a] # NULL =>
         ValueIn(a, history.commits) = tx[t].write_log[n].words[a]
  /\ \A a \in Addr : (\A t \in Thread : ~ Unwritten(t, a)) =>
       memory[a] = ValueIn(a, history.commits)

\* What a committed transaction has read was there just before it.
Serial == \A d \in history.commits : \A x \in d.seen : There(x, d.ts - 1, 0)

----------------------------------------------------------------------------
(* What a thread knows in the first epoch *)

Snapped == AccessPc \cup LockedPc \cup {"run", "lock_reads"}

\* The versions a transaction relies on: those it has logged, but for a read
\* that waits for the snapshot to be extended, and those of what it has locked.
ReadingNow(t, r) == r.pc \in ExtendPc /\ OpOf(t, r).kind = "read"
ReadClaim(t, r, s, v) == \E n \in 1 .. Len(r.read_log) :
  /\ r.read_log[n].stripe = s /\ r.read_log[n].version = v
  /\ ReadingNow(t, r) => n < Len(r.read_log)
LockClaim(r, s, v) == \E n \in 1 .. Len(r.write_log) :
  r.write_log[n].stripe = s /\ r.write_log[n].old_version = v /\ v >= 1
Claim(t, r, s, v) == ReadClaim(t, r, s, v) \/ LockClaim(r, s, v)

\* All it relies on and all it has read were there together at T.
SnapAt(t, T) ==
  /\ T <= commit_ts
  /\ \A x \in seen[t] : There(x, T, t)
  /\ tx[t].pc \in Snapped =>
       /\ tx[t].valid_ts <= T
       /\ \A x \in seen[t] : \E v \in Nat : Claim(t, tx[t], StripeOf[x.addr], v)
       /\ \A s \in Stripe, v \in Nat : Claim(t, tx[t], s, v) => Clean(s, v, T, t)
  /\ Pending(t) => T < tx[t].ts
  /\ tx[t].pc \in {"extend", "extended"} => T <= tx[t].ts
Snapshot(t) == \E T \in Nat : SnapAt(t, T)

\* A read in progress: if the version is still that of the stripe, the value is
\* the committed one.
Reading(t) ==
  tx[t].pc \in {"read_value", "read_check"} =>
    /\ tx[t].version <= Version[StripeOfOp(t)]
    /\ tx[t].version = Version[StripeOfOp(t)] =>
         /\ tx[t].pc = "read_value" => StripeOfOp(t) \in Settled
         /\ tx[t].pc = "read_check" => tx[t].value = ValueIn(Op(t).addr, history.commits)

\* An extension in progress: the entries validated so far hold at the new time,
\* and so does the access that waits for it.
Extending(t) ==
  tx[t].pc \in ExtendPc =>
    /\ tx[t].version <= Version[StripeOfOp(t)]
    /\ IF Op(t).kind = "read"
       THEN LET e == tx[t].read_log[Len(tx[t].read_log)]
            IN /\ e.stripe = StripeOfOp(t) /\ e.version = tx[t].version
               /\ tx[t].value = ValueAt(history.commits, Op(t).addr, tx[t].version)
       ELSE tx[t].version = Version[StripeOfOp(t)]
    /\ tx[t].pc # "extend_ts" =>
         /\ tx[t].version <= tx[t].ts /\ tx[t].ts <= commit_ts
         /\ \A n \in 1 .. Len(tx[t].read_log) : tx[t].pc = "extended" \/ n < tx[t].i =>
              Clean(tx[t].read_log[n].stripe, tx[t].read_log[n].version, tx[t].ts, t)

\* The validation at commit: the entries validated so far hold until just
\* before the timestamp of the commit.
Validating(t) ==
  tx[t].pc = "validate" => \A n \in 1 .. Len(tx[t].read_log) : n < tx[t].i =>
    Clean(tx[t].read_log[n].stripe, tx[t].read_log[n].version, tx[t].ts - 1, t)

\* Nothing has been read before the start and after a rollback.
Unread(t) ==
  \/ tx[t].pc \in StartPc \cup SyncPc
  \/ tx[t].pc \in {"restart", "abort"} /\ tx[t].rolled_back
  => seen[t] = {}

ReadVersions(t) == \A n \in 1 .. Len(tx[t].read_log) : tx[t].read_log[n].version >= 1

Knows(t) == /\ HeldVersions(t) /\ Snapshot(t) /\ Reading(t) /\ Extending(t)
            /\ Validating(t) /\ Unread(t) /\ ReadVersions(t)

EpochInv == /\ ReadLocksSet /\ Versions /\ Timestamps /\ Memory /\ Serial
            /\ \A t \in Thread : Knows(t)

Read == [addr : Addr, value : Nat]
Commit == [epoch : Nat, ts : Nat, words : [Addr -> Nat \cup {NULL}], seen : SUBSET Read]
HistoryTyped == /\ history \in [epoch : Nat, commits : SUBSET Commit]
                /\ seen \in [Thread -> SUBSET Read]

SerialInv == LockInv /\ HistoryTyped /\ (history.epoch = 0 => EpochInv)

----------------------------------------------------------------------------
(* What a step of thread t does to the other threads and the versions *)

\* The same as far as locks, reads and commits go.
Continues(q, r) ==
  /\ r.read_log = q.read_log /\ r.write_log = q.write_log /\ r.valid_ts = q.valid_ts
  /\ r.ip = q.ip /\ r.done = q.done
Untouched(q, r) ==
  /\ Continues(q, r) /\ r.pc = q.pc /\ r.rolled_back = q.rolled_back
  /\ r.ts = q.ts /\ r.i = q.i /\ r.version = q.version /\ r.value = q.value
Only(t) == \A u \in Thread \ {t} : Untouched(tx[u], tx'[u]) /\ seen'[u] = seen[u]

\* What t has read-locked keeps its version, and a read lock that t changes is
\* set, or gets the version the stripe has anyway.
VersionsFit(t) ==
  /\ \A n \in ReadLockedIn(tx[t]) :
       /\ n \in HeldIn(tx'[t]) /\ tx'[t].write_log[n].stripe = tx[t].write_log[n].stripe
       /\ EntryVersion(tx'[t], n) = EntryVersion(tx[t], n)
  /\ \A s \in Stripe : \/ read_lock'[s] = read_lock[s]
                       \/ \E n \in HeldIn(tx'[t]) :
                            /\ tx'[t].write_log[n].stripe = s
                            /\ Version[s] = EntryVersion(tx'[t], n)
                            /\ read_lock'[s] \in {0, EntryVersion(tx'[t], n)}

\* t publishes the commits that are new, and versions only for what it holds.
Publishes(t, c) ==
  /\ c.ts = commit_ts + 1 \/ (Pending(t) /\ c.ts = tx[t].ts)
  /\ \A s \in Stripe : Wrote(c, s) =>
       s \in StripesOf(t) /\ Version[s] < c.ts /\ Version'[s] = c.ts
Effects(t) ==
  /\ Only(t) /\ commit_ts' \in Nat /\ commit_ts' >= commit_ts
  /\ \A s \in Stripe :
       \/ Version'[s] = Version[s] /\ (s \in Settled => s \in Settled')
       \/ Version'[s] \in Nat /\ Version'[s] > Version[s] /\ \E n \in Nat \ {0} : write_lock[s] = <<t, n>>
  /\ history.commits \subseteq history'.commits
  /\ \A c \in history'.commits \ history.commits : c.ts \in Nat /\ Publishes(t, c)
  /\ Pending(t)' => /\ tx'[t].write_log = tx[t].write_log
                    /\ tx'[t].ts = commit_ts + 1 \/ (Pending(t) /\ tx'[t].ts = tx[t].ts)

----------------------------------------------------------------------------
(* Who owns a stripe *)

Owners == \A t \in Thread : \A n \in HeldIn(tx[t]) :
  /\ n \in Nat \ {0} /\ n \in 1 .. Len(tx[t].write_log)
  /\ tx[t].write_log[n].stripe \in Stripe
  /\ write_lock[tx[t].write_log[n].stripe] = <<t, n>>

LEMMA Owned == LockInv => Owners
  BY ReadLockedHeld, EntryTyped DEF LockInv, WriteLocks, TypeOK, Owners

LEMMA OneOwner ==
  ASSUME LockInv, NEW t \in Thread, NEW n \in HeldIn(tx[t]),
         NEW u \in Thread, NEW m \in HeldIn(tx[u]),
         tx[t].write_log[n].stripe = tx[u].write_log[m].stripe
  PROVE  u = t /\ m = n
<1>1. <<t, n>> = <<u, m>>
  BY Owned DEF Owners
<1>2. QED BY <1>1

\* A set read lock is that of an entry of the owner, which has its version.
LEMMA ReadOwner ==
  ASSUME LockInv, NEW s \in Stripe, read_lock[s] = 0
  PROVE  \E t \in Thread : \E n \in ReadLockedIn(tx[t]) :
           /\ n \in HeldIn(tx[t]) /\ tx[t].write_log[n].stripe = s
           /\ Version[s] = EntryVersion(tx[t], n)
<1>1. PICK t \in Thread : \E n \in ReadLockedIn(tx[t]) : tx[t].write_log[n].stripe = s
  BY DEF LockInv, ReadLocks
<1>2. PICK n \in ReadLockedIn(tx[t]) : tx[t].write_log[n].stripe = s
  BY <1>1
<1>3. n \in HeldIn(tx[t])
  BY <1>2, ReadLockedHeld DEF LockInv, TypeOK
<1>4. write_lock[s] = <<t, n>>
  BY <1>2, <1>3, Owned DEF Owners
<1>5. Version[s] = EntryVersion(tx[t], n)
  BY <1>4 DEF Version
<1>6. QED BY <1>2, <1>3, <1>5

LEMMA UntouchedSame ==
  ASSUME NEW q, NEW r, Untouched(q, r)
  PROVE  /\ HeldIn(r) = HeldIn(q) /\ ReadLockedIn(r) = ReadLockedIn(q)
         /\ UnwrittenIn(r) = UnwrittenIn(q)
         /\ \A n : EntryVersion(r, n) = EntryVersion(q, n)
  BY DEF Untouched, Continues, HeldIn, FirstOf, ReadLockedIn, UnwrittenIn, EntryVersion

\* Only entries that are read-locked are not written back.
LEMMA UnwrittenLocked ==
  ASSUME NEW r \in State
  PROVE  UnwrittenIn(r) \subseteq ReadLockedIn(r)
  BY SMT DEF State, UnwrittenIn, ReadLockedIn

\* The versions after a step that fits them.
LEMMA VersionStep ==
  ASSUME LockInv, LockInv', NEW t \in Thread, Only(t), VersionsFit(t), NEW s \in Stripe
  PROVE  Version'[s] = Version[s]
<1>1. ASSUME NEW u \in Thread, NEW n \in HeldIn(tx'[u]), tx'[u].write_log[n].stripe = s
      PROVE  Version'[s] = IF read_lock'[s] # 0 THEN read_lock'[s] ELSE EntryVersion(tx'[u], n)
  <2>1. Owners'
    BY Owned, PTL
  <2>2. write_lock'[s] = <<u, n>>
    BY <1>1, <2>1 DEF Owners
  <2>3. QED BY <2>2 DEF Version
<1>2. CASE read_lock'[s] = read_lock[s] /\ read_lock[s] # 0
  BY <1>2 DEF Version
<1>3. CASE read_lock'[s] = read_lock[s] /\ read_lock[s] = 0
  <2>1. PICK u \in Thread : \E n \in ReadLockedIn(tx[u]) :
           /\ n \in HeldIn(tx[u]) /\ tx[u].write_log[n].stripe = s
           /\ Version[s] = EntryVersion(tx[u], n)
    BY <1>3, ReadOwner
  <2>2. PICK n \in ReadLockedIn(tx[u]) :
           /\ n \in HeldIn(tx[u]) /\ tx[u].write_log[n].stripe = s
           /\ Version[s] = EntryVersion(tx[u], n)
    BY <2>1
  <2>3. CASE u = t
    BY <1>1, <1>3, <2>2, <2>3 DEF VersionsFit
  <2>4. CASE u # t
    <3>1. Untouched(tx[u], tx'[u])
      BY <2>4 DEF Only
    <3>2. /\ n \in HeldIn(tx'[u]) /\ tx'[u].write_log[n].stripe = s
          /\ EntryVersion(tx'[u], n) = Version[s]
      BY <2>2, <3>1, UntouchedSame DEF Untouched, Continues
    <3>3. QED BY <1>1, <1>3, <3>2
  <2>5. QED BY <2>3, <2>4
<1>4. CASE read_lock'[s] # read_lock[s]
  <2>1. PICK n \in HeldIn(tx'[t]) :
          /\ tx'[t].write_log[n].stripe = s /\ Version[s] = EntryVersion(tx'[t], n)
          /\ read_lock'[s] \in {0, EntryVersion(tx'[t], n)}
    BY <1>4 DEF VersionsFit
  <2>2. QED BY <1>1, <2>1
<1>5. QED BY <1>2, <1>3, <1>4

\* A stripe whose read lock is not set: nobody is going to commit to it, or has
\* words for it that are not in memory.
LEMMA NotLocked ==
  ASSUME LockInv, ReadLocksSet, NEW s \in Stripe, read_lock[s] # 0
  PROVE  /\ Version[s] = read_lock[s] /\ s \in Settled
         /\ \A u \in Thread : Pending(u) => s \notin StripesOf(u)
<1>1. Version[s] = read_lock[s]
  BY DEF Version
<1>2. ASSUME NEW u \in Thread, NEW n \in ReadLockedIn(tx[u]) PROVE tx[u].write_log[n].stripe # s
  BY <1>2 DEF ReadLocksSet
<1>3. s \in Settled
  <2>1. \A u \in Thread : UnwrittenIn(tx[u]) \subseteq ReadLockedIn(tx[u])
    BY UnwrittenLocked DEF LockInv, TypeOK
  <2>2. QED BY <1>2, <2>1 DEF Settled
<1>4. ASSUME NEW u \in Thread, Pending(u) PROVE s \notin StripesOf(u)
  <2>1. \A n \in 1 .. Len(tx[u].write_log) : n \in ReadLockedIn(tx[u])
    BY <1>4 DEF Pending, ReadLockedIn
  <2>2. QED BY <1>2, <2>1 DEF StripesOf
<1>5. QED BY <1>1, <1>3, <1>4

\* A stripe that t holds: no other thread is going to commit to it.
LEMMA OwnClosed ==
  ASSUME LockInv, NEW t \in Thread, NEW n \in HeldIn(tx[t]), NEW T
  PROVE  Closed(tx[t].write_log[n].stripe, T, t)
<1> DEFINE s == tx[t].write_log[n].stripe
<1>1. SUFFICES ASSUME NEW u \in Thread \ {t}, Pending(u), s \in StripesOf(u) PROVE FALSE
  BY DEF Closed
<1>2. PICK m \in 1 .. Len(tx[u].write_log) : tx[u].write_log[m].stripe = s
  BY <1>1 DEF StripesOf
<1>3. m \in HeldIn(tx[u])
  BY <1>1 DEF Pending, HeldIn, FirstOf
<1>4. QED BY <1>2, <1>3, OneOwner

----------------------------------------------------------------------------
(* What was clean stays clean *)

LEMMA ValueSame ==
  ASSUME NEW a, NEW C, NEW D,
         {c \in C : c.words[a] # NULL} = {c \in D : c.words[a] # NULL}
  PROVE  ValueIn(a, C) = ValueIn(a, D)
<1> DEFINE Writers(X) == {c \in X : c.words[a] # NULL}
           Last(W) == IF W = {} THEN 0
                      ELSE (CHOOSE c \in W : \A d \in W : NotAfter(d, c)).words[a]
<1>1. ValueIn(a, C) = Last(Writers(C)) /\ ValueIn(a, D) = Last(Writers(D))
  BY DEF ValueIn
<1>2. Writers(C) = Writers(D)
  OBVIOUS
<1> HIDE DEF Writers, Last
<1>3. QED BY <1>1, <1>2

\* Between a version and a later time at which it is clean, nothing changes.
LEMMA CleanValue ==
  ASSUME HistoryTyped, NEW a \in Addr, NEW v \in Int, NEW T \in Int, NEW t,
         Clean(StripeOf[a], v, T, t)
  PROVE  ValueAt(history.commits, a, T) = ValueAt(history.commits, a, v)
<1>1. \A c \in history.commits : c.ts \in Nat
  BY DEF HistoryTyped, Commit
<1>2. \A c \in history.commits : c.words[a] # NULL => (c.ts <= T <=> c.ts <= v)
  BY <1>1 DEF Clean, Wrote
<1>3. {c \in CommitsTo(history.commits, T) : c.words[a] # NULL} = {c \in CommitsTo(history.commits, v) : c.words[a] # NULL}
  BY <1>2 DEF CommitsTo
<1>4. QED BY <1>3, ValueSame, Zenon DEF ValueAt

\* What a time relies on: it has come, and t itself does not commit before.
Past(t, u, T) == T \in Int /\ T <= commit_ts /\ (u = t /\ Pending(t) => T < tx[t].ts)

\* No new commit to s at T or before.
LEMMA NoNewCommit ==
  ASSUME LockInv, NEW t \in Thread, Effects(t), NEW s \in Stripe, NEW u, NEW T, Past(t, u, T),
         Closed(s, T, u), NEW c \in history'.commits \ history.commits, Wrote(c, s)
  PROVE  c.ts > T
<1>1. c.ts \in Nat /\ Publishes(t, c) /\ commit_ts \in Nat /\ tx[t].ts \in Nat
  BY DEF Effects, LockInv, TypeOK, State
<1>2. CASE c.ts = commit_ts + 1
  BY <1>1, <1>2 DEF Past
<1>3. CASE Pending(t) /\ c.ts = tx[t].ts
  BY <1>1, <1>3 DEF Publishes, Past, Closed
<1>4. QED BY <1>1, <1>2, <1>3 DEF Publishes

LEMMA ClosedStable ==
  ASSUME LockInv, NEW t \in Thread, Effects(t), NEW s \in Stripe, NEW u, NEW T, Past(t, u, T),
         Closed(s, T, u)
  PROVE  Closed(s, T, u)'
<1>1. SUFFICES ASSUME NEW w \in Thread \ {u}, Pending(w)', s \in StripesOf(w)' PROVE tx'[w].ts > T
  BY DEF Closed
<1>2. CASE w # t
  <2>1. Untouched(tx[w], tx'[w])
    BY <1>2 DEF Effects, Only
  <2>2. Pending(w) /\ s \in StripesOf(w) /\ tx'[w].ts = tx[w].ts
    BY <1>1, <2>1 DEF Untouched, Continues, Pending, StripesOf
  <2>3. QED BY <2>2 DEF Closed
<1>3. CASE w = t
  <2>1. tx'[t].write_log = tx[t].write_log
    BY <1>1, <1>3 DEF Effects
  <2>2. s \in StripesOf(t)
    BY <1>1, <1>3, <2>1 DEF StripesOf
  <2>3. CASE tx'[t].ts = commit_ts + 1
    <3>1. commit_ts \in Nat
      BY DEF LockInv, TypeOK
    <3>2. QED BY <1>3, <2>3, <3>1 DEF Past
  <2>4. CASE Pending(t) /\ tx'[t].ts = tx[t].ts
    BY <1>1, <1>3, <2>2, <2>4 DEF Closed
  <2>5. QED BY <1>1, <1>3, <2>3, <2>4 DEF Effects
<1>4. QED BY <1>2, <1>3

LEMMA CleanStable ==
  ASSUME LockInv, NEW t \in Thread, Effects(t), NEW s \in Stripe, NEW v, NEW u, NEW T,
         Past(t, u, T), Clean(s, v, T, u)
  PROVE  Clean(s, v, T, u)'
<1>1. Closed(s, T, u)'
  BY ClosedStable DEF Clean
<1>2. ASSUME NEW c \in history'.commits, Wrote(c, s)
      PROVE  c.ts <= v \/ c.ts > T
  BY <1>2, NoNewCommit DEF Clean
<1>3. QED BY <1>1, <1>2 DEF Clean

\* A value that was read at T stays the one to read there.
LEMMA ThereStable ==
  ASSUME LockInv, NEW t \in Thread, Effects(t), NEW x \in Read, NEW u, NEW T,
         Past(t, u, T), There(x, T, u)
  PROVE  There(x, T, u)'
<1> DEFINE s == StripeOf[x.addr]
<1>1. x.addr \in Addr /\ s \in Stripe
  BY Constants DEF Read
<1>2. Closed(s, T, u) /\ Closed(s, T, u)'
  BY <1>1, ClosedStable DEF There
<1>3. ASSUME NEW c \in history'.commits \ history.commits, c.words[x.addr] # NULL
      PROVE  ~ (c.ts <= T)
  <2>1. Wrote(c, s)
    BY <1>1, <1>3 DEF Wrote
  <2>2. c.ts > T /\ c.ts \in Nat
    BY <1>1, <1>2, <2>1, NoNewCommit DEF Effects
  <2>3. QED BY <2>2 DEF Past
<1>4. {c \in CommitsTo(history'.commits, T) : c.words[x.addr] # NULL} = {c \in CommitsTo(history.commits, T) : c.words[x.addr] # NULL}
  BY <1>3 DEF CommitsTo, Effects
<1>5. ValueIn(x.addr, CommitsTo(history'.commits, T)) = ValueIn(x.addr, CommitsTo(history.commits, T))
  BY <1>4, ValueSame, Zenon
<1>6. QED BY <1>2, <1>5 DEF There, ValueAt

----------------------------------------------------------------------------
(* What the other threads know stays true *)

LEMMA QuietValue ==
  ASSUME LockInv, NEW t \in Thread, Effects(t), NEW a \in Addr, Versions,
         Version'[StripeOf[a]] = Version[StripeOf[a]]
  PROVE  ValueIn(a, history'.commits) = ValueIn(a, history.commits)
<1>1. ASSUME NEW c \in history'.commits \ history.commits, c.words[a] # NULL PROVE FALSE
  <2>1. Wrote(c, StripeOf[a]) /\ StripeOf[a] \in Stripe
    BY <1>1, Constants DEF Wrote
  <2>2. c.ts \in Nat /\ Publishes(t, c)
    BY DEF Effects
  <2>3. Version[StripeOf[a]] < c.ts /\ Version'[StripeOf[a]] = c.ts /\ Version[StripeOf[a]] \in Nat
    BY <2>1, <2>2 DEF Publishes, Versions
  <2>4. QED BY <2>2, <2>3
<1>2. {c \in history'.commits : c.words[a] # NULL} = {c \in history.commits : c.words[a] # NULL}
  BY <1>1 DEF Effects
<1>3. QED BY <1>2, ValueSame, Zenon

LEMMA OldValue ==
  ASSUME LockInv, NEW t \in Thread, Effects(t), NEW a \in Addr, Versions,
         NEW v \in Int, v <= Version[StripeOf[a]]
  PROVE  ValueAt(history'.commits, a, v) = ValueAt(history.commits, a, v)
<1>1. ASSUME NEW c \in history'.commits \ history.commits, c.words[a] # NULL PROVE ~ (c.ts <= v)
  <2>1. Wrote(c, StripeOf[a]) /\ StripeOf[a] \in Stripe
    BY <1>1, Constants DEF Wrote
  <2>2. c.ts \in Nat /\ Publishes(t, c)
    BY DEF Effects
  <2>3. Version[StripeOf[a]] < c.ts /\ Version[StripeOf[a]] \in Nat
    BY <2>1, <2>2 DEF Publishes, Versions
  <2>4. QED BY <2>2, <2>3
<1>2. {c \in CommitsTo(history'.commits, v) : c.words[a] # NULL} = {c \in CommitsTo(history.commits, v) : c.words[a] # NULL}
  BY <1>1 DEF CommitsTo, Effects
<1>3. ValueIn(a, CommitsTo(history'.commits, v)) = ValueIn(a, CommitsTo(history.commits, v))
  BY <1>2, ValueSame, Zenon
<1>4. QED BY <1>3 DEF ValueAt

LEMMA ClaimSame ==
  ASSUME NEW t, NEW q, NEW r, NEW s, NEW v, r.read_log = q.read_log, r.write_log = q.write_log,
         ReadingNow(t, r) = ReadingNow(t, q)
  PROVE  Claim(t, r, s, v) <=> Claim(t, q, s, v)
  BY DEF Claim, ReadClaim, LockClaim

\* The snapshot of a thread that the step does not disturb.
LEMMA SnapStable ==
  ASSUME LockInv, HistoryTyped, NEW t \in Thread, Effects(t), NEW u \in Thread, NEW T \in Nat,
         SnapAt(u, T)
  PROVE  /\ Past(t, u, T) /\ T <= commit_ts'
         /\ \A x \in seen[u] : There(x, T, u)'
         /\ tx[u].pc \in Snapped =>
              \A s \in Stripe, v \in Nat : Claim(u, tx[u], s, v) => Clean(s, v, T, u)'
<1>1. Past(t, u, T)
  BY DEF SnapAt, Past
<1>2. T <= commit_ts'
  BY DEF SnapAt, Effects, LockInv, TypeOK
<1>3. ASSUME NEW x \in seen[u] PROVE There(x, T, u)'
  <2>1. x \in Read
    BY DEF HistoryTyped
  <2>2. QED BY <1>1, <2>1, ThereStable DEF SnapAt
<1>4. ASSUME tx[u].pc \in Snapped, NEW s \in Stripe, NEW v \in Nat, Claim(u, tx[u], s, v)
      PROVE  Clean(s, v, T, u)'
  BY <1>1, <1>4, CleanStable DEF SnapAt
<1>5. QED BY <1>1, <1>2, <1>3, <1>4, Zenon

\* Entries of a log that are clean.
LEMMA EntriesStable ==
  ASSUME LockInv, NEW t \in Thread, Effects(t), NEW log, NEW K, NEW u, NEW T, Past(t, u, T),
         \A n \in K : log[n].stripe \in Stripe /\ Clean(log[n].stripe, log[n].version, T, u)
  PROVE  \A n \in K : Clean(log[n].stripe, log[n].version, T, u)'
  BY CleanStable

LEMMA OthersKnow ==
  ASSUME LockInv, LockInv', HistoryTyped, Versions, NEW t \in Thread, Effects(t),
         NEW u \in Thread \ {t}, Knows(u)
  PROVE  Knows(u)'
<1>1. Untouched(tx[u], tx'[u]) /\ seen'[u] = seen[u]
  BY DEF Effects, Only
<1>2. /\ tx'[u].pc = tx[u].pc /\ tx'[u].read_log = tx[u].read_log
      /\ tx'[u].write_log = tx[u].write_log /\ tx'[u].ts = tx[u].ts /\ tx'[u].i = tx[u].i
      /\ tx'[u].version = tx[u].version /\ tx'[u].value = tx[u].value
      /\ tx'[u].valid_ts = tx[u].valid_ts /\ tx'[u].rolled_back = tx[u].rolled_back
      /\ HeldIn(tx'[u]) = HeldIn(tx[u])
      /\ Op(u)' = Op(u) /\ StripeOfOp(u)' = StripeOfOp(u)
      /\ OpOf(u, tx'[u]) = OpOf(u, tx[u])
  BY <1>1, UntouchedSame DEF Untouched, Continues, Op, Ops, StripeOfOp, OpOf, OpsOf
<1>3. commit_ts \in Nat /\ commit_ts' \in Nat /\ commit_ts <= commit_ts' /\ tx[u] \in State
      /\ tx[u].ts \in Nat /\ tx[u].version \in Nat /\ tx[u].i \in Nat
  BY DEF Effects, LockInv, TypeOK, State
<1>4. ASSUME NEW s \in Stripe
      PROVE  /\ Version[s] \in Nat /\ Version'[s] \in Nat /\ Version[s] <= Version'[s]
             /\ Version'[s] = Version[s] => (s \in Settled => s \in Settled')
  BY DEF Versions, Effects
<1>5. HeldVersions(u)'
  <2>1. ASSUME NEW n \in HeldIn(tx[u])
        PROVE  Version'[tx[u].write_log[n].stripe] = Version[tx[u].write_log[n].stripe]
    <3>1. /\ tx[u].write_log[n].stripe \in Stripe /\ n \in Nat \ {0}
          /\ write_lock[tx[u].write_log[n].stripe] = <<u, n>>
      BY Owned DEF Owners
    <3>2. \A m \in Nat \ {0} : write_lock[tx[u].write_log[n].stripe] # <<t, m>>
      BY <3>1
    <3>3. QED BY <3>1, <3>2 DEF Effects
  <2>2. QED BY <1>2, <1>3, <2>1 DEF Knows, HeldVersions
<1>6. Snapshot(u)'
  <2>1. PICK T \in Nat : SnapAt(u, T)
    BY DEF Knows, Snapshot
  <2>2. /\ T <= commit_ts' /\ \A x \in seen[u] : There(x, T, u)'
        /\ tx[u].pc \in Snapped =>
              \A s \in Stripe, v \in Nat : Claim(u, tx[u], s, v) => Clean(s, v, T, u)'
    BY <2>1, SnapStable
  <2>3. ReadingNow(u, tx'[u]) = ReadingNow(u, tx[u])
    BY <1>2 DEF ReadingNow
  <2>4. \A s, v : Claim(u, tx'[u], s, v) <=> Claim(u, tx[u], s, v)
    BY <1>2, <2>3, ClaimSame
  <2>5. SnapAt(u, T)'
    BY <1>1, <1>2, <2>1, <2>2, <2>4 DEF SnapAt, Pending
  <2>6. QED BY <2>5 DEF Snapshot
<1>7. Reading(u)'
  <2>1. SUFFICES ASSUME tx[u].pc \in {"read_value", "read_check"} PROVE Reading(u)'
    BY <1>2 DEF Reading
  <2>2. StripeOfOp(u) \in Stripe /\ Op(u).addr \in Addr /\ StripeOf[Op(u).addr] = StripeOfOp(u)
    BY <2>1, Accessing DEF StripeOfOp
  <2>3. tx[u].version <= Version[StripeOfOp(u)]
    BY <2>1 DEF Knows, Reading
  <2>4. tx[u].version <= Version'[StripeOfOp(u)]
    BY <1>3, <1>4, <2>2, <2>3
  <2>5. ASSUME tx[u].version = Version'[StripeOfOp(u)]
        PROVE  /\ tx[u].pc = "read_value" => StripeOfOp(u) \in Settled'
               /\ tx[u].pc = "read_check" => tx[u].value = ValueIn(Op(u).addr, history'.commits)
    <3>1. Version'[StripeOfOp(u)] = Version[StripeOfOp(u)] /\ tx[u].version = Version[StripeOfOp(u)]
      BY <1>3, <1>4, <2>2, <2>3, <2>5
    <3>2. ValueIn(Op(u).addr, history'.commits) = ValueIn(Op(u).addr, history.commits)
      BY <2>2, <3>1, QuietValue
    <3>3. QED BY <1>4, <2>1, <2>2, <3>1, <3>2 DEF Knows, Reading
  <2>6. QED BY <1>2, <2>4, <2>5 DEF Reading
<1>8. Extending(u)'
  <2>1. SUFFICES ASSUME tx[u].pc \in ExtendPc PROVE Extending(u)'
    BY <1>2 DEF Extending
  <2>2. StripeOfOp(u) \in Stripe /\ Op(u).addr \in Addr /\ StripeOf[Op(u).addr] = StripeOfOp(u)
    BY <2>1, Accessing DEF StripeOfOp
  <2>3. tx[u].version <= Version'[StripeOfOp(u)]
    BY <1>3, <1>4, <2>1, <2>2 DEF Knows, Extending
  <2>4. Op(u).kind = "read" => ValueAt(history'.commits, Op(u).addr, tx[u].version) = ValueAt(history.commits, Op(u).addr, tx[u].version)
    <3>1. tx[u].version <= Version[StripeOf[Op(u).addr]] /\ tx[u].version \in Int
      BY <1>3, <2>1, <2>2 DEF Knows, Extending
    <3>2. ASSUME NEW v \in Int, v <= Version[StripeOf[Op(u).addr]]
          PROVE  ValueAt(history'.commits, Op(u).addr, v) = ValueAt(history.commits, Op(u).addr, v)
      BY <2>2, <3>2, OldValue
    <3>3. QED BY <3>1, <3>2, <1>2 DEF ValueAt, CommitsTo
  <2>5. Op(u).kind # "read" => Version'[StripeOfOp(u)] = Version[StripeOfOp(u)]
    <3>1. SUFFICES ASSUME Op(u).kind # "read" PROVE Version'[StripeOfOp(u)] = Version[StripeOfOp(u)]
      OBVIOUS
    <3>2. FillingIn(u, tx[u])
      BY <2>1, <3>1 DEF FillingIn, Op, Ops, OpOf, OpsOf
    <3>3. /\ tx[u].write_log # <<>>
          /\ tx[u].write_log[Len(tx[u].write_log)].stripe = StripeOfOp(u)
      BY <3>2, ThreadFacts DEF Local, LoggedAs
    <3>4. Len(tx[u].write_log) \in HeldIn(tx[u])
      BY <1>3, <2>1, <3>3, EntryTyped DEF HeldIn, FirstOf
    <3>5. \E n \in Nat \ {0} : write_lock[StripeOfOp(u)] = <<u, n>>
      BY <3>3, <3>4, Owned DEF Owners
    <3>6. \A m \in Nat \ {0} : write_lock[StripeOfOp(u)] # <<t, m>>
      BY <3>5
    <3>7. QED BY <2>2, <3>6 DEF Effects
  <2>6. ASSUME tx[u].pc # "extend_ts"
        PROVE  /\ tx[u].version <= tx[u].ts /\ tx[u].ts <= commit_ts'
               /\ \A n \in 1 .. Len(tx[u].read_log) : tx[u].pc = "extended" \/ n < tx[u].i =>
                    Clean(tx[u].read_log[n].stripe, tx[u].read_log[n].version, tx[u].ts, u)'
    <3>1. /\ tx[u].version <= tx[u].ts /\ tx[u].ts <= commit_ts
          /\ \A n \in 1 .. Len(tx[u].read_log) : tx[u].pc = "extended" \/ n < tx[u].i =>
               Clean(tx[u].read_log[n].stripe, tx[u].read_log[n].version, tx[u].ts, u)
      BY <2>1, <2>6 DEF Knows, Extending
    <3>2. Past(t, u, tx[u].ts)
      BY <1>3, <3>1 DEF Past
    <3>3. \A n \in 1 .. Len(tx[u].read_log) : tx[u].read_log[n].stripe \in Stripe
      BY <1>3, EntryTyped
    <3> DEFINE K == {n \in 1 .. Len(tx[u].read_log) : tx[u].pc = "extended" \/ n < tx[u].i}
    <3>4. ASSUME NEW log, log = tx[u].read_log, NEW T, T = tx[u].ts
          PROVE  \A n \in K : Clean(log[n].stripe, log[n].version, T, u)'
      BY <3>1, <3>2, <3>3, <3>4, EntriesStable
    <3>5. QED BY <1>2, <1>3, <3>1, <3>4
  <2>7. QED
    <3>1. Extending(u)
      BY DEF Knows
    <3>2. QED BY <1>2, <2>1, <2>3, <2>4, <2>5, <2>6, <3>1 DEF Extending
<1>9. Validating(u)'
  <2>1. SUFFICES ASSUME tx[u].pc = "validate" PROVE Validating(u)'
    BY <1>2 DEF Validating
  <2>2. \A n \in 1 .. Len(tx[u].read_log) : n < tx[u].i =>
          Clean(tx[u].read_log[n].stripe, tx[u].read_log[n].version, tx[u].ts - 1, u)
    BY <2>1 DEF Knows, Validating
  <2>3. Past(t, u, tx[u].ts - 1)
    BY <1>3, <2>1 DEF Past, Knows, HeldVersions
  <2>4. \A n \in 1 .. Len(tx[u].read_log) : tx[u].read_log[n].stripe \in Stripe
    BY <1>3, EntryTyped
  <2> DEFINE K == {n \in 1 .. Len(tx[u].read_log) : n < tx[u].i}
  <2>5. ASSUME NEW log, log = tx[u].read_log, NEW T, T = tx[u].ts - 1
        PROVE  \A n \in K : Clean(log[n].stripe, log[n].version, T, u)'
    BY <2>2, <2>3, <2>4, <2>5, EntriesStable
  <2>6. QED BY <1>2, <2>5 DEF Validating
<1>10. Unread(u)' /\ ReadVersions(u)'
  BY <1>1, <1>2 DEF Knows, Unread, ReadVersions
<1>11. QED BY <1>5, <1>6, <1>7, <1>8, <1>9, <1>10 DEF Knows

----------------------------------------------------------------------------
(* Steps that commit nothing *)

Calm(t) ==
  /\ Only(t) /\ VersionsFit(t) /\ history' = history
  /\ commit_ts' \in Nat /\ commit_ts' >= commit_ts
  /\ \A n \in UnwrittenIn(tx'[t]) :
       n \in UnwrittenIn(tx[t]) /\ tx'[t].write_log[n] = tx[t].write_log[n]
  /\ Pending(t)' =>
       /\ tx'[t].write_log = tx[t].write_log
       /\ \/ tx'[t].ts = commit_ts + 1 /\ commit_ts' = commit_ts + 1
          \/ Pending(t) /\ tx'[t].ts = tx[t].ts

\* What t has set is its own, and what it writes to memory was committed.
OwnReadLocks(t) ==
  /\ \A n \in ReadLockedIn(tx[t]) : read_lock[tx[t].write_log[n].stripe] = 0
  /\ tx[t].pc \notin {"restart_locks", "end_sync"}
MemoryFits(t) ==
  \A a \in Addr : \/ memory'[a] = memory[a] /\ (Unwritten(t, a) => Unwritten(t, a)')
                  \/ \E n \in UnwrittenIn(tx[t]) :
                       /\ tx[t].write_log[n].words[a] # NULL
                       /\ memory'[a] = tx[t].write_log[n].words[a]

LEMMA CalmEffects ==
  ASSUME LockInv, LockInv', NEW t \in Thread, Calm(t)
  PROVE  Effects(t) /\ \A s \in Stripe : Version'[s] = Version[s]
<1>1. \A s \in Stripe : Version'[s] = Version[s]
  BY VersionStep DEF Calm
<1>2. ASSUME NEW s \in Settled PROVE s \in Settled'
  <2>1. SUFFICES ASSUME NEW u \in Thread, NEW n \in UnwrittenIn(tx'[u])
                 PROVE  tx'[u].write_log[n].stripe # s
    BY <1>2 DEF Settled
  <2>2. CASE u = t
    BY <1>2, <2>1, <2>2 DEF Calm, Settled
  <2>3. CASE u # t
    <3>1. Untouched(tx[u], tx'[u])
      BY <2>3 DEF Calm, Only
    <3>2. n \in UnwrittenIn(tx[u]) /\ tx'[u].write_log = tx[u].write_log
      BY <2>1, <3>1, UntouchedSame DEF Untouched, Continues
    <3>3. QED BY <1>2, <3>2 DEF Settled
  <2>4. QED BY <2>2, <2>3
<1>3. QED BY <1>1, <1>2 DEF Calm, Effects

\* The commits stay serial.
LEMMA SerialStable ==
  ASSUME LockInv, HistoryTyped, Timestamps, Serial, NEW t \in Thread, Effects(t),
         NEW d \in history.commits, NEW x \in d.seen
  PROVE  There(x, d.ts - 1, 0)'
<1>1. d \in Commit /\ x \in Read
  BY DEF HistoryTyped, Commit
<1>2. Past(t, 0, d.ts - 1)
  BY <1>1 DEF Timestamps, Past, Thread, Commit, LockInv, TypeOK
<1>3. There(x, d.ts - 1, 0)
  BY DEF Serial
<1>4. ASSUME NEW T, T = d.ts - 1 PROVE There(x, T, 0)'
  BY <1>1, <1>2, <1>3, <1>4, ThereStable
<1>5. QED BY <1>4

LEMMA CalmStep ==
  ASSUME LockInv, LockInv', HistoryTyped, EpochInv, NEW t \in Thread, Calm(t), MemoryFits(t),
         OwnReadLocks(t)', Knows(t)'
  PROVE  EpochInv'
<1>1. Effects(t) /\ \A s \in Stripe : Version'[s] = Version[s]
  BY CalmEffects
<1>2. /\ commit_ts \in Nat /\ commit_ts' \in Nat /\ commit_ts <= commit_ts' /\ history' = history
      /\ \A u \in Thread : tx[u].ts \in Nat
      /\ \A c \in history.commits : c.ts \in Nat
  BY DEF Calm, LockInv, TypeOK, State, HistoryTyped, Commit
<1>3. ASSUME NEW u \in Thread, u # t
      PROVE  /\ tx'[u].pc = tx[u].pc /\ tx'[u].write_log = tx[u].write_log /\ tx'[u].ts = tx[u].ts
             /\ UnwrittenIn(tx'[u]) = UnwrittenIn(tx[u])
             /\ ReadLockedIn(tx'[u]) = ReadLockedIn(tx[u])
  BY <1>3, UntouchedSame DEF Calm, Only, Untouched, Continues
<1>4. ReadLocksSet'
  <2>1. ASSUME NEW u \in Thread, u # t, NEW n \in ReadLockedIn(tx'[u])
        PROVE  read_lock'[tx'[u].write_log[n].stripe] = 0
    <3>1. read_lock[tx'[u].write_log[n].stripe] = 0
      BY <1>3, <2>1 DEF EpochInv, ReadLocksSet
    <3>2. n \in HeldIn(tx'[u]) /\ tx'[u].write_log[n].stripe \in Stripe
      <4>1. n \in HeldIn(tx'[u])
        BY <2>1, ReadLockedHeld DEF LockInv, TypeOK
      <4>2. Owners'
        BY Owned, PTL
      <4>3. QED BY <4>1, <4>2 DEF Owners
    <3>3. \A m \in HeldIn(tx'[t]) : tx'[t].write_log[m].stripe # tx'[u].write_log[n].stripe
      <4>1. Owners'
        BY Owned, PTL
      <4>2. QED BY <2>1, <3>2, <4>1 DEF Owners
    <3>4. QED BY <3>1, <3>2, <3>3 DEF Calm, VersionsFit
  <2>2. QED BY <1>3, <2>1 DEF ReadLocksSet, OwnReadLocks, EpochInv
<1>5. Versions'
  BY <1>1, <1>2 DEF Versions, EpochInv, Wrote
<1>6. Timestamps'
  <2>1. Pending(t)' => \/ tx'[t].ts = commit_ts + 1 /\ commit_ts' = commit_ts + 1
                       \/ Pending(t) /\ tx'[t].ts = tx[t].ts
    BY DEF Calm
  <2>2. \A u \in Thread : u # t => (Pending(u)' <=> Pending(u)) /\ tx'[u].ts = tx[u].ts
    BY <1>3 DEF Pending
  <2>3. \A u \in Thread : Pending(u) => tx[u].ts <= commit_ts
    BY DEF EpochInv, Knows, HeldVersions, Pending
  <2>4. \A c \in history.commits : c.ts <= commit_ts
    BY DEF EpochInv, Timestamps
  <2>5. \A u \in Thread, c \in history'.commits : Pending(u)' => c.ts # tx'[u].ts
    BY <1>2, <2>1, <2>2, <2>4 DEF EpochInv, Timestamps
  <2>6. ASSUME NEW u \in Thread, NEW w \in Thread, Pending(u)', Pending(w)', u # w
        PROVE  tx'[u].ts # tx'[w].ts
    BY <1>2, <2>1, <2>2, <2>3, <2>6 DEF EpochInv, Timestamps
  <2>7. \A c \in history'.commits : c.epoch = 0 /\ c.ts <= commit_ts'
    BY <1>2, <2>4 DEF EpochInv, Timestamps
  <2>8. QED BY <1>2, <2>5, <2>6, <2>7 DEF EpochInv, Timestamps
<1>7. Memory'
  <2>1. ASSUME NEW u \in Thread, NEW n \in UnwrittenIn(tx'[u])
        PROVE  n \in UnwrittenIn(tx[u]) /\ tx'[u].write_log[n] = tx[u].write_log[n]
    BY <1>3, <2>1 DEF Calm
  <2>2. ASSUME NEW u \in Thread, NEW n \in UnwrittenIn(tx'[u]), NEW a \in Addr,
               tx'[u].write_log[n].words[a] # NULL
        PROVE  ValueIn(a, history'.commits) = tx'[u].write_log[n].words[a]
    BY <1>2, <2>1, <2>2 DEF EpochInv, Memory
  <2>3. ASSUME NEW a \in Addr, \A u \in Thread : ~ Unwritten(u, a)'
        PROVE  memory'[a] = ValueIn(a, history'.commits)
    <3>1. \A u \in Thread : u # t => ~ Unwritten(u, a)
      BY <1>3, <2>3 DEF Unwritten
    <3>2. CASE memory'[a] = memory[a] /\ (Unwritten(t, a) => Unwritten(t, a)')
      BY <1>2, <2>3, <3>1, <3>2 DEF EpochInv, Memory
    <3>3. CASE \E n \in UnwrittenIn(tx[t]) : /\ tx[t].write_log[n].words[a] # NULL
                                             /\ memory'[a] = tx[t].write_log[n].words[a]
      BY <1>2, <3>3 DEF EpochInv, Memory
    <3>4. QED BY <3>2, <3>3 DEF MemoryFits
  <2>4. QED BY <2>2, <2>3 DEF Memory
<1>8. Serial'
  BY <1>1, <1>2, SerialStable DEF Serial, EpochInv
<1>9. \A u \in Thread : Knows(u)'
  BY <1>1, OthersKnow DEF EpochInv
<1>10. QED BY <1>4, <1>5, <1>6, <1>7, <1>8, <1>9 DEF EpochInv

----------------------------------------------------------------------------
(* Steps while t has no read lock *)

Away(r) == ReadLockedIn(r) = {} /\ r.pc # "validate"
StepAway(t) ==
  /\ Away(tx[t]) /\ Away(tx'[t]) /\ Only(t)
  /\ UNCHANGED <<read_lock, memory, commit_ts, history>>

LEMMA AwayCalm ==
  ASSUME LockInv, LockInv', NEW t \in Thread, StepAway(t)
  PROVE  Calm(t) /\ MemoryFits(t)
<1>1. tx[t] \in State /\ tx'[t] \in State /\ commit_ts \in Nat
  BY DEF LockInv, TypeOK
<1>2. UnwrittenIn(tx[t]) = {} /\ UnwrittenIn(tx'[t]) = {}
  BY <1>1, UnwrittenLocked DEF StepAway, Away
<1>3. VersionsFit(t)
  BY DEF StepAway, Away, VersionsFit
<1>4. ~ Pending(t)'
  BY DEF StepAway, Away, Pending
<1>5. Calm(t)
  BY <1>1, <1>2, <1>3, <1>4 DEF StepAway, Calm
<1>6. MemoryFits(t)
  BY <1>2 DEF StepAway, MemoryFits, Unwritten
<1>7. QED BY <1>5, <1>6

LEMMA AwayStep ==
  ASSUME LockInv, LockInv', HistoryTyped, EpochInv, NEW t \in Thread, StepAway(t),
         tx'[t].pc \notin {"restart_locks", "end_sync"}, Knows(t)'
  PROVE  EpochInv'
<1>1. OwnReadLocks(t)'
  BY DEF StepAway, Away, OwnReadLocks
<1>2. QED BY <1>1, AwayCalm, CalmStep

----------------------------------------------------------------------------
(* What t itself knows after its step *)

\* t holds no more than before, or what it holds has no version yet.
HeldFits(t) ==
  /\ tx[t].pc \notin Publishing /\ tx'[t].pc \notin Publishing
  /\ \A n \in HeldIn(tx'[t]) :
       \/ /\ n \in HeldIn(tx[t])
          /\ tx'[t].write_log[n].stripe = tx[t].write_log[n].stripe
          /\ tx'[t].write_log[n].old_version = tx[t].write_log[n].old_version
       \/ tx'[t].write_log[n].old_version = 0
  /\ Pending(t)' => tx'[t].ts <= commit_ts'

LEMMA HeldKept ==
  ASSUME LockInv, NEW t \in Thread, HeldVersions(t), HeldFits(t),
         \A s \in Stripe : Version'[s] = Version[s]
  PROVE  HeldVersions(t)'
<1>1. ASSUME NEW n \in HeldIn(tx'[t]), tx'[t].write_log[n].old_version >= 1
      PROVE  Version'[tx'[t].write_log[n].stripe] = tx'[t].write_log[n].old_version
  <2>1. /\ n \in HeldIn(tx[t])
        /\ tx'[t].write_log[n].stripe = tx[t].write_log[n].stripe
        /\ tx'[t].write_log[n].old_version = tx[t].write_log[n].old_version
    BY <1>1 DEF HeldFits
  <2>2. Version[tx[t].write_log[n].stripe] = tx[t].write_log[n].old_version
    BY <1>1, <2>1 DEF HeldFits, HeldVersions
  <2>3. tx[t].write_log[n].stripe \in Stripe
    BY <2>1, Owned DEF Owners
  <2>4. QED BY <2>1, <2>2, <2>3
<1>2. QED BY <1>1 DEF HeldVersions, HeldFits, Pending

\* t relies on the same versions as before, and has read nothing more.
SnapFits(t) ==
  /\ seen'[t] = seen[t]
  /\ tx'[t].pc \in Snapped =>
       /\ tx[t].pc \in Snapped /\ tx'[t].valid_ts = tx[t].valid_ts
       /\ \A s \in Stripe, v \in Nat : Claim(t, tx'[t], s, v) <=> Claim(t, tx[t], s, v)
  /\ Pending(t)' => \/ tx'[t].ts = commit_ts + 1
                    \/ Pending(t) /\ tx'[t].ts = tx[t].ts
  /\ tx'[t].pc \in {"extend", "extended"} =>
       \/ tx'[t].ts = commit_ts
       \/ tx[t].pc \in {"extend", "extended"} /\ tx'[t].ts = tx[t].ts

LEMMA SnapKept ==
  ASSUME LockInv, HistoryTyped, NEW t \in Thread, Effects(t), Snapshot(t), SnapFits(t)
  PROVE  Snapshot(t)'
<1>1. PICK T \in Nat : SnapAt(t, T)
  BY DEF Snapshot
<1>2. /\ T <= commit_ts' /\ \A x \in seen[t] : There(x, T, t)'
      /\ tx[t].pc \in Snapped =>
            \A s \in Stripe, v \in Nat : Claim(t, tx[t], s, v) => Clean(s, v, T, t)'
  BY <1>1, SnapStable
<1>3. commit_ts \in Nat /\ T <= commit_ts
  BY <1>1 DEF SnapAt, LockInv, TypeOK
<1>4. \A x \in seen[t] : StripeOf[x.addr] \in Stripe
  BY Constants DEF HistoryTyped, Read
<1>5. \A x \in seen'[t] : There(x, T, t)'
  BY <1>2 DEF SnapFits
<1>6. ASSUME tx'[t].pc \in Snapped
      PROVE  /\ tx'[t].valid_ts <= T
             /\ \A x \in seen'[t] : \E v \in Nat : Claim(t, tx'[t], StripeOf[x.addr], v)
             /\ \A s \in Stripe, v \in Nat : Claim(t, tx'[t], s, v) => Clean(s, v, T, t)'
  BY <1>1, <1>2, <1>4, <1>6 DEF SnapFits, SnapAt
<1>7. Pending(t)' => T < tx'[t].ts
  BY <1>1, <1>3 DEF SnapFits, SnapAt
<1>8. tx'[t].pc \in {"extend", "extended"} => T <= tx'[t].ts
  BY <1>1, <1>3 DEF SnapFits, SnapAt
<1>9. SnapAt(t, T)'
  BY <1>2, <1>5, <1>6, <1>7, <1>8 DEF SnapAt
<1>10. QED BY <1>9 DEF Snapshot

LEMMA NothingRead ==
  ASSUME LockInv', NEW t \in Thread, seen'[t] = {}, tx'[t].pc \notin Snapped
  PROVE  Snapshot(t)'
<1>1. commit_ts' \in Nat
  BY DEF LockInv, TypeOK
<1>2. SnapAt(t, 0)'
  BY <1>1 DEF SnapAt, Snapped, Pending
<1>3. QED BY <1>2 DEF Snapshot

\* A read, an extension or a validation is under way.
BusyPc == {"read_value", "read_check", "validate"} \cup ExtendPc

LEMMA NotBusy ==
  ASSUME NEW t \in Thread, tx'[t].pc \notin BusyPc
  PROVE  Reading(t)' /\ Extending(t)' /\ Validating(t)'
  BY DEF BusyPc, Reading, Extending, Validating

\* A step outside of the transaction, or out of it.
LEMMA LeavingStep ==
  ASSUME LockInv, LockInv', HistoryTyped, EpochInv, NEW t \in Thread, StepAway(t),
         tx'[t].pc \notin Snapped \cup {"restart_locks", "end_sync"}, HeldFits(t),
         seen'[t] = seen[t] \/ seen'[t] = {}, Unread(t)',
         tx'[t].read_log = tx[t].read_log \/ tx'[t].read_log = <<>>
  PROVE  EpochInv'
<1>1. Effects(t) /\ \A s \in Stripe : Version'[s] = Version[s]
  BY AwayCalm, CalmEffects
<1>2. Knows(t)
  BY DEF EpochInv
<1>3. HeldVersions(t)'
  BY <1>1, <1>2, HeldKept DEF Knows
<1>4. Snapshot(t)'
  <2>1. CASE seen'[t] = seen[t]
    <3>1. ~ Pending(t)' /\ tx'[t].pc \notin {"extend", "extended"}
      BY DEF Snapped, Pending
    <3>2. SnapFits(t)
      BY <2>1, <3>1 DEF SnapFits
    <3>3. QED BY <1>1, <1>2, <3>2, SnapKept DEF Knows
  <2>2. CASE seen'[t] = {}
    BY <2>2, NothingRead
  <2>3. QED BY <2>1, <2>2
<1>5. tx'[t].pc \notin BusyPc
  BY DEF Snapped, BusyPc
<1>6. ReadVersions(t)'
  BY <1>2 DEF Knows, ReadVersions
<1>7. Knows(t)'
  BY <1>3, <1>4, <1>5, <1>6, NotBusy DEF Knows
<1>8. QED BY <1>7, AwayStep

\* A step from one access of the transaction to the next that logs nothing.
LEMMA GoesOn ==
  ASSUME LockInv, LockInv', HistoryTyped, EpochInv, NEW t \in Thread, StepAway(t),
         tx'[t].pc \in Snapped, SnapFits(t), HeldFits(t),
         tx'[t].read_log = tx[t].read_log, Reading(t)', Extending(t)'
  PROVE  EpochInv'
<1>1. Effects(t) /\ \A s \in Stripe : Version'[s] = Version[s]
  BY AwayCalm, CalmEffects
<1>2. Knows(t)
  BY DEF EpochInv
<1>3. HeldVersions(t)' /\ Snapshot(t)'
  BY <1>1, <1>2, HeldKept, SnapKept DEF Knows
<1>4. Validating(t)'
  BY DEF StepAway, Away, Validating
<1>5. Unread(t)'
  BY DEF Unread, Snapped
<1>6. ReadVersions(t)'
  BY <1>2 DEF Knows, ReadVersions
<1>7. Knows(t)'
  BY <1>3, <1>4, <1>5, <1>6 DEF Knows
<1>8. tx'[t].pc \notin {"restart_locks", "end_sync"}
  BY DEF Snapped
<1>9. QED BY <1>7, <1>8, AwayStep

----------------------------------------------------------------------------
(* The steps outside of a transaction, and out of it *)

LEMMA BecomeOnly ==
  ASSUME LockInv, NEW t \in Thread, NEW r, Become(t, r),
         \A u \in Thread \ {t} : seen'[u] = seen[u]
  PROVE  Only(t) /\ tx'[t] = r
  BY DEF LockInv, TypeOK, Become, Only, Untouched, Continues

Outside(r) == \/ r.pc \in StartPc \cup (SyncPc \ {"restart_locks", "end_sync"})
              \/ r.pc \in {"restart", "abort"} /\ r.rolled_back

LEMMA OutsideStep ==
  ASSUME LockInv, LockInv', HistoryTyped, EpochInv, NEW t \in Thread, NEW r, Become(t, r),
         UNCHANGED <<read_lock, memory, commit_ts, history, seen>>,
         Outside(tx[t]), Outside(r), r.write_log = tx[t].write_log, r.read_log = tx[t].read_log
  PROVE  EpochInv'
<1> DEFINE q == tx[t]
<1>1. q \in State /\ Local(t, q) /\ Only(t) /\ tx'[t] = r
  BY ThreadFacts, BecomeOnly
<1>2. q.write_log = <<>> /\ Len(q.write_log) = 0
  <2>1. q.write_log = <<>>
    BY <1>1 DEF Outside, Local, LoggedAs, HasLocksIn
  <2>2. QED BY <1>1, <2>1, EntryTyped
<1>3. /\ ReadLockedIn(q) = {} /\ HeldIn(q) = {} /\ ReadLockedIn(r) = {} /\ HeldIn(r) = {}
  BY <1>2 DEF ReadLockedIn, HeldIn
<1>4. StepAway(t)
  BY <1>1, <1>3 DEF StepAway, Away, Outside
<1>5. HeldFits(t)
  BY <1>1, <1>3 DEF HeldFits, Outside, Pending
<1>6. Unread(t)'
  <2>1. seen[t] = {}
    BY DEF EpochInv, Knows, Unread, Outside
  <2>2. QED BY <1>1, <2>1 DEF Unread
<1>7. tx'[t].pc \notin Snapped \cup {"restart_locks", "end_sync"}
  BY <1>1 DEF Outside, Snapped
<1>8. QED BY <1>1, <1>4, <1>5, <1>6, <1>7, LeavingStep

LEMMA StartsSerial ==
  ASSUME LockInv, LockInv', HistoryTyped, EpochInv, NEW t \in Thread,
         TxStart(t) \/ StartSync(t) \/ StartWait(t) \/ StartAgain(t)
  PROVE  EpochInv'
<1> DEFINE q == tx[t]
           r1 == [q EXCEPT !.status = "executing", !.pc = "start_sync"]
           r2 == [q EXCEPT !.status = "idle", !.pc = "start_wait"]
           r3 == [q EXCEPT !.pc = "start_ts"]
           r4 == [q EXCEPT !.pc = "start_again"]
           r5 == [q EXCEPT !.status = "executing", !.pc = "start_ts"]
<1>1. q \in State /\ q.pc \in StartPc
  BY ThreadFacts DEF TxStart, StartSync, StartWait, StartAgain, At
<1>2. UNCHANGED <<read_lock, memory, commit_ts, history, seen>>
  BY DEF TxStart, StartSync, StartWait, StartAgain, clocks, ghosts
<1>3. PICK r \in {r1, r2, r3, r4, r5} : Become(t, r)
  BY DEF TxStart, StartSync, StartWait, StartAgain, Goto
<1>4. r.pc \in StartPc /\ r.write_log = q.write_log /\ r.read_log = q.read_log
  <2> HIDE DEF q
  <2>1. CASE r = r1
    BY <1>1, <2>1, SMT DEF State
  <2>2. CASE r = r2
    BY <1>1, <2>2, SMT DEF State
  <2>3. CASE r = r3
    BY <1>1, <2>3, SMT DEF State
  <2>4. CASE r = r4
    BY <1>1, <2>4, SMT DEF State
  <2>5. CASE r = r5
    BY <1>1, <2>5, SMT DEF State
  <2>6. QED BY <1>3, <2>1, <2>2, <2>3, <2>4, <2>5
<1>5. QED BY <1>1, <1>2, <1>3, <1>4, OutsideStep DEF Outside

LEMMA EndsSerial ==
  ASSUME LockInv, LockInv', HistoryTyped, EpochInv, NEW t \in Thread,
         TxRestarted(t) \/ TxAborted(t)
  PROVE  EpochInv'
<1> DEFINE q == tx[t]
           r1 == [q EXCEPT !.pc = "start", !.status = "restarted", !.i = 0]
           r2 == [q EXCEPT !.pc = "start", !.status = "aborted", !.done = @ + 1, !.i = 0]
<1>1. q \in State /\ Outside(q)
  BY ThreadFacts DEF TxRestarted, TxAborted, At, Outside
<1>2. UNCHANGED <<read_lock, memory, commit_ts, history, seen>>
  BY DEF TxRestarted, TxAborted, clocks, ghosts
<1>3. PICK r \in {r1, r2} : Become(t, r)
  BY DEF TxRestarted, TxAborted
<1>4. r.pc = "start" /\ r.write_log = q.write_log /\ r.read_log = q.read_log
  <2> HIDE DEF q
  <2>1. CASE r = r1
    BY <1>1, <2>1, SMT DEF State
  <2>2. CASE r = r2
    BY <1>1, <2>2, SMT DEF State
  <2>3. QED BY <1>3, <2>1, <2>2
<1>5. QED BY <1>1, <1>2, <1>3, <1>4, OutsideStep DEF Outside

LEMMA SyncSerial ==
  ASSUME LockInv, LockInv', HistoryTyped, EpochInv, NEW t \in Thread,
         StartSynchronization(t) \/ SyncWait(t) \/ SyncOther(t) \/ SyncOtherWait(t)
  PROVE  EpochInv'
<1> DEFINE q == tx[t]
           r1 == [q EXCEPT !.pc = "sync_other"]
           r2 == [q EXCEPT !.pc = "sync_wait", !.i = 1]
           r3 == [q EXCEPT !.i = q.i + 1]
           r4 == [q EXCEPT !.pc = "restart_ts", !.i = 1]
           r5 == [q EXCEPT !.status = "idle", !.pc = "sync_other_wait"]
           r6 == [q EXCEPT !.pc = "restart"]
<1>1. /\ q \in State /\ q.pc \in SyncPc \ {"restart_ts", "restart_locks", "end_sync"}
      /\ q.rolled_back
  BY ThreadFacts DEF StartSynchronization, SyncWait, SyncOther, SyncOtherWait, At, Local, LoggedAs
<1>2. UNCHANGED <<read_lock, memory, commit_ts, history, seen>>
  BY DEF StartSynchronization, SyncWait, SyncOther, SyncOtherWait, clocks, ghosts
<1>3. PICK r \in {r1, r2, r3, r4, r5, r6} : Become(t, r)
  BY DEF StartSynchronization, SyncWait, SyncOther, SyncOtherWait, Goto, Advance
<1>4. /\ r.pc \in {"sync_other", "sync_wait", "restart_ts", "sync_other_wait", "restart", q.pc}
      /\ r.rolled_back /\ r.write_log = q.write_log /\ r.read_log = q.read_log
  <2> HIDE DEF q
  <2>1. CASE r = r1
    BY <1>1, <2>1, SMT DEF State
  <2>2. CASE r = r2
    BY <1>1, <2>2, SMT DEF State
  <2>3. CASE r = r3
    BY <1>1, <2>3, SMT DEF State
  <2>4. CASE r = r4
    BY <1>1, <2>4, SMT DEF State
  <2>5. CASE r = r5
    BY <1>1, <2>5, SMT DEF State
  <2>6. CASE r = r6
    BY <1>1, <2>6, SMT DEF State
  <2>7. QED BY <1>3, <2>1, <2>2, <2>3, <2>4, <2>5, <2>6
<1>5. QED BY <1>1, <1>2, <1>3, <1>4, OutsideStep DEF Outside

\* t gives up, or ends without having written.
LEMMA LeaveStep ==
  ASSUME LockInv, LockInv', HistoryTyped, EpochInv, NEW t \in Thread, NEW r, Become(t, r),
         UNCHANGED <<read_lock, memory, commit_ts, history, seen>>,
         tx[t].pc \in AccessPc \cup {"run"}, r.pc \in {"restart", "abort", "committed"},
         r.i = 1, r.rolled_back = tx[t].rolled_back,
         r.write_log = tx[t].write_log, r.read_log = tx[t].read_log
  PROVE  EpochInv'
<1> DEFINE q == tx[t]
<1>1. q \in State /\ Local(t, q) /\ Only(t) /\ tx'[t] = r
  BY ThreadFacts, BecomeOnly
<1>2. ReadLockedIn(q) = {} /\ ReadLockedIn(r) = {} /\ HeldIn(r) \subseteq HeldIn(q)
  BY <1>1 DEF ReadLockedIn, HeldIn, FirstOf
<1>3. StepAway(t)
  BY <1>1, <1>2 DEF StepAway, Away
<1>4. HeldFits(t)
  BY <1>1, <1>2 DEF HeldFits, Pending
<1>5. Unread(t)'
  <2>1. ~ q.rolled_back
    BY <1>1 DEF Local, LoggedAs, HasLocksIn
  <2>2. QED BY <1>1, <2>1 DEF Unread
<1>6. tx'[t].pc \notin Snapped \cup {"restart_locks", "end_sync"}
  BY <1>1 DEF Snapped
<1>7. QED BY <1>1, <1>3, <1>4, <1>5, <1>6, LeavingStep

LEMMA TxAbortSerial ==
  ASSUME LockInv, LockInv', HistoryTyped, EpochInv, NEW t \in Thread, TxAbort(t)
  PROVE  EpochInv'
<1> DEFINE q == tx[t]
           r == [q EXCEPT !.pc = "abort", !.i = 1]
<1>1. q \in State /\ q.pc = "run" /\ Become(t, r)
      /\ UNCHANGED <<read_lock, memory, commit_ts, history, seen>>
  BY ThreadFacts DEF TxAbort, Doing, At, clocks, ghosts
<1>2. /\ r.pc = "abort" /\ r.i = 1 /\ r.rolled_back = q.rolled_back
      /\ r.write_log = q.write_log /\ r.read_log = q.read_log
  <2> HIDE DEF q
  <2>1. QED BY <1>1, SMT DEF State
<1> HIDE DEF r
<1>3. QED BY <1>1, <1>2, LeaveStep

LEMMA TxCommittedSerial ==
  ASSUME LockInv, LockInv', HistoryTyped, EpochInv, NEW t \in Thread, TxCommitted(t)
  PROVE  EpochInv'
<1> DEFINE q == tx[t]
           c == Cleared(q)
           r == [c EXCEPT !.pc = "start", !.status = "committed", !.done = @ + 1]
<1>1. q \in State /\ q.pc = "committed"
  BY ThreadFacts DEF TxCommitted, At
<1>2. /\ UNCHANGED <<read_lock, memory, commit_ts, history>> /\ Become(t, r)
      /\ seen' = [seen EXCEPT ![t] = {}]
  BY DEF TxCommitted, clocks
<1>3. c \in State /\ c.read_log = <<>> /\ c.write_log = <<>>
  BY <1>1, ClearedTyped
<1>4. r.pc = "start" /\ r.write_log = <<>> /\ r.read_log = <<>>
  <2> HIDE DEF q, c
  <2>1. QED BY <1>3, SMT DEF State
<1> HIDE DEF r
<1>5. seen'[t] = {} /\ \A u \in Thread \ {t} : seen'[u] = seen[u]
  BY <1>2 DEF HistoryTyped
<1>6. Only(t) /\ tx'[t] = r
  BY <1>2, <1>5, BecomeOnly
<1>7. ReadLockedIn(q) = {} /\ ReadLockedIn(r) = {} /\ HeldIn(r) = {}
  BY <1>1, <1>4 DEF ReadLockedIn, HeldIn
<1>8. StepAway(t) /\ HeldFits(t) /\ Unread(t)'
  BY <1>1, <1>2, <1>4, <1>5, <1>6, <1>7 DEF StepAway, Away, HeldFits, Unread, Pending
<1>9. tx'[t].pc \notin Snapped \cup {"restart_locks", "end_sync"}
  BY <1>4, <1>6 DEF Snapped
<1>10. QED BY <1>4, <1>5, <1>6, <1>8, <1>9, LeavingStep

LEMMA RollbackSerial ==
  ASSUME LockInv, LockInv', HistoryTyped, EpochInv, NEW t \in Thread, NEW after \in {"restart", "abort", "sync"},
         tx[t].pc \in Undoing, ~ tx[t].rolled_back,
         after # "sync" => tx[t].pc = after, Rollback(t, after)
  PROVE  EpochInv'
<1> DEFINE q == tx[t]
<1>1. q \in State /\ Local(t, q) /\ q.pc \in Undoing /\ q.i \in Nat
  BY ThreadFacts DEF State
<1>2. UNCHANGED <<read_lock, memory, commit_ts, history>>
  BY DEF Rollback, clocks
<1>3. CASE q.i <= Len(q.write_log)
  <2> DEFINE r == [q EXCEPT !.i = @ + 1]
  <2>1. Become(t, r) /\ seen' = seen
    BY <1>3 DEF Rollback
  <2>2. /\ r.pc = q.pc /\ r.i = q.i + 1 /\ r.rolled_back = q.rolled_back
        /\ r.write_log = q.write_log /\ r.read_log = q.read_log
    <3> HIDE DEF q
    <3>1. QED BY <1>1, SMT DEF State
  <2> HIDE DEF r
  <2>3. Only(t) /\ tx'[t] = r
    BY <2>1, BecomeOnly
  <2>4. ReadLockedIn(q) = {} /\ ReadLockedIn(r) = {} /\ HeldIn(r) \subseteq HeldIn(q)
    BY <1>1, <2>2 DEF ReadLockedIn, HeldIn, FirstOf
  <2>5. StepAway(t)
    BY <1>1, <1>2, <2>2, <2>3, <2>4 DEF StepAway, Away
  <2>6. HeldFits(t)
    BY <1>1, <2>2, <2>3, <2>4 DEF HeldFits, Pending
  <2>7. Unread(t)'
    BY <1>1, <2>2, <2>3 DEF Unread
  <2>8. tx'[t].pc \notin Snapped \cup {"restart_locks", "end_sync"}
    BY <1>1, <2>2, <2>3 DEF Snapped
  <2>9. QED BY <2>1, <2>2, <2>3, <2>5, <2>6, <2>7, <2>8, LeavingStep
<1>4. CASE ~ (q.i <= Len(q.write_log))
  <2> DEFINE c == Cleared(q)
             r == [c EXCEPT !.pc = after, !.rolled_back = TRUE]
  <2>1. Become(t, r) /\ seen' = [seen EXCEPT ![t] = {}]
    BY <1>4 DEF Rollback
  <2>2. c \in State /\ c.read_log = <<>> /\ c.write_log = <<>>
    BY <1>1, ClearedTyped
  <2>3. r.pc = after /\ r.write_log = <<>> /\ r.read_log = <<>>
    <3> HIDE DEF q, c
    <3>1. QED BY <2>2, SMT DEF State
  <2> HIDE DEF r
  <2>4. seen'[t] = {} /\ \A u \in Thread \ {t} : seen'[u] = seen[u]
    BY <2>1 DEF HistoryTyped
  <2>5. Only(t) /\ tx'[t] = r
    BY <2>1, <2>4, BecomeOnly
  <2>6. ReadLockedIn(q) = {} /\ ReadLockedIn(r) = {} /\ HeldIn(r) = {}
    BY <1>1, <2>3 DEF ReadLockedIn, HeldIn
  <2>7. StepAway(t) /\ HeldFits(t) /\ Unread(t)'
    BY <1>1, <1>2, <2>3, <2>4, <2>5, <2>6 DEF StepAway, Away, HeldFits, Unread, Pending
  <2>8. tx'[t].pc \notin Snapped \cup {"restart_locks", "end_sync"}
    BY <2>3, <2>5 DEF Snapped
  <2>9. QED BY <2>3, <2>4, <2>5, <2>7, <2>8, LeavingStep
<1>5. QED BY <1>3, <1>4

----------------------------------------------------------------------------
(* The steps of an access that log nothing *)

\* The entries that were there have their stripes and versions, a new one has
\* no version yet.
EntriesFit(q, r) ==
  /\ Len(q.write_log) <= Len(r.write_log)
  /\ \A n \in 1 .. Len(q.write_log) :
       /\ r.write_log[n].stripe = q.write_log[n].stripe
       /\ r.write_log[n].old_version = q.write_log[n].old_version
  /\ \A n \in 1 .. Len(r.write_log) : n > Len(q.write_log) => r.write_log[n].old_version = 0

LEMMA SameFit ==
  ASSUME NEW q \in State, NEW r, r.write_log = q.write_log PROVE EntriesFit(q, r)
<1>1. Len(q.write_log) \in Nat
  BY EntryTyped
<1>2. QED BY <1>1 DEF EntriesFit

\* The steps of a transaction between those of an extension.
AccessFits(t) ==
  /\ tx[t].pc \in (AccessPc \cup {"run"}) \ ExtendPc
  /\ tx'[t].pc \in (AccessPc \cup {"run", "lock_reads"}) \ ExtendPc
  /\ tx'[t].pc = "lock_reads" => tx'[t].i = 1
  /\ tx'[t].read_log = tx[t].read_log /\ tx'[t].valid_ts = tx[t].valid_ts
  /\ EntriesFit(tx[t], tx'[t])

LEMMA AccessAway ==
  ASSUME LockInv, LockInv', NEW t \in Thread, Only(t), seen' = seen, AccessFits(t),
         UNCHANGED <<read_lock, memory, commit_ts, history>>
  PROVE  /\ StepAway(t) /\ SnapFits(t) /\ HeldFits(t)
         /\ Effects(t) /\ \A s \in Stripe : Version'[s] = Version[s]
<1> DEFINE q == tx[t]
           r == tx'[t]
<1>1. /\ q \in State /\ r \in State /\ Len(q.write_log) \in Nat /\ Len(r.write_log) \in Nat
  BY EntryTyped DEF LockInv, TypeOK
<1>2. ReadLockedIn(q) = {} /\ ReadLockedIn(r) = {}
  BY <1>1 DEF ReadLockedIn, AccessFits
<1>3. StepAway(t)
  BY <1>2 DEF StepAway, Away, AccessFits
<1>4. HeldFits(t)
  <2>1. ASSUME NEW n \in HeldIn(r), ~ (n > Len(q.write_log))
        PROVE  n \in HeldIn(q) /\ n \in 1 .. Len(q.write_log)
    BY <1>1, <2>1 DEF HeldIn, FirstOf, AccessFits
  <2>2. HeldIn(r) \subseteq 1 .. Len(r.write_log)
    BY <1>1, ReadLockedHeld
  <2>3. QED BY <2>1, <2>2 DEF HeldFits, AccessFits, EntriesFit, Pending
<1>5. SnapFits(t)
  <2>1. ~ ReadingNow(t, q) /\ ~ ReadingNow(t, r)
    BY DEF ReadingNow, AccessFits
  <2>2. ASSUME NEW s \in Stripe, NEW v \in Nat PROVE Claim(t, r, s, v) <=> Claim(t, q, s, v)
    <3>1. ReadClaim(t, r, s, v) <=> ReadClaim(t, q, s, v)
      BY <2>1 DEF ReadClaim, AccessFits
    <3>2. LockClaim(q, s, v) => LockClaim(r, s, v)
      <4>1. EntriesFit(q, r)
        BY DEF AccessFits
      <4>2. \A n \in 1 .. Len(q.write_log) :
              /\ n \in 1 .. Len(r.write_log)
              /\ r.write_log[n].stripe = q.write_log[n].stripe
              /\ r.write_log[n].old_version = q.write_log[n].old_version
        <5> HIDE DEF q, r
        <5>1. QED BY <1>1, <4>1 DEF EntriesFit
      <4> HIDE DEF q, r
      <4>3. QED BY <4>2 DEF LockClaim
    <3>3. LockClaim(r, s, v) => LockClaim(q, s, v)
      <4>1. ASSUME NEW n \in 1 .. Len(r.write_log), r.write_log[n].stripe = s,
                   r.write_log[n].old_version = v, v >= 1
            PROVE  LockClaim(q, s, v)
        <5>1. n \in 1 .. Len(q.write_log)
          BY <1>1, <4>1 DEF AccessFits, EntriesFit
        <5>2. QED BY <4>1, <5>1 DEF LockClaim, AccessFits, EntriesFit
      <4>2. QED BY <4>1 DEF LockClaim
    <3>4. QED BY <3>1, <3>2, <3>3 DEF Claim
  <2>3. QED BY <2>2 DEF SnapFits, AccessFits, Snapped, Pending
<1>6. QED BY <1>3, <1>4, <1>5, AwayCalm, CalmEffects

LEMMA AccessStep ==
  ASSUME LockInv, LockInv', HistoryTyped, EpochInv, NEW t \in Thread, Only(t), seen' = seen,
         AccessFits(t), UNCHANGED <<read_lock, memory, commit_ts, history>>, Reading(t)'
  PROVE  EpochInv'
<1>1. StepAway(t) /\ SnapFits(t) /\ HeldFits(t)
  BY AccessAway
<1>2. Extending(t)'
  BY DEF Extending, AccessFits
<1>3. tx'[t].pc \in Snapped /\ tx'[t].read_log = tx[t].read_log
  BY DEF AccessFits, Snapped
<1>4. QED BY <1>1, <1>2, <1>3, GoesOn

LEMMA NotReading ==
  ASSUME NEW t \in Thread, tx'[t].pc \notin {"read_value", "read_check"}
  PROVE  Reading(t)'
  BY DEF Reading

\* The same operation before and after.
LEMMA SameOp ==
  ASSUME NEW t \in Thread, tx'[t].ip = tx[t].ip, tx'[t].done = tx[t].done
  PROVE  /\ Op(t)' = Op(t) /\ StripeOfOp(t)' = StripeOfOp(t)
         /\ OpOf(t, tx'[t]) = Op(t) /\ OpOf(t, tx[t]) = Op(t)
  BY DEF Op, Ops, StripeOfOp, OpOf, OpsOf

LEMMA SettledMemory ==
  ASSUME LockInv, EpochInv, NEW a \in Addr, StripeOf[a] \in Settled
  PROVE  memory[a] = ValueIn(a, history.commits)
<1>1. ASSUME NEW u \in Thread PROVE ~ Unwritten(u, a)
  <2>1. SUFFICES ASSUME NEW n \in UnwrittenIn(tx[u]), tx[u].write_log[n].words[a] # NULL
                 PROVE  FALSE
    BY DEF Unwritten
  <2>2. n \in 1 .. Len(tx[u].write_log)
    BY DEF UnwrittenIn
  <2>3. tx[u].write_log[n].stripe = StripeOf[a]
    BY <2>1, <2>2 DEF LockInv, Local, LoggedAs
  <2>4. QED BY <2>3 DEF Settled
<1>2. QED BY <1>1 DEF EpochInv, Memory

\* A step that only moves pc on.
LEMMA GotoStep ==
  ASSUME LockInv, LockInv', HistoryTyped, EpochInv, NEW t \in Thread, NEW r, Become(t, r),
         UNCHANGED <<read_lock, memory, commit_ts, history, seen>>,
         tx[t].pc \in (AccessPc \cup {"run"}) \ ExtendPc,
         r.pc \in ({"run", "lock_reads", "read_version"} \cup WritePc), r.pc = "lock_reads" => r.i = 1,
         r.read_log = tx[t].read_log, r.valid_ts = tx[t].valid_ts, EntriesFit(tx[t], r)
  PROVE  EpochInv'
<1>1. Only(t) /\ tx'[t] = r
  BY BecomeOnly
<1>2. AccessFits(t)
  BY <1>1 DEF AccessFits
<1>3. Reading(t)'
  BY <1>1, NotReading
<1>4. QED BY <1>1, <1>2, <1>3, AccessStep

\* The application goes on.
LEMMA NextOpFields ==
  ASSUME NEW q \in State
  PROVE  /\ NextOp(q).pc = "run" /\ NextOp(q).read_log = q.read_log
         /\ NextOp(q).write_log = q.write_log /\ NextOp(q).valid_ts = q.valid_ts
  BY SMT DEF NextOp, State
LEMMA ReturnedFields ==
  ASSUME NEW q \in State, NEW v
  PROVE  /\ Returned(q, v).pc = "run" /\ Returned(q, v).read_log = q.read_log
         /\ Returned(q, v).write_log = q.write_log /\ Returned(q, v).valid_ts = q.valid_ts
  BY SMT DEF Returned, NextOp, State

LEMMA SkipSerial ==
  ASSUME LockInv, LockInv', HistoryTyped, EpochInv, NEW t \in Thread, Skip(t)
  PROVE  EpochInv'
<1> DEFINE q == tx[t]
           r == NextOp(q)
<1>1. q \in State /\ q.pc = "run" /\ Become(t, r)
      /\ UNCHANGED <<read_lock, memory, commit_ts, history, seen>>
  BY ThreadFacts DEF Skip, At, clocks, ghosts
<1>2. r.pc = "run" /\ r.read_log = q.read_log /\ r.write_log = q.write_log /\ r.valid_ts = q.valid_ts
  BY <1>1, NextOpFields
<1> HIDE DEF r
<1>3. EntriesFit(q, r)
  BY <1>1, <1>2, SameFit
<1>4. QED BY <1>1, <1>2, <1>3, GotoStep

LEMMA TxCommitSerial ==
  ASSUME LockInv, LockInv', HistoryTyped, EpochInv, NEW t \in Thread, TxCommit(t)
  PROVE  EpochInv'
<1> DEFINE q == tx[t]
           r == [q EXCEPT !.pc = IF q.write_log = <<>> THEN "committed" ELSE "lock_reads", !.i = 1]
<1>1. q \in State /\ q.pc = "run" /\ Become(t, r)
      /\ UNCHANGED <<read_lock, memory, commit_ts, history, seen>>
  BY ThreadFacts DEF TxCommit, At, clocks, ghosts
<1>2. /\ r.pc \in {"committed", "lock_reads"} /\ r.i = 1 /\ r.rolled_back = q.rolled_back
      /\ r.read_log = q.read_log /\ r.write_log = q.write_log /\ r.valid_ts = q.valid_ts
  <2> HIDE DEF q
  <2>1. QED BY <1>1, SMT DEF State
<1> HIDE DEF r
<1>3. EntriesFit(q, r)
  BY <1>1, <1>2, SameFit
<1>4. CASE r.pc = "committed"
  BY <1>1, <1>2, <1>4, LeaveStep
<1>5. CASE r.pc = "lock_reads"
  BY <1>1, <1>2, <1>3, <1>5, GotoStep
<1>6. QED BY <1>2, <1>4, <1>5

LEMMA WriteConflictSerial ==
  ASSUME LockInv, LockInv', HistoryTyped, EpochInv, NEW t \in Thread,
         WriteConflict(t) \/ WriteReload(t)
  PROVE  EpochInv'
<1> DEFINE q == tx[t]
           r1 == [q EXCEPT !.pc = "write_cas"]
           r2 == [q EXCEPT !.pc = "abort_other", !.ptr = write_lock[StripeOfOp(t)]]
           r3 == [q EXCEPT !.pc = "write_locked"]
           r4 == [q EXCEPT !.pc = "restart", !.i = 1]
<1>1. q \in State /\ q.pc \in {"write_locked", "write_reload"}
      /\ UNCHANGED <<read_lock, memory, commit_ts, history, seen>>
  BY ThreadFacts DEF WriteConflict, WriteReload, At, clocks, ghosts
<1>2. PICK r \in {r1, r2, r3, r4} : Become(t, r)
  BY DEF WriteConflict, WriteReload, Goto
<1>3. /\ r.pc \in {"write_cas", "abort_other", "write_locked"} \/ (r.pc = "restart" /\ r.i = 1)
      /\ r.rolled_back = q.rolled_back
      /\ r.read_log = q.read_log /\ r.write_log = q.write_log /\ r.valid_ts = q.valid_ts
  <2> HIDE DEF q
  <2>1. CASE r = r1
    BY <1>1, <2>1, SMT DEF State
  <2>2. CASE r = r2
    BY <1>1, <2>2, SMT DEF State
  <2>3. CASE r = r3
    BY <1>1, <2>3, SMT DEF State
  <2>4. CASE r = r4
    BY <1>1, <2>4, SMT DEF State
  <2>5. QED BY <1>2, <2>1, <2>2, <2>3, <2>4
<1>4. EntriesFit(q, r)
  BY <1>1, <1>3, SameFit
<1>5. CASE r.pc = "restart"
  BY <1>1, <1>2, <1>3, <1>5, LeaveStep
<1>6. CASE r.pc # "restart"
  BY <1>1, <1>2, <1>3, <1>4, <1>6, GotoStep
<1>7. QED BY <1>5, <1>6

LEMMA AbortOtherSerial ==
  ASSUME LockInv, LockInv', HistoryTyped, EpochInv, NEW t \in Thread, AbortOther(t)
  PROVE  EpochInv'
<1> DEFINE q == tx[t]
           other == q.ptr[1]
           r == [q EXCEPT !.pc = "write_cas", !.ptr = NULL]
           Told(x) == [x EXCEPT !.aborted_externally = TRUE]
<1>1. q \in State /\ q.pc = "abort_other"
      /\ UNCHANGED <<read_lock, memory, commit_ts, history, seen>>
  BY ThreadFacts DEF AbortOther, At, clocks, ghosts
<1>2. tx' = [[tx EXCEPT ![t] = r] EXCEPT ![other] = Told(@)]
  BY Zenon DEF AbortOther
<1>3. /\ r.pc = "write_cas" /\ r.read_log = q.read_log /\ r.write_log = q.write_log
      /\ r.valid_ts = q.valid_ts
  <2> HIDE DEF q
  <2>1. QED BY <1>1, SMT DEF State
<1>4. r \in State
  <2>1. NULL \in Ptr \cup {NULL}
    OBVIOUS
  <2> HIDE DEF q
  <2>2. QED BY <1>1, <2>1 DEF State, PC
<1>5. ASSUME NEW x \in State PROVE Untouched(x, Told(x))
  BY SMT DEF State, Untouched, Continues
<1> HIDE DEF r, Told, other
<1>6. ASSUME NEW u \in Thread
      PROVE  tx'[u] \in {[tx EXCEPT ![t] = r][u], Told([tx EXCEPT ![t] = r][u])}
  <2>1. [tx EXCEPT ![t] = r] \in [Thread -> State]
    BY <1>4 DEF LockInv, TypeOK
  <2>2. QED BY <1>2, <2>1
<1>7. Only(t)
  <2>1. ASSUME NEW u \in Thread \ {t} PROVE Untouched(tx[u], tx'[u])
    <3>1. tx[u] \in State /\ [tx EXCEPT ![t] = r][u] = tx[u]
      BY DEF LockInv, TypeOK
    <3>2. QED BY <1>5, <1>6, <3>1 DEF Untouched, Continues
  <2>2. QED BY <1>1, <2>1 DEF Only
<1>8. /\ tx'[t].pc = "write_cas" /\ tx'[t].read_log = q.read_log
      /\ tx'[t].write_log = q.write_log /\ tx'[t].valid_ts = q.valid_ts
  <2>1. [tx EXCEPT ![t] = r][t] = r
    BY DEF LockInv, TypeOK
  <2>2. Untouched(r, Told(r))
    BY <1>4, <1>5
  <2>3. QED BY <1>3, <1>6, <2>1, <2>2 DEF Untouched, Continues
<1>9. AccessFits(t)
  BY <1>1, <1>8, SameFit DEF AccessFits
<1>10. Reading(t)'
  BY <1>8, NotReading
<1>11. QED BY <1>1, <1>7, <1>9, <1>10, AccessStep

LEMMA WriteCasSerial ==
  ASSUME LockInv, LockInv', HistoryTyped, EpochInv, NEW t \in Thread, WriteCas(t)
  PROVE  EpochInv'
<1> DEFINE q == tx[t]
           s == StripeOfOp(t)
           log == Append(q.write_log, EntryFor(s))
           r1 == [q EXCEPT !.write_log = log, !.pc = "write_version"]
           r2 == [q EXCEPT !.pc = "write_reload"]
<1>1. q \in State /\ q.pc = "write_cas" /\ s \in Stripe
      /\ UNCHANGED <<read_lock, memory, commit_ts, history, seen>>
  BY ThreadFacts, Accessing DEF WriteCas, At, clocks, ghosts
<1>2. CASE write_lock[s] # NULL
  <2>1. Become(t, r2)
    BY <1>2 DEF WriteCas, Goto
  <2>2. /\ r2.pc = "write_reload" /\ r2.read_log = q.read_log /\ r2.write_log = q.write_log
        /\ r2.valid_ts = q.valid_ts
    <3> HIDE DEF q
    <3>1. QED BY <1>1, SMT DEF State
  <2> HIDE DEF r2
  <2>3. EntriesFit(q, r2)
    BY <1>1, <2>2, SameFit
  <2>4. QED BY <1>1, <2>1, <2>2, <2>3, GotoStep
<1>3. CASE write_lock[s] = NULL
  <2>1. Become(t, r1)
    BY <1>3 DEF WriteCas, TakesLock
  <2>2. /\ r1.pc = "write_version" /\ r1.read_log = q.read_log /\ r1.write_log = log
        /\ r1.valid_ts = q.valid_ts
    <3> HIDE DEF q, log
    <3>1. QED BY <1>1, SMT DEF State
  <2>3. EntryFor(s) \in Entry /\ EntryFor(s).old_version = 0
    BY <1>1 DEF EntryFor, Entry
  <2>4. q.write_log \in Seq(Entry)
    BY <1>1 DEF State
  <2> HIDE DEF q, s, r1
  <2>5. /\ Len(log) = Len(q.write_log) + 1 /\ log[Len(q.write_log) + 1] = EntryFor(s)
        /\ \A n \in 1 .. Len(q.write_log) : log[n] = q.write_log[n]
    BY <2>3, <2>4, AppendProperties
  <2>6. Len(q.write_log) \in Nat
    BY <2>4
  <2> HIDE DEF log
  <2>7. EntriesFit(q, r1)
    BY <2>2, <2>3, <2>5, <2>6 DEF EntriesFit
  <2>8. QED BY <1>1, <2>1, <2>2, <2>7, GotoStep DEF q
<1>4. QED BY <1>2, <1>3

LEMMA WriteWordSerial ==
  ASSUME LockInv, LockInv', HistoryTyped, EpochInv, NEW t \in Thread, WriteWord(t)
  PROVE  EpochInv'
<1> DEFINE q == tx[t]
           s == StripeOfOp(t)
           e == write_lock[s]
           r1 == [q EXCEPT !.pc = IF e = NULL THEN "write_cas" ELSE "write_locked"]
<1>1. q \in State /\ q.pc = "run"
      /\ UNCHANGED <<read_lock, memory, commit_ts, history, seen>>
  BY ThreadFacts DEF WriteWord, Doing, At, clocks, ghosts
<1>2. s \in Stripe
  BY <1>1, Beginning DEF WriteWord, Doing
<1>3. CASE ~ LockedByMe(t, e)
  <2>1. Become(t, r1)
    BY <1>3 DEF WriteWord, Goto
  <2>2. /\ r1.pc \in {"write_cas", "write_locked"} /\ r1.read_log = q.read_log
        /\ r1.write_log = q.write_log /\ r1.valid_ts = q.valid_ts
    <3> HIDE DEF q, e
    <3>1. QED BY <1>1, SMT DEF State
  <2> HIDE DEF r1
  <2>3. EntriesFit(q, r1)
    BY <1>1, <2>2, SameFit
  <2>4. QED BY <1>1, <2>1, <2>2, <2>3, GotoStep
<1>4. CASE LockedByMe(t, e)
  <2> DEFINE n == e[2]
             log == q.write_log
             w == Inserted(t, log[n].words)
             new == [log EXCEPT ![n].words = w]
             p == [q EXCEPT !.write_log = new]
  <2>1. Become(t, NextOp([q EXCEPT !.write_log[n].words = Inserted(t, @)]))
    BY <1>4 DEF WriteWord
  <2>2. [q EXCEPT !.write_log[n].words = Inserted(t, @)] = p
    <3>1. [log EXCEPT ![n].words = Inserted(t, @)] = new
      BY Zenon
    <3> HIDE DEF q, n, w, new
    <3>2. QED BY <3>1, Zenon
  <2>3. n \in 1 .. Len(log)
    BY <1>2, <1>4, LockedEntry
  <2>4. log \in Seq(Entry) /\ Len(log) \in Nat /\ \A m \in 1 .. Len(log) : log[m] \in Entry
    BY <1>1, EntryTyped DEF State
  <2>5. /\ Len(new) = Len(log)
        /\ \A m \in 1 .. Len(log) : /\ new[m].stripe = log[m].stripe
                                    /\ new[m].old_version = log[m].old_version
    <3> HIDE DEF log, n, w
    <3>1. [log[n] EXCEPT !.words = w].stripe = log[n].stripe
          /\ [log[n] EXCEPT !.words = w].old_version = log[n].old_version
      BY <2>3, <2>4, SMT DEF Entry
    <3>2. QED BY <2>3, <2>4, <3>1
  <2>6. /\ NextOp(p).pc = "run" /\ NextOp(p).read_log = q.read_log
        /\ NextOp(p).write_log = new /\ NextOp(p).valid_ts = q.valid_ts
    <3> HIDE DEF q, new
    <3>1. QED BY <1>1, SMT DEF NextOp, State
  <2> HIDE DEF p, new, n
  <2>7. EntriesFit(q, NextOp(p))
    BY <2>4, <2>5, <2>6 DEF EntriesFit
  <2>8. QED BY <1>1, <2>1, <2>2, <2>6, <2>7, GotoStep
<1>5. QED BY <1>3, <1>4

----------------------------------------------------------------------------
(* The steps of a read, and the new time when the snapshot is extended *)

\* What t may rely on does not depend on t.
LEMMA AwaySame ==
  ASSUME NEW t \in Thread, StepAway(t), NEW T
  PROVE  /\ \A s, v : Clean(s, v, T, t) => Clean(s, v, T, t)'
         /\ \A x : There(x, T, t) => There(x, T, t)'
<1>1. \A u \in Thread \ {t} : /\ tx'[u].pc = tx[u].pc /\ tx'[u].ts = tx[u].ts
                              /\ tx'[u].write_log = tx[u].write_log
  BY DEF StepAway, Only, Untouched, Continues
<1>2. ASSUME NEW s, Closed(s, T, t) PROVE Closed(s, T, t)'
  <2>1. SUFFICES ASSUME NEW u \in Thread \ {t}, Pending(u)', s \in StripesOf(u)' PROVE tx'[u].ts > T
    BY DEF Closed
  <2>2. Pending(u) /\ s \in StripesOf(u)
    BY <1>1, <2>1 DEF Pending, StripesOf
  <2>3. QED BY <1>1, <1>2, <2>2 DEF Closed
<1>3. history' = history
  BY DEF StepAway
<1>4. ASSUME NEW s, NEW v, Clean(s, v, T, t) PROVE Clean(s, v, T, t)'
  BY <1>2, <1>3, <1>4 DEF Clean
<1>5. ASSUME NEW x, There(x, T, t) PROVE There(x, T, t)'
  BY <1>2, <1>3, <1>5 DEF There
<1>6. QED BY <1>4, <1>5

\* The transaction goes on with what it has read until T.
LEMMA ReturnStep ==
  ASSUME LockInv, LockInv', HistoryTyped, EpochInv, NEW t \in Thread, StepAway(t),
         HeldVersions(t)', ReadVersions(t)', tx'[t].pc = "run",
         NEW T \in Nat, T <= commit_ts, tx'[t].valid_ts <= T,
         \A x \in seen'[t] : /\ There(x, T, t)
                             /\ \E v \in Nat : Claim(t, tx'[t], StripeOf[x.addr], v),
         \A s \in Stripe, v \in Nat : Claim(t, tx'[t], s, v) => Clean(s, v, T, t)
  PROVE  EpochInv'
<1>1. commit_ts' = commit_ts
  BY DEF StepAway
<1>2. /\ \A x \in seen'[t] : There(x, T, t)'
      /\ \A s \in Stripe, v \in Nat : Claim(t, tx'[t], s, v) => Clean(s, v, T, t)'
  BY AwaySame
<1>3. ~ Pending(t)' /\ tx'[t].pc \notin {"extend", "extended"} /\ tx'[t].pc \notin BusyPc
  BY DEF Pending, BusyPc
<1>4. SnapAt(t, T)'
  BY <1>1, <1>2, <1>3 DEF SnapAt
<1>5. Snapshot(t)'
  BY <1>4 DEF Snapshot
<1>6. Unread(t)'
  BY DEF Unread
<1>7. Knows(t)'
  BY <1>3, <1>5, <1>6, NotBusy DEF Knows
<1>8. QED BY <1>7, AwayStep

\* What the newest version of a stripe is clean at.
LEMMA NewestClean ==
  ASSUME LockInv, HistoryTyped, EpochInv, NEW s \in Stripe, NEW t, NEW T \in Nat,
         Closed(s, T, t), Version[s] <= T
  PROVE  /\ Clean(s, Version[s], T, t)
         /\ \A a \in Addr : StripeOf[a] = s =>
              ValueAt(history.commits, a, T) = ValueIn(a, history.commits)
<1>1. \A c \in history.commits : Wrote(c, s) => c.ts <= Version[s]
  BY DEF EpochInv, Versions
<1>2. Clean(s, Version[s], T, t)
  BY <1>1 DEF Clean
<1>3. QED
  <2>1. SUFFICES ASSUME NEW a \in Addr, StripeOf[a] = s
                 PROVE  ValueAt(history.commits, a, T) = ValueIn(a, history.commits)
    BY <1>2
  <2>2. \A c \in history.commits : c.words[a] # NULL => c.ts <= T
    <3>1. SUFFICES ASSUME NEW c \in history.commits, c.words[a] # NULL PROVE c.ts <= T
      OBVIOUS
    <3>2. c.ts <= Version[s]
      BY <1>1, <2>1, <3>1 DEF Wrote
    <3>3. c.ts \in Nat /\ Version[s] \in Nat
      BY <3>1 DEF EpochInv, Versions, HistoryTyped, Commit
    <3>4. QED BY <3>2, <3>3
  <2>3. {c \in CommitsTo(history.commits, T) : c.words[a] # NULL} = {c \in history.commits : c.words[a] # NULL}
    BY <2>2 DEF CommitsTo
  <2>4. QED BY <2>3, ValueSame, Zenon DEF ValueAt

LEMMA StartTsSerial ==
  ASSUME LockInv, LockInv', HistoryTyped, EpochInv, NEW t \in Thread, StartTs(t)
  PROVE  EpochInv'
<1> DEFINE q == tx[t]
           r == [q EXCEPT !.pc = "run", !.valid_ts = commit_ts,
                  !.locations_accessed = 0, !.aborted_externally = FALSE, !.rolled_back = FALSE]
<1>1. /\ q \in State /\ Local(t, q) /\ q.pc = "start_ts" /\ Become(t, r) /\ seen' = seen
      /\ UNCHANGED <<read_lock, memory, commit_ts, history>>
  BY ThreadFacts DEF StartTs, At, ghosts
<1>2. r.pc = "run" /\ r.valid_ts = commit_ts /\ r.read_log = q.read_log /\ r.write_log = q.write_log
  <2> HIDE DEF q
  <2>1. QED BY <1>1, SMT DEF State
<1> HIDE DEF r
<1>3. Only(t) /\ tx'[t] = r
  BY <1>1, BecomeOnly
<1>4. q.write_log = <<>> /\ q.read_log = <<>> /\ Len(q.write_log) = 0 /\ Len(q.read_log) = 0
  <2>1. q.write_log = <<>> /\ q.read_log = <<>>
    BY <1>1 DEF Local, LoggedAs, HasLocksIn
  <2>2. QED BY <1>1, <2>1, EntryTyped
<1>5. ReadLockedIn(q) = {} /\ ReadLockedIn(r) = {} /\ HeldIn(r) = {}
  BY <1>2, <1>4 DEF ReadLockedIn, HeldIn
<1>6. StepAway(t)
  BY <1>1, <1>2, <1>3, <1>5 DEF StepAway, Away
<1>7. seen'[t] = {}
  BY <1>1 DEF EpochInv, Knows, Unread
<1>8. HeldVersions(t)' /\ ReadVersions(t)'
  BY <1>2, <1>3, <1>4, <1>5 DEF HeldVersions, ReadVersions
<1>9. commit_ts \in Nat
  BY DEF LockInv, TypeOK
<1>10. \A s \in Stripe, v \in Nat : ~ Claim(t, tx'[t], s, v)
  BY <1>2, <1>3, <1>4 DEF Claim, ReadClaim, LockClaim
<1>11. ASSUME NEW T \in Nat, T = commit_ts PROVE EpochInv'
  BY <1>2, <1>3, <1>6, <1>7, <1>8, <1>10, <1>11, ReturnStep
<1>12. QED BY <1>9, <1>11

LEMMA ReadVersionSerial ==
  ASSUME LockInv, LockInv', HistoryTyped, EpochInv, NEW t \in Thread, ReadVersion(t)
  PROVE  EpochInv'
<1> DEFINE q == tx[t]
           s == StripeOfOp(t)
           v == read_lock[s]
           r == [q EXCEPT !.pc = "read_value", !.version = v]
<1>1. /\ q \in State /\ q.pc = "read_version" /\ Become(t, r) /\ seen' = seen /\ v # 0
      /\ UNCHANGED <<read_lock, memory, commit_ts, history>>
  BY ThreadFacts DEF ReadVersion, At, clocks, ghosts, READ_LOCK_SET
<1>2. s \in Stripe /\ v \in Nat
  BY <1>1, Accessing
<1>3. /\ r.pc = "read_value" /\ r.version = v /\ r.valid_ts = q.valid_ts /\ r.ip = q.ip
      /\ r.done = q.done /\ r.read_log = q.read_log /\ r.write_log = q.write_log
  <2> HIDE DEF q, v
  <2>1. QED BY <1>1, SMT DEF State
<1> HIDE DEF r
<1>4. Only(t) /\ tx'[t] = r
  BY <1>1, BecomeOnly
<1>5. AccessFits(t)
  BY <1>1, <1>3, <1>4, SameFit DEF AccessFits
<1>6. Version[s] = v /\ s \in Settled
  BY <1>1, <1>2, NotLocked DEF EpochInv
<1>7. Version'[s] = v /\ s \in Settled'
  BY <1>1, <1>2, <1>4, <1>5, <1>6, AccessAway DEF Effects
<1>8. StripeOfOp(t)' = s
  BY <1>3, <1>4, SameOp
<1>9. Reading(t)'
  BY <1>2, <1>3, <1>4, <1>7, <1>8 DEF Reading
<1>10. QED BY <1>1, <1>4, <1>5, <1>9, AccessStep

LEMMA ReadValueSerial ==
  ASSUME LockInv, LockInv', HistoryTyped, EpochInv, NEW t \in Thread, ReadValue(t)
  PROVE  EpochInv'
<1> DEFINE q == tx[t]
           s == StripeOfOp(t)
           v == memory[Op(t).addr]
           r == [q EXCEPT !.pc = "read_check", !.value = v]
<1>1. /\ q \in State /\ q.pc = "read_value" /\ Become(t, r) /\ seen' = seen
      /\ UNCHANGED <<read_lock, memory, commit_ts, history>>
  BY ThreadFacts DEF ReadValue, At, clocks, ghosts
<1>2. s \in Stripe /\ Op(t).addr \in Addr /\ s = StripeOf[Op(t).addr]
  BY <1>1, Accessing DEF StripeOfOp
<1>3. /\ r.pc = "read_check" /\ r.version = q.version /\ r.value = v /\ r.valid_ts = q.valid_ts
      /\ r.ip = q.ip
      /\ r.done = q.done /\ r.read_log = q.read_log /\ r.write_log = q.write_log
  <2> HIDE DEF q, v
  <2>1. QED BY <1>1, SMT DEF State
<1> HIDE DEF r
<1>4. Only(t) /\ tx'[t] = r
  BY <1>1, BecomeOnly
<1>5. AccessFits(t)
  BY <1>1, <1>3, <1>4, SameFit DEF AccessFits
<1>6. /\ q.version <= Version[s]
      /\ q.version = Version[s] => v = ValueIn(Op(t).addr, history.commits)
  BY <1>1, <1>2, SettledMemory DEF EpochInv, Knows, Reading
<1>7. Version'[s] = Version[s]
  BY <1>1, <1>2, <1>4, <1>5, AccessAway
<1>8. Op(t)' = Op(t) /\ StripeOfOp(t)' = s
  BY <1>3, <1>4, SameOp
<1>9. Reading(t)'
  BY <1>1, <1>3, <1>4, <1>6, <1>7, <1>8 DEF Reading
<1>10. QED BY <1>1, <1>4, <1>5, <1>9, AccessStep

\* What t holds during an extension, before the step and after it.
LEMMA ExtendAway ==
  ASSUME LockInv, LockInv', HistoryTyped, EpochInv, NEW t \in Thread, NEW r, Become(t, r),
         UNCHANGED <<read_lock, memory, commit_ts, history, seen>>,
         tx[t].pc \in ExtendPc, r.pc \in ExtendPc,
         r.read_log = tx[t].read_log, r.write_log = tx[t].write_log,
         r.valid_ts = tx[t].valid_ts, r.ip = tx[t].ip, r.done = tx[t].done,
         r.ts = commit_ts \/ (tx[t].pc # "extend_ts" /\ r.ts = tx[t].ts), r.pc # "extend_ts"
  PROVE  /\ Only(t) /\ tx'[t] = r /\ StepAway(t) /\ SnapFits(t) /\ HeldFits(t)
         /\ Effects(t) /\ \A s \in Stripe : Version'[s] = Version[s]
         /\ Op(t)' = Op(t) /\ StripeOfOp(t)' = StripeOfOp(t)
<1> DEFINE q == tx[t]
<1>1. q \in State /\ Only(t) /\ tx'[t] = r
  BY ThreadFacts, BecomeOnly
<1>2. ReadLockedIn(q) = {} /\ ReadLockedIn(r) = {} /\ HeldIn(r) = HeldIn(q)
  BY DEF ReadLockedIn, HeldIn, FirstOf
<1>3. StepAway(t)
  BY <1>1, <1>2 DEF StepAway, Away
<1>4. HeldFits(t)
  BY <1>1, <1>2 DEF HeldFits, Pending
<1>5. /\ Op(t)' = Op(t) /\ StripeOfOp(t)' = StripeOfOp(t)
      /\ OpOf(t, tx'[t]) = Op(t) /\ OpOf(t, tx[t]) = Op(t)
  BY <1>1, SameOp
<1>6. ReadingNow(t, tx'[t]) = ReadingNow(t, tx[t])
  BY <1>1, <1>5 DEF ReadingNow
<1>7. \A s, v : Claim(t, tx'[t], s, v) <=> Claim(t, tx[t], s, v)
  BY <1>1, <1>6, ClaimSame
<1>8. SnapFits(t)
  BY <1>1, <1>7 DEF SnapFits, Snapped, Pending
<1>9. QED BY <1>1, <1>3, <1>4, <1>5, <1>8, AwayCalm, CalmEffects

LEMMA ExtendTsSerial ==
  ASSUME LockInv, LockInv', HistoryTyped, EpochInv, NEW t \in Thread, ExtendTs(t)
  PROVE  EpochInv'
<1> DEFINE q == tx[t]
           r == [q EXCEPT !.pc = IF q.read_log = <<>> THEN "extended" ELSE "extend",
                          !.ts = commit_ts, !.i = 1]
<1>1. /\ q \in State /\ Local(t, q) /\ q.pc = "extend_ts" /\ Become(t, r)
      /\ UNCHANGED <<read_lock, memory, commit_ts, history, seen>>
  BY ThreadFacts DEF ExtendTs, At, clocks, ghosts
<1>2. /\ IF q.read_log = <<>> THEN r.pc = "extended" ELSE r.pc = "extend"
      /\ r.ts = commit_ts /\ r.i = 1 /\ r.valid_ts = q.valid_ts /\ r.ip = q.ip
      /\ r.version = q.version /\ r.value = q.value
      /\ r.done = q.done /\ r.read_log = q.read_log /\ r.write_log = q.write_log
  <2> HIDE DEF q
  <2>1. QED BY <1>1, SMT DEF State
<1> HIDE DEF r
<1>3. /\ Only(t) /\ tx'[t] = r /\ StepAway(t) /\ SnapFits(t) /\ HeldFits(t)
      /\ \A s \in Stripe : Version'[s] = Version[s]
      /\ Op(t)' = Op(t) /\ StripeOfOp(t)' = StripeOfOp(t)
  BY <1>1, <1>2, ExtendAway
<1>4. StripeOfOp(t) \in Stripe /\ q.version \in Nat /\ commit_ts \in Nat
  BY <1>1, Accessing DEF State, LockInv, TypeOK
<1>5. q.version <= commit_ts
  BY <1>1, <1>4 DEF EpochInv, Versions, Knows, Extending
<1>6. q.read_log # <<>> \/ Len(q.read_log) = 0
  BY <1>1, EntryTyped
<1>7. Extending(t)'
  <2>1. Extending(t)
    BY DEF EpochInv, Knows
  <2>2. history' = history /\ commit_ts' = commit_ts
    BY <1>1
  <2>3. \A n \in 1 .. Len(r.read_log) : ~ (r.pc = "extended" \/ n < r.i)
    BY <1>2, <1>6
  <2>4. QED BY <1>1, <1>2, <1>3, <1>4, <1>5, <2>1, <2>2, <2>3 DEF Extending
<1>8. Reading(t)'
  BY <1>2, <1>3, NotReading
<1>9. tx'[t].pc \in Snapped
  BY <1>2, <1>3 DEF Snapped
<1>10. QED BY <1>2, <1>3, <1>7, <1>8, <1>9, GoesOn

LEMMA ValidateSerial ==
  ASSUME LockInv, LockInv', HistoryTyped, EpochInv, NEW t \in Thread, Validate(t)
  PROVE  EpochInv'
<1> DEFINE q == tx[t]
           e == q.read_log[q.i]
           r1 == [q EXCEPT !.pc = "restart", !.i = 1]
           r2 == Advance(q, Len(q.read_log), "extended")
<1>1. /\ q \in State /\ Local(t, q) /\ q.pc = "extend"
      /\ UNCHANGED <<read_lock, memory, commit_ts, history, seen>>
  BY ThreadFacts DEF Validate, At, clocks, ghosts
<1>2. CASE read_lock[e.stripe] # e.version
  <2>1. Become(t, r1)
    BY <1>2 DEF Validate
  <2>2. /\ r1.pc = "restart" /\ r1.i = 1 /\ r1.rolled_back = q.rolled_back
        /\ r1.read_log = q.read_log /\ r1.write_log = q.write_log
    <3> HIDE DEF q
    <3>1. QED BY <1>1, SMT DEF State
  <2> HIDE DEF r1
  <2>3. QED BY <1>1, <2>1, <2>2, LeaveStep
<1>3. CASE read_lock[e.stripe] = e.version
  <2>1. Become(t, r2)
    BY <1>3 DEF Validate
  <2>2. q.i \in 1 .. Len(q.read_log) /\ Len(q.read_log) \in Nat
    BY <1>1, EntryTyped DEF Local, PlacedAs
  <2> DEFINE r == r2
  <2>3. /\ r.write_log = q.write_log /\ r.read_log = q.read_log /\ r.ip = q.ip
        /\ r.done = q.done /\ r.rolled_back = q.rolled_back
        /\ \/ r.pc = "extend" /\ r.i = q.i + 1 /\ q.i < Len(q.read_log)
           \/ r.pc = "extended" /\ r.i = 1 /\ q.i = Len(q.read_log)
    <3> HIDE DEF q
    <3>1. QED BY <1>1, <2>2, AdvanceFields DEF PC
  <2>4. r.ts = q.ts /\ r.version = q.version /\ r.value = q.value /\ r.valid_ts = q.valid_ts
    <3> HIDE DEF q
    <3>1. QED BY <1>1, SMT DEF State, Advance
  <2> HIDE DEF r2, r
  <2>5. /\ Only(t) /\ tx'[t] = r /\ StepAway(t) /\ SnapFits(t) /\ HeldFits(t)
        /\ \A s \in Stripe : Version'[s] = Version[s]
        /\ Op(t)' = Op(t) /\ StripeOfOp(t)' = StripeOfOp(t)
    <3>1. Become(t, r)
      BY <2>1 DEF r
    <3>2. QED BY <1>1, <2>3, <2>4, <3>1, ExtendAway
  <2>6. /\ e.stripe \in Stripe /\ e.version \in Nat /\ e.version >= 1
        /\ q.ts \in Nat /\ commit_ts \in Nat
    <3>1. e.version >= 1
      BY <2>2 DEF EpochInv, Knows, ReadVersions
    <3>2. QED BY <1>1, <2>2, <3>1, EntryTyped DEF State, LockInv, TypeOK
  <2>7. Extending(t) /\ Snapshot(t)
    BY DEF EpochInv, Knows
  <2>8. e.version <= q.ts
    <3>1. CASE ReadingNow(t, q) /\ q.i = Len(q.read_log)
      <4>1. Op(t).kind = "read"
        BY <3>1, ThreadFacts DEF ReadingNow
      <4>2. QED BY <1>1, <2>7, <3>1, <4>1 DEF Extending
    <3>2. CASE ~ (ReadingNow(t, q) /\ q.i = Len(q.read_log))
      <4>1. ReadClaim(t, q, e.stripe, e.version)
        BY <2>2, <3>2 DEF ReadClaim
      <4>2. PICK T \in Nat : SnapAt(t, T)
        BY <2>7 DEF Snapshot
      <4>3. Clean(e.stripe, e.version, T, t) /\ T <= q.ts
        BY <1>1, <2>6, <4>1, <4>2 DEF SnapAt, Claim, Snapped
      <4>4. QED BY <2>6, <4>3 DEF Clean
    <3>3. QED BY <3>1, <3>2
  <2>9. Clean(e.stripe, e.version, q.ts, t)
    <3>1. Version[e.stripe] = e.version /\ Closed(e.stripe, q.ts, t)
      BY <1>3, <2>6, NotLocked DEF EpochInv, Closed
    <3>2. QED BY <2>6, <2>8, <3>1, NewestClean
  <2>10. \A n \in 1 .. Len(q.read_log) : r.pc = "extended" \/ n < r.i =>
           Clean(q.read_log[n].stripe, q.read_log[n].version, q.ts, t)
    <3>1. \A n \in 1 .. Len(q.read_log) : n < q.i =>
            Clean(q.read_log[n].stripe, q.read_log[n].version, q.ts, t)
      BY <1>1, <2>7 DEF Extending
    <3>2. \A n \in 1 .. Len(q.read_log) : r.pc = "extended" \/ n < r.i => n < q.i \/ n = q.i
      BY <2>2, <2>3
    <3>3. QED BY <2>9, <3>1, <3>2
  <2>11. \A n \in 1 .. Len(q.read_log) : r.pc = "extended" \/ n < r.i =>
           Clean(tx[t].read_log[n].stripe, tx[t].read_log[n].version, tx[t].ts, t)'
    <3>1. ASSUME NEW T, T = q.ts, NEW log, log = q.read_log, NEW n \in 1 .. Len(log),
                 Clean(log[n].stripe, log[n].version, T, t)
          PROVE  Clean(log[n].stripe, log[n].version, T, t)'
      BY <2>5, <3>1, AwaySame
    <3>2. QED BY <2>3, <2>4, <2>5, <2>10, <3>1
  <2>12. Extending(t)'
    <3>1. StripeOfOp(t) \in Stripe
      BY <1>1, Accessing
    <3>2. history' = history /\ commit_ts' = commit_ts
      BY <1>1
    <3>3. QED BY <1>1, <2>3, <2>4, <2>5, <2>7, <2>11, <3>1, <3>2 DEF Extending
  <2>13. Reading(t)'
    BY <2>3, <2>5, NotReading
  <2>14. tx'[t].pc \in Snapped
    BY <2>3, <2>5 DEF Snapped
  <2>15. QED BY <2>3, <2>5, <2>12, <2>13, <2>14, GoesOn
<1>4. QED BY <1>2, <1>3

LEMMA TruncatedLess == ASSUME NEW ts \in Nat PROVE Truncated(ts) \in Nat /\ Truncated(ts) <= ts
<1>1. UnsignedSize \in Nat \ {0}
  BY Constants
<1>2. CASE ts < UnsignedSize
  <2>1. ts % UnsignedSize = ts
    BY <1>1, <1>2
  <2>2. QED BY <2>1 DEF Truncated
<1>3. CASE ts >= UnsignedSize
  <2>1. ts % UnsignedSize \in Nat /\ ts % UnsignedSize < UnsignedSize
    BY <1>1
  <2>2. QED BY <1>1, <1>3, <2>1 DEF Truncated
<1>4. QED BY <1>1, <1>2, <1>3

LEMMA LogAppended ==
  ASSUME NEW q \in State, NEW e \in ReadEntry, NEW log, log = Append(q.read_log, e)
  PROVE  /\ Len(log) = Len(q.read_log) + 1 /\ Len(q.read_log) \in Nat
         /\ log[Len(log)] = e
         /\ \A n \in 1 .. Len(q.read_log) : log[n] = q.read_log[n]
<1>1. q.read_log \in Seq(ReadEntry) /\ Len(q.read_log) \in Nat
  BY EntryTyped DEF State
<1>2. QED BY <1>1, AppendProperties

\* The first conditions of ReadCheck: the version is read again, or the memory.
LEMMA ReadAgain ==
  ASSUME LockInv, LockInv', HistoryTyped, EpochInv, NEW t \in Thread, ReadCheck(t),
         read_lock[StripeOfOp(t)] # tx[t].version
  PROVE  EpochInv'
<1> DEFINE q == tx[t]
           s == StripeOfOp(t)
           again == read_lock[s]
           r1 == [q EXCEPT !.pc = "read_version"]
           r2 == [q EXCEPT !.pc = "read_value", !.version = again]
<1>1. /\ q \in State /\ Local(t, q) /\ q.pc = "read_check"
      /\ UNCHANGED <<read_lock, memory, commit_ts, history>>
  BY ThreadFacts DEF ReadCheck, At, clocks
<1>2. s \in Stripe /\ again \in Nat
  BY <1>1, Accessing
<1>3. CASE again = 0
  <2>1. Become(t, r1) /\ seen' = seen
    BY <1>3 DEF ReadCheck, Goto, READ_LOCK_SET
  <2>2. /\ r1.pc = "read_version" /\ r1.valid_ts = q.valid_ts
        /\ r1.read_log = q.read_log /\ r1.write_log = q.write_log
    <3> HIDE DEF q
    <3>1. QED BY <1>1, SMT DEF State
  <2> HIDE DEF r1
  <2>3. EntriesFit(q, r1)
    BY <1>1, <2>2, SameFit
  <2>4. QED BY <1>1, <2>1, <2>2, <2>3, GotoStep
<1>4. CASE again # 0
  <2>1. Become(t, r2) /\ seen' = seen
    BY <1>4 DEF ReadCheck, READ_LOCK_SET
  <2>2. /\ r2.pc = "read_value" /\ r2.version = again /\ r2.valid_ts = q.valid_ts
        /\ r2.ip = q.ip /\ r2.done = q.done
        /\ r2.read_log = q.read_log /\ r2.write_log = q.write_log
    <3> HIDE DEF q, again
    <3>1. QED BY <1>1, SMT DEF State
  <2> HIDE DEF r2
  <2>3. Only(t) /\ tx'[t] = r2
    BY <2>1, BecomeOnly
  <2>4. AccessFits(t)
    BY <1>1, <2>2, <2>3, SameFit DEF AccessFits
  <2>5. Version[s] = again /\ s \in Settled
    BY <1>2, <1>4, NotLocked DEF EpochInv
  <2>6. Version'[s] = again /\ s \in Settled'
    BY <1>1, <1>2, <2>1, <2>3, <2>4, <2>5, AccessAway DEF Effects
  <2>7. StripeOfOp(t)' = s
    BY <2>2, <2>3, SameOp
  <2>8. Reading(t)'
    BY <1>2, <2>2, <2>3, <2>6, <2>7 DEF Reading
  <2>9. QED BY <1>1, <2>1, <2>3, <2>4, <2>8, AccessStep
<1>5. QED BY <1>3, <1>4

\* The read is logged: t holds what it held, and relies on what it did and on
\* the last entry.
LEMMA ReadLogged ==
  ASSUME LockInv, LockInv', HistoryTyped, EpochInv, NEW t \in Thread, NEW e \in ReadEntry,
         NEW r, Become(t, r), \A u \in Thread \ {t} : seen'[u] = seen[u],
         UNCHANGED <<read_lock, memory, commit_ts, history>>,
         tx[t].pc = "read_check", r.pc \in {"extend_ts", "run"}, e.version >= 1,
         r.read_log = Append(tx[t].read_log, e), r.write_log = tx[t].write_log
  PROVE  /\ Only(t) /\ tx'[t] = r /\ StepAway(t) /\ HeldFits(t) /\ HeldVersions(t)'
         /\ ReadVersions(t)'
         /\ Effects(t) /\ \A s \in Stripe : Version'[s] = Version[s]
         /\ \A s, v : Claim(t, tx[t], s, v) => Claim(t, r, s, v)
         /\ \A s, v : Claim(t, r, s, v) =>
              \/ Claim(t, tx[t], s, v)
              \/ s = e.stripe /\ v = e.version /\ ~ ReadingNow(t, r)
         /\ ~ ReadingNow(t, r) => Claim(t, r, e.stripe, e.version)
<1> DEFINE q == tx[t]
           k == Len(q.read_log)
<1>1. q \in State /\ Only(t) /\ tx'[t] = r
  BY ThreadFacts, BecomeOnly
<1>2. ReadLockedIn(q) = {} /\ ReadLockedIn(r) = {} /\ HeldIn(r) = HeldIn(q)
  BY DEF ReadLockedIn, HeldIn, FirstOf
<1>3. StepAway(t)
  BY <1>1, <1>2 DEF StepAway, Away
<1>4. HeldFits(t)
  BY <1>1, <1>2 DEF HeldFits, Pending
<1>5. Effects(t) /\ \A s \in Stripe : Version'[s] = Version[s]
  BY <1>3, AwayCalm, CalmEffects
<1>6. HeldVersions(t)'
  BY <1>4, <1>5, HeldKept DEF EpochInv, Knows
<1>7. /\ Len(r.read_log) = k + 1 /\ k \in Nat /\ r.read_log[k + 1] = e
      /\ \A n \in 1 .. k : r.read_log[n] = q.read_log[n]
  BY <1>1, LogAppended
<1>8. ReadVersions(t)'
  <2>1. \A n \in 1 .. k : q.read_log[n].version >= 1
    BY DEF EpochInv, Knows, ReadVersions
  <2>2. \A n \in 1 .. Len(r.read_log) : r.read_log[n].version >= 1
    BY <1>7, <2>1
  <2>3. QED BY <1>1, <2>2 DEF ReadVersions
<1>9. ~ ReadingNow(t, q)
  BY DEF ReadingNow
<1>10. \A n : ReadingNow(t, r) /\ n = k + 1 => ~ (n < Len(r.read_log))
  BY <1>7
<1> HIDE DEF k
<1>11. ASSUME NEW s, NEW v, Claim(t, q, s, v) PROVE Claim(t, r, s, v)
  <2>1. CASE ReadClaim(t, q, s, v)
    <3>1. PICK n \in 1 .. Len(q.read_log) : q.read_log[n].stripe = s /\ q.read_log[n].version = v
      BY <2>1 DEF ReadClaim
    <3>2. n \in 1 .. Len(r.read_log) /\ n < Len(r.read_log) /\ r.read_log[n] = q.read_log[n]
      BY <1>7, <3>1 DEF k
    <3>3. ReadClaim(t, r, s, v)
      BY <3>1, <3>2 DEF ReadClaim
    <3>4. QED BY <3>3 DEF Claim
  <2>2. QED BY <1>11, <2>1 DEF Claim, LockClaim
<1>12. ASSUME NEW s, NEW v, Claim(t, r, s, v)
       PROVE  \/ Claim(t, q, s, v)
              \/ s = e.stripe /\ v = e.version /\ ~ ReadingNow(t, r)
  <2>1. CASE ReadClaim(t, r, s, v)
    <3>1. PICK n \in 1 .. Len(r.read_log) :
            /\ r.read_log[n].stripe = s /\ r.read_log[n].version = v
            /\ ReadingNow(t, r) => n < Len(r.read_log)
      BY <2>1 DEF ReadClaim
    <3>2. CASE n = k + 1
      <4>1. r.read_log[n] = e
        BY <1>7, <3>2
      <4>2. QED BY <1>10, <3>1, <3>2, <4>1, Zenon
    <3>3. CASE n # k + 1
      <4>1. n \in 1 .. Len(q.read_log) /\ r.read_log[n] = q.read_log[n]
        BY <1>7, <3>1, <3>3 DEF k
      <4>2. ReadClaim(t, q, s, v)
        BY <1>9, <3>1, <4>1, Zenon DEF ReadClaim
      <4>3. QED BY <4>2 DEF Claim
    <3>4. QED BY <3>2, <3>3
  <2>2. QED BY <1>12, <2>1 DEF Claim, LockClaim
<1>13. ~ ReadingNow(t, r) => Claim(t, r, e.stripe, e.version)
  BY <1>7 DEF Claim, ReadClaim
<1>14. QED BY <1>1, <1>3, <1>4, <1>5, <1>6, <1>8, <1>11, <1>12, <1>13

LEMMA ReadCheckSerial ==
  ASSUME LockInv, LockInv', HistoryTyped, EpochInv, NEW t \in Thread, ReadCheck(t)
  PROVE  EpochInv'
<1> DEFINE q == tx[t]
           s == StripeOfOp(t)
           a == Op(t).addr
           again == read_lock[s]
           e == [stripe |-> s, version |-> again]
           logged == [q EXCEPT !.read_log = Append(@, e)]
           r1 == [logged EXCEPT !.pc = "extend_ts"]
           r2 == Returned(logged, logged.value)
<1>1. /\ q \in State /\ Local(t, q) /\ q.pc = "read_check" /\ Op(t).kind = "read"
      /\ UNCHANGED <<read_lock, memory, commit_ts, history>>
  BY ThreadFacts DEF ReadCheck, At, clocks, Local, PlacedAs
<1>2. /\ s \in Stripe /\ again \in Nat /\ q.version \in Nat /\ q.version >= 1
      /\ a \in Addr /\ s = StripeOf[a]
  BY <1>1, Accessing DEF State, StripeOfOp, Local, PlacedAs
<1>3. SUFFICES ASSUME again = q.version PROVE EpochInv'
  BY ReadAgain
<1>4. again >= 1 /\ e \in ReadEntry /\ e.stripe = s /\ e.version = again
  BY <1>2, <1>3 DEF ReadEntry
<1>5. /\ Version[s] = again /\ s \in Settled
      /\ \A T : Closed(s, T, t)
  BY <1>2, <1>4, NotLocked DEF EpochInv, Closed
<1>6. q.value = ValueIn(a, history.commits)
  BY <1>1, <1>3, <1>5 DEF EpochInv, Knows, Reading
<1>7. logged \in State /\ logged.read_log = Append(q.read_log, e) /\ logged.write_log = q.write_log
      /\ logged.version = q.version /\ logged.value = q.value /\ logged.valid_ts = q.valid_ts
      /\ logged.ip = q.ip /\ logged.done = q.done
  <2> HIDE DEF q, e
  <2>1. Append(q.read_log, e) \in Seq(ReadEntry)
    BY <1>1, <1>4, AppendProperties DEF State
  <2>2. logged \in State
    BY <1>1, <2>1 DEF State
  <2>3. QED BY <1>1, <2>2, SMT DEF State
<1>8. CASE ShouldExtend(t, again)
  <2>1. Become(t, r1) /\ seen' = seen
    BY <1>3, <1>4, <1>8 DEF ReadCheck, READ_LOCK_SET
  <2>2. /\ r1.pc = "extend_ts" /\ r1.read_log = Append(q.read_log, e) /\ r1.write_log = q.write_log
        /\ r1.version = q.version /\ r1.value = q.value /\ r1.valid_ts = q.valid_ts
        /\ r1.ip = q.ip /\ r1.done = q.done
    <3> HIDE DEF logged, q, e
    <3>1. QED BY <1>7, SMT DEF State
  <2> HIDE DEF r1, logged, e
  <2>3. /\ Only(t) /\ tx'[t] = r1 /\ StepAway(t) /\ HeldVersions(t)' /\ ReadVersions(t)'
        /\ Effects(t) /\ \A x \in Stripe : Version'[x] = Version[x]
        /\ \A x, v : Claim(t, q, x, v) => Claim(t, r1, x, v)
        /\ \A x, v : Claim(t, r1, x, v) => Claim(t, q, x, v) \/ ~ ReadingNow(t, r1)
    BY <1>1, <1>4, <2>1, <2>2, ReadLogged
  <2>4. /\ Op(t)' = Op(t) /\ StripeOfOp(t)' = s /\ OpOf(t, tx'[t]) = Op(t)
    BY <2>2, <2>3, SameOp
  <2>5. ReadingNow(t, r1)
    BY <1>1, <2>2, <2>3, <2>4 DEF ReadingNow
  <2>6. SnapFits(t)
    BY <1>1, <2>1, <2>2, <2>3, <2>5 DEF SnapFits, Pending, Snapped
  <2>7. Snapshot(t)'
    BY <2>3, <2>6, SnapKept DEF EpochInv, Knows
  <2>8. Extending(t)'
    <3>1. r1.read_log[Len(r1.read_log)] = e
      BY <1>1, <1>4, <2>2, LogAppended
    <3>2. ValueAt(history.commits, a, q.version) = q.value
      BY <1>2, <1>3, <1>5, <1>6, NewestClean
    <3>3. ASSUME NEW x, x = q.version, ValueAt(history.commits, a, x) = q.value
          PROVE  ValueAt(history.commits, a, x)' = q.value
      BY <1>1, <2>4, <3>3 DEF ValueAt, CommitsTo
    <3>4. history' = history
      BY <1>1
    <3>5. QED BY <1>1, <1>2, <1>3, <1>4, <1>5, <2>2, <2>3, <2>4, <3>1, <3>2, <3>4 DEF Extending
  <2>9. Reading(t)' /\ Validating(t)' /\ Unread(t)'
    BY <2>2, <2>3 DEF Reading, Validating, Unread
  <2>10. Knows(t)'
    BY <2>3, <2>7, <2>8, <2>9 DEF Knows
  <2>11. QED BY <2>2, <2>3, <2>10, AwayStep
<1>9. CASE ~ ShouldExtend(t, again)
  <2>1. Become(t, r2) /\ Sees(t, a, q.value)
    BY <1>3, <1>4, <1>7, <1>9 DEF ReadCheck, READ_LOCK_SET
  <2>2. /\ r2.pc = "run" /\ r2.read_log = Append(q.read_log, e) /\ r2.write_log = q.write_log
        /\ r2.valid_ts = q.valid_ts
    <3> HIDE DEF logged, q, e
    <3>1. QED BY <1>7, ReturnedFields
  <2> DEFINE new == [addr |-> a, value |-> q.value]
  <2>3. seen'[t] = seen[t] \cup {new} /\ \A u \in Thread \ {t} : seen'[u] = seen[u]
    BY <2>1 DEF Sees, HistoryTyped
  <2>4. new.addr = a /\ new.value = q.value
    OBVIOUS
  <2> HIDE DEF r2, logged, e, new
  <2>5. /\ Only(t) /\ tx'[t] = r2 /\ StepAway(t) /\ HeldVersions(t)' /\ ReadVersions(t)'
        /\ \A x, v : Claim(t, q, x, v) => Claim(t, r2, x, v)
        /\ \A x, v : Claim(t, r2, x, v) => Claim(t, q, x, v) \/ (x = s /\ v = again)
        /\ ~ ReadingNow(t, r2) => Claim(t, r2, s, again)
    BY <1>1, <1>4, <2>1, <2>2, <2>3, ReadLogged
  <2>6. ~ ReadingNow(t, r2)
    BY <2>2 DEF ReadingNow
  <2>7. PICK T \in Nat : SnapAt(t, T)
    BY DEF EpochInv, Knows, Snapshot
  <2>8. /\ T <= commit_ts /\ q.valid_ts <= T
        /\ \A x \in seen[t] : There(x, T, t) /\ \E v \in Nat : Claim(t, q, StripeOf[x.addr], v)
        /\ \A x \in Stripe, v \in Nat : Claim(t, q, x, v) => Clean(x, v, T, t)
    BY <1>1, <2>7 DEF SnapAt, Snapped
  <2>9. again <= T
    <3>1. again <= q.valid_ts
      BY <1>1, <1>2, <1>9 DEF ShouldExtend, State
    <3>2. QED BY <1>1, <1>2, <2>8, <3>1 DEF State
  <2>10. Clean(s, again, T, t) /\ ValueAt(history.commits, a, T) = ValueIn(a, history.commits)
    BY <1>2, <1>5, <2>9, NewestClean
  <2>11. There(new, T, t)
    BY <1>2, <1>5, <1>6, <2>4, <2>10 DEF There
  <2>12. \A x \in seen'[t] : /\ There(x, T, t)
                             /\ \E v \in Nat : Claim(t, tx'[t], StripeOf[x.addr], v)
    BY <1>2, <2>3, <2>4, <2>5, <2>6, <2>8, <2>11
  <2>13. \A x \in Stripe, v \in Nat : Claim(t, tx'[t], x, v) => Clean(x, v, T, t)
    BY <2>5, <2>8, <2>10
  <2>14. QED BY <2>2, <2>5, <2>8, <2>12, <2>13, ReturnStep
<1>10. QED BY <1>8, <1>9

\* When the extension has succeeded, all that was read was there at its time.
LEMMA AllClean ==
  ASSUME LockInv, HistoryTyped, EpochInv, NEW t \in Thread, tx[t].pc = "extended",
         NEW T, T = tx[t].ts
  PROVE  /\ T \in Nat /\ T <= commit_ts /\ tx[t].version <= T
         /\ \A n \in 1 .. Len(tx[t].read_log) :
              Clean(tx[t].read_log[n].stripe, tx[t].read_log[n].version, T, t)
         /\ \A s \in Stripe, v \in Nat : LockClaim(tx[t], s, v) => Clean(s, v, T, t)
         /\ \A x \in seen[t] : /\ There(x, T, t)
                               /\ \E v \in Nat : Claim(t, tx[t], StripeOf[x.addr], v)
<1> DEFINE q == tx[t]
<1>1. /\ q \in State /\ Local(t, q) /\ T \in Nat /\ T <= commit_ts /\ q.version <= T
      /\ \A n \in 1 .. Len(q.read_log) : Clean(q.read_log[n].stripe, q.read_log[n].version, T, t)
  BY ThreadFacts DEF State, EpochInv, Knows, Extending
<1>2. PICK T0 \in Nat : SnapAt(t, T0)
  BY DEF EpochInv, Knows, Snapshot
<1>3. /\ T0 <= T
      /\ \A x \in seen[t] : There(x, T0, t) /\ \E v \in Nat : Claim(t, q, StripeOf[x.addr], v)
      /\ \A s \in Stripe, v \in Nat : Claim(t, q, s, v) => Clean(s, v, T0, t)
  BY <1>2 DEF SnapAt, Snapped
<1>4. ASSUME NEW s \in Stripe, NEW v \in Nat, LockClaim(q, s, v) PROVE Clean(s, v, T, t)
  <2>1. PICK n \in 1 .. Len(q.write_log) :
          q.write_log[n].stripe = s /\ q.write_log[n].old_version = v /\ v >= 1
    BY <1>4 DEF LockClaim
  <2>2. n \in HeldIn(q)
    BY <1>1, AccessHolds
  <2>3. Version[s] = v
    BY <2>1, <2>2 DEF EpochInv, Knows, HeldVersions
  <2>4. v <= T
    <3>1. Clean(s, v, T0, t)
      BY <1>3, <1>4 DEF Claim
    <3>2. QED BY <1>1, <1>3, <3>1 DEF Clean
  <2>5. Closed(s, T, t)
    BY <2>1, <2>2, OwnClosed
  <2>6. QED BY <1>1, <2>3, <2>4, <2>5, NewestClean
<1>5. ASSUME NEW s \in Stripe, NEW v \in Nat, Claim(t, q, s, v) PROVE Clean(s, v, T, t)
  BY <1>1, <1>4, <1>5 DEF Claim, ReadClaim
<1>6. ASSUME NEW x \in seen[t] PROVE There(x, T, t)
  <2>1. x \in Read /\ x.addr \in Addr /\ StripeOf[x.addr] \in Stripe
    BY Constants DEF HistoryTyped, Read
  <2>2. PICK v \in Nat : Claim(t, q, StripeOf[x.addr], v)
    BY <1>3
  <2>3. Clean(StripeOf[x.addr], v, T, t) /\ Clean(StripeOf[x.addr], v, T0, t)
    BY <1>3, <1>5, <2>1, <2>2
  <2>4. /\ ValueAt(history.commits, x.addr, T) = ValueAt(history.commits, x.addr, v)
        /\ ValueAt(history.commits, x.addr, T0) = ValueAt(history.commits, x.addr, v)
    <3>1. v \in Int /\ T \in Int /\ T0 \in Int
      BY <1>1
    <3>2. QED BY <2>1, <2>3, <3>1, CleanValue, Zenon
  <2>5. x.value = ValueAt(history.commits, x.addr, T0)
    BY <1>3 DEF There
  <2>6. QED BY <2>3, <2>4, <2>5 DEF There, Clean
<1>7. QED BY <1>1, <1>3, <1>4, <1>6

LEMMA ReadExtendedSerial ==
  ASSUME LockInv, LockInv', HistoryTyped, EpochInv, NEW t \in Thread, ReadExtended(t)
  PROVE  EpochInv'
<1> DEFINE q == tx[t]
           s == StripeOfOp(t)
           a == Op(t).addr
           p == Returned(q, q.value)
           r == [p EXCEPT !.valid_ts = Truncated(q.ts)]
           new == [addr |-> a, value |-> q.value]
<1>1. /\ q \in State /\ Local(t, q) /\ q.pc = "extended" /\ Op(t).kind = "read" /\ Become(t, r)
      /\ UNCHANGED <<read_lock, memory, commit_ts, history>> /\ Sees(t, a, q.value)
  BY ThreadFacts DEF ReadExtended, At, clocks
<1>2. s \in Stripe /\ a \in Addr /\ s = StripeOf[a]
  BY <1>1, Accessing DEF StripeOfOp
<1>3. /\ r.pc = "run" /\ r.read_log = q.read_log /\ r.write_log = q.write_log
      /\ r.valid_ts = Truncated(q.ts)
  <2> HIDE DEF q
  <2>1. QED BY <1>1, SMT DEF Returned, NextOp, State
<1>4. seen'[t] = seen[t] \cup {new} /\ \A u \in Thread \ {t} : seen'[u] = seen[u]
  BY <1>1 DEF Sees, HistoryTyped
<1>5. new.addr = a /\ new.value = q.value
  OBVIOUS
<1> HIDE DEF r, p, new
<1>6. Only(t) /\ tx'[t] = r
  BY <1>1, <1>4, BecomeOnly
<1>7. ReadLockedIn(q) = {} /\ ReadLockedIn(r) = {} /\ HeldIn(r) = HeldIn(q)
  BY <1>1, <1>3 DEF ReadLockedIn, HeldIn, FirstOf
<1>8. StepAway(t)
  BY <1>1, <1>3, <1>6, <1>7 DEF StepAway, Away
<1>9. HeldFits(t)
  BY <1>1, <1>3, <1>6, <1>7 DEF HeldFits, Pending
<1>10. HeldVersions(t)'
  BY <1>8, <1>9, AwayCalm, CalmEffects, HeldKept DEF EpochInv, Knows
<1>11. ReadVersions(t)'
  BY <1>3, <1>6 DEF EpochInv, Knows, ReadVersions
<1>12. ~ ReadingNow(t, r)
  BY <1>3 DEF ReadingNow
<1>13. ASSUME NEW T, T = q.ts PROVE EpochInv'
  <2>1. /\ T \in Nat /\ T <= commit_ts /\ q.version <= T
        /\ \A n \in 1 .. Len(q.read_log) : Clean(q.read_log[n].stripe, q.read_log[n].version, T, t)
        /\ \A x \in Stripe, v \in Nat : LockClaim(q, x, v) => Clean(x, v, T, t)
        /\ \A x \in seen[t] : There(x, T, t) /\ \E v \in Nat : Claim(t, q, StripeOf[x.addr], v)
    BY <1>1, <1>13, AllClean
  <2>2. r.valid_ts <= T
    BY <1>3, <1>13, <2>1, TruncatedLess
  <2>3. \A x \in Stripe, v \in Nat : Claim(t, r, x, v) => Clean(x, v, T, t)
    BY <1>3, <2>1 DEF Claim, ReadClaim, LockClaim
  <2>4. \A x, v : Claim(t, q, x, v) => Claim(t, r, x, v)
    BY <1>3, <1>12 DEF Claim, ReadClaim, LockClaim
  <2> DEFINE k == Len(q.read_log)
  <2>5. k \in 1 .. k /\ q.read_log[k].stripe = s /\ q.read_log[k].version = q.version
        /\ q.value = ValueAt(history.commits, a, q.version) /\ q.version \in Nat
    <3>1. q.read_log # <<>>
      BY <1>1, ThreadFacts DEF Local, PlacedAs
    <3>2. QED BY <1>1, <3>1, EntryTyped DEF EpochInv, Knows, Extending, State
  <2>6. Claim(t, r, s, q.version)
    BY <1>3, <1>12, <2>5 DEF Claim, ReadClaim
  <2>7. Clean(s, q.version, T, t)
    BY <2>1, <2>5
  <2>8. There(new, T, t)
    <3>1. ASSUME NEW v \in Nat, v = q.version
          PROVE  ValueAt(history.commits, a, T) = ValueAt(history.commits, a, v)
      <4>1. v \in Int /\ T \in Int /\ Clean(StripeOf[a], v, T, t)
        BY <1>2, <2>1, <2>7, <3>1
      <4>2. QED BY <1>2, <4>1, CleanValue, Zenon
    <3>2. q.value = ValueAt(history.commits, a, T)
      BY <2>5, <3>1
    <3>3. QED BY <1>2, <1>5, <2>7, <3>2 DEF There, Clean
  <2>9. \A x \in seen'[t] : /\ There(x, T, t)
                            /\ \E v \in Nat : Claim(t, tx'[t], StripeOf[x.addr], v)
    BY <1>2, <1>4, <1>5, <1>6, <2>1, <2>4, <2>5, <2>6, <2>8
  <2>10. QED BY <1>3, <1>6, <1>8, <1>10, <1>11, <2>1, <2>2, <2>3, <2>9, ReturnStep
<1>14. QED BY <1>13

\* The own stripe is read from memory.
LEMMA OwnSettled ==
  ASSUME LockInv, EpochInv, NEW t \in Thread, NEW n \in HeldIn(tx[t]), ReadLockedIn(tx[t]) = {}
  PROVE  read_lock[tx[t].write_log[n].stripe] # 0
<1> DEFINE s == tx[t].write_log[n].stripe
<1>1. s \in Stripe
  BY Owned DEF Owners
<1>2. ASSUME read_lock[s] = 0 PROVE FALSE
  <2>1. PICK u \in Thread : \E m \in ReadLockedIn(tx[u]) :
          m \in HeldIn(tx[u]) /\ tx[u].write_log[m].stripe = s
    BY <1>1, <1>2, ReadOwner
  <2>2. u = t
    BY <2>1, OneOwner
  <2>3. QED BY <2>1, <2>2
<1>3. QED BY <1>2

LEMMA ReadWordSerial ==
  ASSUME LockInv, LockInv', HistoryTyped, EpochInv, NEW t \in Thread, ReadWord(t)
  PROVE  EpochInv'
<1> DEFINE q == tx[t]
           a == Op(t).addr
           s == StripeOf[a]
           e == write_lock[s]
           r1 == [q EXCEPT !.pc = "read_version"]
           r2 == Returned(q, Deref(e).words[a])
           r3 == Returned(q, memory[a])
           new == [addr |-> a, value |-> memory[a]]
<1>1. /\ q \in State /\ Local(t, q) /\ q.pc = "run"
      /\ UNCHANGED <<read_lock, memory, commit_ts, history>>
  BY ThreadFacts DEF ReadWord, Doing, At, clocks
<1>2. a \in Addr /\ s \in Stripe
  BY <1>1, Beginning DEF ReadWord, Doing
<1>3. CASE Become(t, r1) /\ seen' = seen
  <2>1. /\ r1.pc = "read_version" /\ r1.read_log = q.read_log /\ r1.write_log = q.write_log
        /\ r1.valid_ts = q.valid_ts
    <3> HIDE DEF q
    <3>1. QED BY <1>1, SMT DEF State
  <2> HIDE DEF r1
  <2>2. EntriesFit(q, r1)
    BY <1>1, <2>1, SameFit
  <2>3. QED BY <1>1, <1>3, <2>1, <2>2, GotoStep
<1>4. CASE Become(t, r2) /\ seen' = seen
  <2>1. /\ r2.pc = "run" /\ r2.read_log = q.read_log /\ r2.write_log = q.write_log
        /\ r2.valid_ts = q.valid_ts
    BY <1>1, ReturnedFields
  <2> HIDE DEF r2
  <2>2. EntriesFit(q, r2)
    BY <1>1, <2>1, SameFit
  <2>3. QED BY <1>1, <1>4, <2>1, <2>2, GotoStep
<1>5. CASE LockedByMe(t, e) /\ Become(t, r3) /\ Sees(t, a, memory[a])
  <2>1. /\ r3.pc = "run" /\ r3.read_log = q.read_log /\ r3.write_log = q.write_log
        /\ r3.valid_ts = q.valid_ts
    BY <1>1, ReturnedFields
  <2>2. seen'[t] = seen[t] \cup {new} /\ \A u \in Thread \ {t} : seen'[u] = seen[u]
    BY <1>5 DEF Sees, HistoryTyped
  <2>3. new.addr = a /\ new.value = memory[a]
    OBVIOUS
  <2> HIDE DEF r3, new
  <2>4. Only(t) /\ tx'[t] = r3
    BY <1>5, <2>2, BecomeOnly
  <2>5. ReadLockedIn(q) = {} /\ ReadLockedIn(r3) = {} /\ HeldIn(r3) = HeldIn(q)
    BY <1>1, <2>1 DEF ReadLockedIn, HeldIn, FirstOf
  <2>6. StepAway(t)
    BY <1>1, <2>1, <2>4, <2>5 DEF StepAway, Away
  <2>7. HeldFits(t)
    BY <1>1, <2>1, <2>4, <2>5 DEF HeldFits, Pending
  <2>8. HeldVersions(t)'
    BY <2>6, <2>7, AwayCalm, CalmEffects, HeldKept DEF EpochInv, Knows
  <2>9. ReadVersions(t)'
    BY <2>1, <2>4 DEF EpochInv, Knows, ReadVersions
  <2>10. ~ ReadingNow(t, r3) /\ ~ ReadingNow(t, q)
    BY <1>1, <2>1 DEF ReadingNow
  <2>11. \A x, v : Claim(t, r3, x, v) <=> Claim(t, q, x, v)
    BY <2>1, <2>10 DEF Claim, ReadClaim, LockClaim
  <2>12. PICK T \in Nat : SnapAt(t, T)
    BY DEF EpochInv, Knows, Snapshot
  <2>13. /\ T <= commit_ts /\ q.valid_ts <= T
         /\ \A x \in seen[t] : There(x, T, t) /\ \E v \in Nat : Claim(t, q, StripeOf[x.addr], v)
         /\ \A x \in Stripe, v \in Nat : Claim(t, q, x, v) => Clean(x, v, T, t)
    BY <1>1, <2>12 DEF SnapAt, Snapped
  <2>14. PICK n \in 1 .. Len(q.write_log) : n \in HeldIn(q) /\ q.write_log[n].stripe = s
    BY <1>2, <1>5, LockedEntry
  <2>15. q.write_log[n].old_version >= 1 /\ q.write_log[n].old_version \in Nat
    BY <1>1, <2>14, EntryTyped DEF Local, LoggedAs, FillingIn
  <2>16. LockClaim(q, s, q.write_log[n].old_version)
    BY <2>14, <2>15 DEF LockClaim
  <2>17. Version[s] = q.write_log[n].old_version
    BY <1>1, <2>14, <2>15 DEF EpochInv, Knows, HeldVersions
  <2>18. Clean(s, Version[s], T, t)
    BY <1>2, <2>13, <2>15, <2>16, <2>17 DEF Claim
  <2>19. There(new, T, t)
    <3>1. ValueAt(history.commits, a, T) = ValueIn(a, history.commits)
      BY <1>2, <2>18, NewestClean DEF Clean
    <3>2. s \in Settled
      BY <1>2, <2>5, <2>14, OwnSettled, NotLocked DEF EpochInv
    <3>3. memory[a] = ValueIn(a, history.commits)
      BY <1>2, <3>2, SettledMemory
    <3>4. QED BY <2>3, <2>18, <3>1, <3>3 DEF There, Clean
  <2>20. Claim(t, r3, s, q.write_log[n].old_version)
    BY <2>11, <2>16 DEF Claim
  <2>21. \A x \in seen'[t] : /\ There(x, T, t)
                             /\ \E v \in Nat : Claim(t, tx'[t], StripeOf[x.addr], v)
    <3>1. \A x \in seen[t] : /\ There(x, T, t)
                             /\ \E v \in Nat : Claim(t, tx'[t], StripeOf[x.addr], v)
      BY <2>4, <2>11, <2>13
    <3>2. /\ There(new, T, t)
          /\ \E v \in Nat : Claim(t, tx'[t], StripeOf[new.addr], v)
      BY <2>3, <2>4, <2>15, <2>19, <2>20
    <3>3. QED BY <2>2, <3>1, <3>2
  <2>22. \A x \in Stripe, v \in Nat : Claim(t, tx'[t], x, v) => Clean(x, v, T, t)
    BY <2>4, <2>11, <2>13
  <2>23. QED BY <2>1, <2>4, <2>6, <2>8, <2>9, <2>13, <2>21, <2>22, ReturnStep
<1>6. QED
  BY <1>3, <1>4, <1>5 DEF ReadWord, Goto

----------------------------------------------------------------------------
(* The end of a write *)

\* The entry gets the version of its stripe, on which t relies from now on.
LEMMA WriteFilled ==
  ASSUME LockInv, LockInv', HistoryTyped, EpochInv, NEW t \in Thread, NEW r \in State,
         tx[t].pc \in {"extended", "write_version"}, FillingIn(t, tx[t]),
         r.read_log = tx[t].read_log, r.write_log = tx[t].write_log,
         r.version >= 1, r.version = Version[StripeOfOp(t)], WriteLocked(t, r),
         UNCHANGED <<read_lock, memory, commit_ts, history, seen>>,
         NEW T \in Nat, T <= commit_ts, r.valid_ts <= T, r.version <= T,
         \A n \in 1 .. Len(tx[t].read_log) :
           Clean(tx[t].read_log[n].stripe, tx[t].read_log[n].version, T, t),
         \A s \in Stripe, v \in Nat : LockClaim(tx[t], s, v) => Clean(s, v, T, t),
         \A x \in seen[t] : /\ There(x, T, t)
                            /\ \E v \in Nat : Claim(t, tx[t], StripeOf[x.addr], v)
  PROVE  EpochInv'
<1> DEFINE q == tx[t]
           s == StripeOfOp(t)
           n == Len(q.write_log)
<1>1. /\ q \in State /\ Local(t, q) /\ s \in Stripe /\ n \in Nat
      /\ HeldIn(q) = 1 .. n /\ ReadLockedIn(q) = {}
  BY ThreadFacts, Accessing, AccessHolds, EntryTyped
<1>2. q.write_log[n].stripe = s /\ q.write_log[n].old_version = 0 /\ n \in HeldIn(q)
  BY <1>1, ThreadFacts, EntryTyped DEF Local, LoggedAs
<1>3. PICK p \in State :
        /\ Become(t, NextOp(p)) /\ p.read_log = q.read_log /\ p.valid_ts = r.valid_ts
        /\ Len(p.write_log) = n
        /\ \A m \in 1 .. n : p.write_log[m].stripe = q.write_log[m].stripe
        /\ \A m \in 1 .. n \ {n} : p.write_log[m] = q.write_log[m]
        /\ p.write_log[n].old_version = r.version
  <2>1. q.pc \in ExtendPc \cup {"write_version"}
    OBVIOUS
  <2>2. QED BY <2>1, EntryWritten
<1> DEFINE d == NextOp(p)
<1>4. d.pc = "run" /\ d.read_log = q.read_log /\ d.write_log = p.write_log /\ d.valid_ts = r.valid_ts
  BY <1>3, NextOpFields
<1> HIDE DEF d, n
<1>5. Only(t) /\ tx'[t] = d
  BY <1>3, BecomeOnly DEF d
<1>6. HeldIn(d) = 1 .. n /\ ReadLockedIn(d) = {}
  BY <1>3, <1>4 DEF HeldIn, FirstOf, ReadLockedIn
<1>7. StepAway(t)
  BY <1>1, <1>4, <1>5, <1>6 DEF StepAway, Away
<1>8. \A x \in Stripe : Version'[x] = Version[x]
  BY <1>7, AwayCalm, CalmEffects
<1>9. HeldVersions(t)'
  <2>1. ASSUME NEW m \in 1 .. n, d.write_log[m].old_version >= 1
        PROVE  Version[d.write_log[m].stripe] = d.write_log[m].old_version /\ d.write_log[m].stripe \in Stripe
    <3>1. CASE m = n
      BY <1>1, <1>2, <1>3, <1>4, <3>1
    <3>2. CASE m # n
      <4>1. d.write_log[m] = q.write_log[m] /\ m \in HeldIn(q)
        BY <1>1, <1>3, <1>4, <3>2
      <4>2. Version[q.write_log[m].stripe] = q.write_log[m].old_version
        BY <2>1, <4>1 DEF EpochInv, Knows, HeldVersions
      <4>3. q.write_log[m].stripe \in Stripe
        BY <4>1, Owned DEF Owners
      <4>4. QED BY <4>1, <4>2, <4>3
    <3>3. QED BY <3>1, <3>2
  <2>2. QED BY <1>4, <1>5, <1>6, <1>8, <2>1 DEF HeldVersions
<1>10. ReadVersions(t)'
  BY <1>4, <1>5 DEF EpochInv, Knows, ReadVersions
<1>11. ~ ReadingNow(t, d) /\ ~ ReadingNow(t, q)
  BY <1>4 DEF ReadingNow, FillingIn
<1>12. Clean(s, r.version, T, t)
  <2>1. Closed(s, T, t)
    BY <1>2, OwnClosed
  <2>2. QED BY <1>1, <2>1, NewestClean
<1>13. \A x \in Stripe, v \in Nat : Claim(t, d, x, v) => Clean(x, v, T, t)
  <2>1. SUFFICES ASSUME NEW x \in Stripe, NEW v \in Nat, Claim(t, d, x, v) PROVE Clean(x, v, T, t)
    OBVIOUS
  <2>2. CASE ReadClaim(t, d, x, v)
    BY <1>4, <2>2 DEF ReadClaim
  <2>3. CASE LockClaim(d, x, v)
    <3>1. PICK m \in 1 .. n : d.write_log[m].stripe = x /\ d.write_log[m].old_version = v /\ v >= 1
      BY <1>3, <1>4, <2>3 DEF LockClaim
    <3>2. CASE m = n
      BY <1>2, <1>3, <1>4, <1>12, <3>1, <3>2
    <3>3. CASE m # n
      <4>1. m \in 1 .. Len(q.write_log) /\ d.write_log[m] = q.write_log[m]
        BY <1>3, <1>4, <3>1, <3>3 DEF n
      <4>2. LockClaim(q, x, v)
        BY <3>1, <4>1 DEF LockClaim
      <4>3. QED BY <4>2
    <3>4. QED BY <3>2, <3>3
  <2>4. QED BY <2>1, <2>2, <2>3 DEF Claim
<1>14. ASSUME NEW x, NEW v, Claim(t, q, x, v) PROVE Claim(t, d, x, v)
  <2>1. CASE ReadClaim(t, q, x, v)
    <3>1. ReadClaim(t, d, x, v)
      BY <1>4, <1>11, <2>1 DEF ReadClaim
    <3>2. QED BY <3>1 DEF Claim
  <2>2. CASE LockClaim(q, x, v)
    <3>1. PICK m \in 1 .. n : q.write_log[m].stripe = x /\ q.write_log[m].old_version = v /\ v >= 1
      BY <2>2 DEF LockClaim, n
    <3>2. m # n
      BY <1>2, <3>1
    <3>3. m \in 1 .. Len(d.write_log) /\ d.write_log[m] = q.write_log[m]
      BY <1>3, <1>4, <3>1, <3>2
    <3>4. LockClaim(d, x, v)
      BY <3>1, <3>3 DEF LockClaim
    <3>5. QED BY <3>4 DEF Claim
  <2>3. QED BY <1>14, <2>1, <2>2 DEF Claim
<1>15. seen'[t] = seen[t]
  OBVIOUS
<1>16. QED BY <1>3, <1>4, <1>5, <1>7, <1>9, <1>10, <1>13, <1>14, <1>15, ReturnStep

LEMMA WriteExtendedSerial ==
  ASSUME LockInv, LockInv', HistoryTyped, EpochInv, NEW t \in Thread, WriteExtended(t)
  PROVE  EpochInv'
<1> DEFINE q == tx[t]
           r == [q EXCEPT !.valid_ts = Truncated(q.ts)]
<1>1. /\ q \in State /\ Local(t, q) /\ q.pc = "extended" /\ Op(t).kind # "read"
      /\ WriteLocked(t, r) /\ FillingIn(t, q)
      /\ UNCHANGED <<read_lock, memory, commit_ts, history, seen>>
  BY ThreadFacts DEF WriteExtended, At, ghosts, FillingIn
<1>2. Truncated(q.ts) \in Nat /\ Truncated(q.ts) <= q.ts
  BY <1>1, TruncatedLess DEF State
<1>3. r \in State
  <2> HIDE DEF q
  <2>1. QED BY <1>1, <1>2 DEF State
<1>4. /\ r.read_log = q.read_log /\ r.write_log = q.write_log
      /\ r.valid_ts = Truncated(q.ts) /\ r.version = q.version
  <2> HIDE DEF q
  <2>1. QED BY <1>1, SMT DEF State
<1>5. r.version >= 1 /\ r.version = Version[StripeOfOp(t)]
  BY <1>1, <1>4 DEF EpochInv, Knows, Extending, Local, PlacedAs
<1> HIDE DEF r
<1>6. ASSUME NEW T, T = q.ts PROVE EpochInv'
  <2>1. /\ T \in Nat /\ T <= commit_ts /\ q.version <= T
        /\ \A n \in 1 .. Len(q.read_log) : Clean(q.read_log[n].stripe, q.read_log[n].version, T, t)
        /\ \A x \in Stripe, v \in Nat : LockClaim(q, x, v) => Clean(x, v, T, t)
        /\ \A x \in seen[t] : There(x, T, t) /\ \E v \in Nat : Claim(t, q, StripeOf[x.addr], v)
    BY <1>1, <1>6, AllClean
  <2>2. r.valid_ts <= T /\ r.version <= T
    BY <1>2, <1>4, <1>6, <2>1
  <2>3. q.pc \in {"extended", "write_version"}
    BY <1>1
  <2>4. QED BY <1>1, <1>3, <1>4, <1>5, <2>1, <2>2, <2>3, WriteFilled
<1>7. QED BY <1>6

LEMMA WriteVersionSerial ==
  ASSUME LockInv, LockInv', HistoryTyped, EpochInv, NEW t \in Thread, WriteVersion(t)
  PROVE  EpochInv'
<1> DEFINE q == tx[t]
           s == StripeOfOp(t)
           v == read_lock[s]
           p == [q EXCEPT !.version = v]
           r == [p EXCEPT !.pc = "extend_ts"]
<1>1. /\ q \in State /\ Local(t, q) /\ q.pc = "write_version" /\ OpOf(t, q).kind # "read"
      /\ FillingIn(t, q) /\ UNCHANGED <<read_lock, memory, commit_ts, history, seen>>
  BY ThreadFacts DEF WriteVersion, At, ghosts, FillingIn, Local, PlacedAs
<1>2. v \in Nat /\ v >= 1 /\ s \in Stripe
  BY <1>1, FillingUnlocked, Accessing
<1>3. Version[s] = v
  BY <1>2, NotLocked DEF EpochInv
<1>4. p \in State
  <2> HIDE DEF q, v
  <2>1. QED BY <1>1, <1>2 DEF State
<1>5. /\ p.read_log = q.read_log /\ p.write_log = q.write_log /\ p.ip = q.ip /\ p.done = q.done
      /\ p.valid_ts = q.valid_ts /\ p.version = v
  <2> HIDE DEF q, v
  <2>1. QED BY <1>1, SMT DEF State
<1>6. CASE ShouldExtend(t, v)
  <2>1. Become(t, r)
    BY <1>5, <1>6 DEF WriteVersion
  <2>2. /\ r.pc = "extend_ts" /\ r.read_log = q.read_log /\ r.write_log = q.write_log
        /\ r.valid_ts = q.valid_ts /\ r.version = v /\ r.ip = q.ip /\ r.done = q.done
    <3> HIDE DEF q, v, p
    <3>1. QED BY <1>4, <1>5, SMT DEF State
  <2> HIDE DEF r, p
  <2>3. Only(t) /\ tx'[t] = r
    BY <1>1, <2>1, BecomeOnly
  <2>4. ReadLockedIn(q) = {} /\ ReadLockedIn(r) = {} /\ HeldIn(r) = HeldIn(q)
    BY <1>1, <2>2 DEF ReadLockedIn, HeldIn, FirstOf
  <2>5. StepAway(t)
    BY <1>1, <2>2, <2>3, <2>4 DEF StepAway, Away
  <2>6. HeldFits(t)
    BY <1>1, <2>2, <2>3, <2>4 DEF HeldFits, Pending
  <2>7. Op(t)' = Op(t) /\ StripeOfOp(t)' = s /\ OpOf(t, tx'[t]) = Op(t) /\ OpOf(t, q) = Op(t)
    BY <2>2, <2>3, SameOp
  <2>8. ~ ReadingNow(t, r) /\ ~ ReadingNow(t, q)
    BY <1>1, <2>3, <2>7 DEF ReadingNow
  <2>9. \A x, y : Claim(t, r, x, y) <=> Claim(t, q, x, y)
    BY <2>2, <2>8 DEF Claim, ReadClaim, LockClaim
  <2>10. SnapFits(t)
    BY <1>1, <2>2, <2>3, <2>9 DEF SnapFits, Pending, Snapped
  <2>11. Version'[s] = v
    BY <1>2, <1>3, <2>5, AwayCalm, CalmEffects
  <2>12. Extending(t)'
    BY <1>1, <1>2, <2>2, <2>3, <2>7, <2>11 DEF Extending
  <2>13. Reading(t)' /\ tx'[t].pc \in Snapped
    BY <2>2, <2>3 DEF Reading, Snapped
  <2>14. QED BY <2>2, <2>3, <2>5, <2>6, <2>10, <2>12, <2>13, GoesOn
<1>7. CASE ~ ShouldExtend(t, v)
  <2>1. WriteLocked(t, p)
    BY <1>5, <1>7 DEF WriteVersion
  <2> HIDE DEF p
  <2>2. PICK T \in Nat : SnapAt(t, T)
    BY DEF EpochInv, Knows, Snapshot
  <2>3. /\ T <= commit_ts /\ q.valid_ts <= T
        /\ \A x \in seen[t] : There(x, T, t) /\ \E y \in Nat : Claim(t, q, StripeOf[x.addr], y)
        /\ \A x \in Stripe, y \in Nat : Claim(t, q, x, y) => Clean(x, y, T, t)
    BY <1>1, <2>2 DEF SnapAt, Snapped
  <2>4. ~ ReadingNow(t, q)
    BY <1>1 DEF ReadingNow
  <2>5. \A n \in 1 .. Len(q.read_log) : Clean(q.read_log[n].stripe, q.read_log[n].version, T, t)
    <3>1. SUFFICES ASSUME NEW n \in 1 .. Len(q.read_log)
                   PROVE  Clean(q.read_log[n].stripe, q.read_log[n].version, T, t)
      OBVIOUS
    <3>2. Claim(t, q, q.read_log[n].stripe, q.read_log[n].version)
      BY <2>4 DEF Claim, ReadClaim
    <3>3. q.read_log[n].stripe \in Stripe /\ q.read_log[n].version \in Nat
      BY <1>1, EntryTyped
    <3>4. QED BY <2>3, <3>2, <3>3
  <2>6. \A x \in Stripe, y \in Nat : LockClaim(q, x, y) => Clean(x, y, T, t)
    BY <2>3 DEF Claim
  <2>7. p.valid_ts <= T /\ p.version <= T
    <3>1. v <= q.valid_ts
      BY <1>1, <1>2, <1>7 DEF ShouldExtend, State
    <3>2. q.valid_ts \in Nat
      BY <1>1 DEF State
    <3>3. QED BY <1>2, <1>5, <2>3, <3>1, <3>2
  <2>8. q.pc \in {"extended", "write_version"} /\ p.version >= 1 /\ p.version = Version[s]
    BY <1>1, <1>2, <1>3, <1>5
  <2>9. QED BY <1>1, <1>4, <1>5, <2>1, <2>3, <2>5, <2>6, <2>7, <2>8, WriteFilled
<1>8. QED BY <1>6, <1>7

----------------------------------------------------------------------------
(* The steps of a commit before it is valid, and after *)

LogPc == {"lock_reads", "release", "overflow", "overflow_release"} \cup LockedPc

\* In these phases every entry is held and has a version.
LEMMA LogPhase ==
  ASSUME LockInv, EpochInv, NEW t \in Thread, tx[t].pc \in LogPc \cup Publishing
  PROVE  /\ tx[t] \in State /\ Local(t, tx[t]) /\ Len(tx[t].write_log) \in Nat
         /\ tx[t].pc \in LogPc => HeldIn(tx[t]) = 1 .. Len(tx[t].write_log)
         /\ ~ tx[t].rolled_back
         /\ \A n \in 1 .. Len(tx[t].write_log) : tx[t].write_log[n].stripe \in Stripe
         /\ \A n \in HeldIn(tx[t]) :
              Version[tx[t].write_log[n].stripe] = EntryVersion(tx[t], n)
<1> DEFINE q == tx[t]
<1>1. q \in State /\ Local(t, q)
  BY ThreadFacts
<1>2. /\ Len(q.write_log) \in Nat /\ HeldIn(q) \subseteq 1 .. Len(q.write_log)
      /\ \A n \in 1 .. Len(q.write_log) : q.write_log[n].stripe \in Stripe
  BY <1>1, EntryTyped, ReadLockedHeld
<1>3. q.pc \in LogPc => HeldIn(q) = 1 .. Len(q.write_log)
  <2>1. q.pc \in LogPc => FirstOf(q) = 1 /\ q.pc # "committed"
    BY DEF FirstOf, LogPc
  <2>2. {n \in 1 .. Len(q.write_log) : n >= 1} = 1 .. Len(q.write_log)
    BY <1>2
  <2>3. QED BY <2>1, <2>2, Zenon DEF HeldIn
<1>4. ~ q.rolled_back /\ \A n \in 1 .. Len(q.write_log) : q.write_log[n].old_version >= 1
  BY <1>1 DEF Local, LoggedAs, HasLocksIn, FillingIn, LogPc
<1>5. \A n \in HeldIn(q) : Version[q.write_log[n].stripe] = EntryVersion(q, n)
  BY <1>2, <1>4 DEF EpochInv, Knows, HeldVersions, EntryVersion
<1>6. QED BY <1>1, <1>2, <1>3, <1>4, <1>5

\* The entry that a loop is at.
LEMMA LoopEntry ==
  ASSUME LockInv, NEW t \in Thread, tx[t].pc \in (CommitPc \ LockedPc) \cup {"overflow_release"}
  PROVE  tx[t].i \in 1 .. Len(tx[t].write_log)
  BY ThreadFacts DEF Local, PlacedAs

\* t sets or releases read locks, takes its timestamp, or validates.
LEMMA LogStep ==
  ASSUME LockInv, LockInv', HistoryTyped, EpochInv, NEW t \in Thread, NEW r, Become(t, r),
         UNCHANGED <<memory, history, seen>>,
         tx[t].pc \in LogPc, r.pc \in LogPc \cup {"restart", "overflow_rollback"},
         r.pc \in {"restart", "overflow_rollback"} => r.i = 1,
         r.pc \in Snapped => tx[t].pc \in Snapped,
         r.write_log = tx[t].write_log, r.read_log = tx[t].read_log,
         r.valid_ts = tx[t].valid_ts, r.rolled_back = tx[t].rolled_back,
         commit_ts' \in Nat, commit_ts' >= commit_ts,
         Pending(t)' => \/ r.ts = commit_ts + 1 /\ commit_ts' = commit_ts + 1
                        \/ Pending(t) /\ r.ts = tx[t].ts,
         \A s \in Stripe : \/ read_lock'[s] = read_lock[s]
                           \/ \E n \in 1 .. Len(tx[t].write_log) :
                                /\ tx[t].write_log[n].stripe = s
                                /\ read_lock'[s] \in {0, tx[t].write_log[n].old_version},
         \A n \in ReadLockedIn(r) : read_lock'[r.write_log[n].stripe] = 0,
         Validating(t)'
  PROVE  EpochInv'
<1> DEFINE q == tx[t]
           k == Len(q.write_log)
<1>1. /\ q \in State /\ Local(t, q) /\ k \in Nat /\ HeldIn(q) = 1 .. k /\ ~ q.rolled_back
      /\ \A n \in HeldIn(q) : Version[q.write_log[n].stripe] = EntryVersion(q, n)
      /\ \A n \in 1 .. k : q.write_log[n].stripe \in Stripe
  BY LogPhase
<1>2. Only(t) /\ tx'[t] = r
  BY BecomeOnly
<1>3. HeldIn(r) = 1 .. k
  BY <1>1 DEF HeldIn, FirstOf, LogPc
<1>4. \A n : EntryVersion(r, n) = q.write_log[n].old_version /\ EntryVersion(q, n) = q.write_log[n].old_version
  BY DEF EntryVersion, LogPc
<1>5. ReadLockedIn(q) \subseteq 1 .. k /\ UnwrittenIn(q) = {} /\ UnwrittenIn(r) = {}
  BY <1>1 DEF ReadLockedIn, UnwrittenIn, LogPc
<1>6. VersionsFit(t)
  BY <1>1, <1>2, <1>3, <1>4, <1>5 DEF VersionsFit
<1>7. Calm(t)
  BY <1>2, <1>5, <1>6 DEF Calm
<1>8. MemoryFits(t)
  BY <1>5 DEF MemoryFits, Unwritten
<1>9. OwnReadLocks(t)'
  BY <1>2 DEF OwnReadLocks, LogPc
<1>10. Effects(t) /\ \A s \in Stripe : Version'[s] = Version[s]
  BY <1>7, CalmEffects
<1>11. HeldVersions(t)'
  <2>1. Pending(t)' => r.ts <= commit_ts'
    <3>1. Pending(t) => q.ts <= commit_ts
      BY DEF EpochInv, Knows, HeldVersions, Pending
    <3>2. commit_ts \in Nat /\ q.ts \in Nat
      BY <1>1 DEF LockInv, TypeOK, State
    <3>3. QED BY <3>1, <3>2
  <2>2. HeldFits(t)
    BY <1>1, <1>2, <1>3, <2>1 DEF HeldFits, LogPc
  <2>3. QED BY <1>10, <2>2, HeldKept DEF EpochInv, Knows
<1>12. Snapshot(t)'
  <2>1. ~ ReadingNow(t, q) /\ ~ ReadingNow(t, r)
    BY DEF ReadingNow, LogPc
  <2>2. \A s, v : Claim(t, r, s, v) <=> Claim(t, q, s, v)
    BY <2>1 DEF Claim, ReadClaim, LockClaim
  <2>3. SnapFits(t)
    BY <1>2, <2>2 DEF SnapFits, Pending, LogPc
  <2>4. QED BY <1>10, <2>3, SnapKept DEF EpochInv, Knows
<1>13. Reading(t)' /\ Extending(t)' /\ Unread(t)' /\ ReadVersions(t)'
  <2>1. ReadVersions(t)'
    BY <1>2 DEF EpochInv, Knows, ReadVersions
  <2>2. QED BY <1>1, <1>2, <2>1 DEF Reading, Extending, Unread, LogPc
<1>14. Knows(t)'
  BY <1>11, <1>12, <1>13 DEF Knows
<1>15. QED BY <1>7, <1>8, <1>9, <1>14, CalmStep

LEMMA LockReadsSerial ==
  ASSUME LockInv, LockInv', HistoryTyped, EpochInv, NEW t \in Thread, LockReads(t)
  PROVE  EpochInv'
<1> DEFINE q == tx[t]
           k == Len(q.write_log)
           s == q.write_log[q.i].stripe
           r == Advance(q, k, "increment_ts")
<1>1. /\ q.pc = "lock_reads" /\ Become(t, r) /\ UNCHANGED <<memory, history, seen, commit_ts>>
      /\ read_lock' = [read_lock EXCEPT ![s] = 0]
  BY DEF LockReads, At, clocks, ghosts, Mine, READ_LOCK_SET
<1>2. /\ q \in State /\ q.i \in 1 .. k /\ k \in Nat /\ HeldIn(q) = 1 .. k
      /\ \A n \in 1 .. k : q.write_log[n].stripe \in Stripe
  BY <1>1, LogPhase, LoopEntry DEF LogPc
<1>3. /\ r.write_log = q.write_log /\ r.read_log = q.read_log /\ r.rolled_back = q.rolled_back
      /\ \/ r.pc = "lock_reads" /\ r.i = q.i + 1
         \/ r.pc = "increment_ts" /\ r.i = 1 /\ q.i = k
  <2> HIDE DEF q, k
  <2>1. QED BY <1>1, <1>2, AdvanceFields DEF PC
<1>4. r.valid_ts = q.valid_ts
  <2> HIDE DEF q, k
  <2>1. QED BY <1>2, SMT DEF State, Advance
<1> HIDE DEF r
<1>5. read_lock \in [Stripe -> Nat] /\ commit_ts \in Nat
  BY DEF LockInv, TypeOK
<1>6. \A x \in Stripe : \/ read_lock'[x] = read_lock[x]
                        \/ \E n \in 1 .. k : /\ q.write_log[n].stripe = x
                                             /\ read_lock'[x] \in {0, q.write_log[n].old_version}
  BY <1>1, <1>2, <1>5
<1>7. \A n \in ReadLockedIn(r) : read_lock'[r.write_log[n].stripe] = 0
  <2>1. SUFFICES ASSUME NEW n \in ReadLockedIn(r) PROVE read_lock'[q.write_log[n].stripe] = 0
    BY <1>3
  <2>2. n \in 1 .. k /\ n <= q.i
    BY <1>2, <1>3 DEF ReadLockedIn
  <2>3. CASE n = q.i
    BY <1>1, <1>2, <1>5, <2>3
  <2>4. CASE n # q.i
    <3>1. n \in ReadLockedIn(q)
      BY <1>1, <1>2, <2>2, <2>4 DEF ReadLockedIn
    <3>2. read_lock[q.write_log[n].stripe] = 0
      BY <3>1 DEF EpochInv, ReadLocksSet
    <3>3. QED BY <1>1, <1>2, <1>5, <2>2, <3>2
  <2>5. QED BY <2>3, <2>4
<1>8. Only(t) /\ tx'[t] = r
  BY <1>1, BecomeOnly
<1>9. Validating(t)' /\ ~ Pending(t)'
  BY <1>3, <1>8 DEF Validating, Pending
<1>10. QED BY <1>1, <1>3, <1>4, <1>5, <1>6, <1>7, <1>9, LogStep DEF LogPc, Snapped

LEMMA ReleaseReadLocksSerial ==
  ASSUME LockInv, LockInv', HistoryTyped, EpochInv, NEW t \in Thread,
         NEW pc \in {"release", "overflow_release"}, NEW after \in {"restart", "overflow_rollback"},
         ReleaseReadLocks(t, pc, after)
  PROVE  EpochInv'
<1> DEFINE q == tx[t]
           k == Len(q.write_log)
           s == q.write_log[q.i].stripe
           v == q.write_log[q.i].old_version
           r == Advance(q, k, after)
<1>1. /\ q.pc = pc /\ Become(t, r) /\ UNCHANGED <<memory, history, seen, commit_ts>>
      /\ read_lock' = [read_lock EXCEPT ![s] = v]
  BY DEF ReleaseReadLocks, At, clocks, ghosts, Mine
<1>2. /\ q \in State /\ q.i \in 1 .. k /\ k \in Nat /\ HeldIn(q) = 1 .. k
      /\ \A n \in 1 .. k : q.write_log[n].stripe \in Stripe
  BY <1>1, LogPhase, LoopEntry DEF LogPc
<1>3. /\ r.write_log = q.write_log /\ r.read_log = q.read_log /\ r.rolled_back = q.rolled_back
      /\ \/ r.pc = pc /\ r.i = q.i + 1
         \/ r.pc = after /\ r.i = 1 /\ q.i = k
  <2> HIDE DEF q, k
  <2>1. QED BY <1>1, <1>2, AdvanceFields DEF PC
<1>4. r.valid_ts = q.valid_ts
  <2> HIDE DEF q, k
  <2>1. QED BY <1>2, SMT DEF State, Advance
<1> HIDE DEF r
<1>5. read_lock \in [Stripe -> Nat] /\ commit_ts \in Nat
  BY DEF LockInv, TypeOK
<1>6. \A x \in Stripe : \/ read_lock'[x] = read_lock[x]
                        \/ \E n \in 1 .. k : /\ q.write_log[n].stripe = x
                                             /\ read_lock'[x] \in {0, q.write_log[n].old_version}
  BY <1>1, <1>2, <1>5
<1>7. \A n \in ReadLockedIn(r) : read_lock'[r.write_log[n].stripe] = 0
  <2>1. SUFFICES ASSUME NEW n \in ReadLockedIn(r) PROVE read_lock'[q.write_log[n].stripe] = 0
    BY <1>3
  <2>2. n \in 1 .. k /\ n > q.i
    BY <1>2, <1>3 DEF ReadLockedIn
  <2>3. n \in ReadLockedIn(q)
    BY <1>1, <1>2, <2>2 DEF ReadLockedIn
  <2>4. read_lock[q.write_log[n].stripe] = 0
    BY <2>3 DEF EpochInv, ReadLocksSet
  <2>5. q.write_log[n].stripe # s
    BY <1>2, <2>2, OneOwner
  <2>6. QED BY <1>1, <1>2, <1>5, <2>2, <2>4, <2>5
<1>8. Only(t) /\ tx'[t] = r
  BY <1>1, BecomeOnly
<1>9. Validating(t)' /\ ~ Pending(t)'
  BY <1>3, <1>8 DEF Validating, Pending
<1>10. /\ q.pc \in LogPc /\ r.pc \in LogPc \cup {"restart", "overflow_rollback"}
       /\ r.pc \in {"restart", "overflow_rollback"} => r.i = 1
       /\ r.pc \in Snapped => q.pc \in Snapped
  BY <1>1, <1>3 DEF LogPc, Snapped
<1>11. commit_ts' \in Nat /\ commit_ts' >= commit_ts /\ UNCHANGED <<memory, history, seen>>
  BY <1>1, <1>5
<1>12. QED BY <1>1, <1>3, <1>4, <1>6, <1>7, <1>9, <1>10, <1>11, LogStep

LEMMA OverflowSerial ==
  ASSUME LockInv, LockInv', HistoryTyped, EpochInv, NEW t \in Thread, Overflow(t)
  PROVE  EpochInv'
<1> DEFINE q == tx[t]
           r == [q EXCEPT !.status = "aborted", !.pc = "overflow_release", !.i = 1]
<1>1. /\ q.pc = "overflow" /\ Become(t, r)
      /\ UNCHANGED <<memory, history, seen, commit_ts, read_lock>>
  BY DEF Overflow, At, clocks, ghosts
<1>2. q \in State /\ Len(q.write_log) \in Nat
  BY <1>1, LogPhase DEF LogPc
<1>3. /\ r.write_log = q.write_log /\ r.read_log = q.read_log /\ r.rolled_back = q.rolled_back
      /\ r.valid_ts = q.valid_ts /\ r.pc = "overflow_release" /\ r.i = 1
  <2> HIDE DEF q
  <2>1. QED BY <1>2, SMT DEF State
<1> HIDE DEF r
<1>4. \A n \in ReadLockedIn(r) : read_lock'[r.write_log[n].stripe] = 0
  <2>1. ReadLockedIn(r) \subseteq ReadLockedIn(q)
    BY <1>1, <1>3 DEF ReadLockedIn
  <2>2. QED BY <1>1, <1>3, <2>1 DEF EpochInv, ReadLocksSet
<1>5. Only(t) /\ tx'[t] = r
  BY <1>1, BecomeOnly
<1>6. Validating(t)' /\ ~ Pending(t)'
  BY <1>3, <1>5 DEF Validating, Pending
<1>7. commit_ts \in Nat
  BY DEF LockInv, TypeOK
<1>8. QED BY <1>1, <1>3, <1>4, <1>6, <1>7, LogStep DEF LogPc, Snapped

\* A valid transaction writes back, and publishes its timestamp.
LEMMA PublishStep ==
  ASSUME LockInv, LockInv', HistoryTyped, EpochInv, NEW t \in Thread, NEW r, Become(t, r),
         UNCHANGED <<history, seen, commit_ts>>,
         tx[t].pc \in Publishing, r.pc \in Publishing \cup {"committed"}, r.ts = tx[t].ts,
         r.write_log = tx[t].write_log, r.read_log = tx[t].read_log,
         r.pc = "committed" => ReadLockedIn(tx[t]) = {},
         ReadLockedIn(tx[t]) \subseteq HeldIn(r), HeldIn(r) \subseteq HeldIn(tx[t]),
         UnwrittenIn(r) \subseteq UnwrittenIn(tx[t]), MemoryFits(t),
         \A s \in Stripe : \/ read_lock'[s] = read_lock[s]
                           \/ \E n \in HeldIn(r) :
                                /\ r.pc # "committed" /\ tx[t].write_log[n].stripe = s
                                /\ read_lock'[s] = tx[t].ts,
         \A n \in ReadLockedIn(r) : read_lock'[r.write_log[n].stripe] = 0
  PROVE  EpochInv'
<1> DEFINE q == tx[t]
<1>1. /\ q \in State
      /\ \A n \in HeldIn(q) : Version[q.write_log[n].stripe] = EntryVersion(q, n)
  BY LogPhase
<1>2. Only(t) /\ tx'[t] = r
  BY BecomeOnly
<1>3. /\ \A n : EntryVersion(q, n) = q.ts
      /\ \A n : r.pc # "committed" => EntryVersion(r, n) = q.ts
  BY DEF EntryVersion
<1>4. VersionsFit(t)
  BY <1>1, <1>2, <1>3 DEF VersionsFit
<1>5. commit_ts \in Nat /\ ~ Pending(t)'
  BY <1>2 DEF LockInv, TypeOK, Pending
<1>6. Calm(t)
  BY <1>2, <1>4, <1>5 DEF Calm
<1>7. OwnReadLocks(t)'
  BY <1>2 DEF OwnReadLocks
<1>8. Effects(t) /\ \A s \in Stripe : Version'[s] = Version[s]
  BY <1>6, CalmEffects
<1>9. HeldVersions(t)'
  <2>1. r.pc = "committed" => HeldIn(r) = {}
    BY DEF HeldIn
  <2>2. \A n \in HeldIn(q) : q.write_log[n].stripe \in Stripe
    BY Owned DEF Owners
  <2>3. q.ts <= commit_ts
    BY DEF EpochInv, Knows, HeldVersions
  <2>4. QED BY <1>1, <1>2, <1>3, <1>8, <2>1, <2>2, <2>3 DEF HeldVersions
<1>10. Snapshot(t)'
  <2>1. SnapFits(t)
    BY <1>2, <1>5 DEF SnapFits, Snapped
  <2>2. QED BY <1>8, <2>1, SnapKept DEF EpochInv, Knows
<1>11. Reading(t)' /\ Extending(t)' /\ Validating(t)' /\ Unread(t)'
  BY <1>2 DEF Reading, Extending, Validating, Unread
<1>12. ReadVersions(t)'
  BY <1>2 DEF EpochInv, Knows, ReadVersions
<1>13. Knows(t)'
  BY <1>9, <1>10, <1>11, <1>12 DEF Knows
<1>14. QED BY <1>6, <1>7, <1>13, CalmStep

LEMMA WriteBackSerial ==
  ASSUME LockInv, LockInv', HistoryTyped, EpochInv, NEW t \in Thread, WriteBack(t)
  PROVE  EpochInv'
<1> DEFINE q == tx[t]
           k == Len(q.write_log)
           words == q.write_log[q.i].words
           r == [q EXCEPT !.pc = "unlock_read"]
<1>1. /\ q.pc = "write_back" /\ Become(t, r) /\ UNCHANGED <<history, seen, commit_ts, read_lock>>
      /\ memory' = [a \in Addr |-> IF words[a] = NULL THEN memory[a] ELSE words[a]]
  BY DEF WriteBack, Goto, At, clocks, ghosts, Mine
<1>2. q \in State /\ q.i \in 1 .. k /\ k \in Nat
  BY <1>1, LogPhase, LoopEntry
<1>3. /\ r.write_log = q.write_log /\ r.read_log = q.read_log /\ r.pc = "unlock_read"
      /\ r.i = q.i /\ r.ts = q.ts
  <2> HIDE DEF q
  <2>1. QED BY <1>2, SMT DEF State
<1> HIDE DEF r
<1>4. /\ ReadLockedIn(r) = ReadLockedIn(q) /\ HeldIn(r) = HeldIn(q)
      /\ ReadLockedIn(q) \subseteq HeldIn(q)
      /\ UnwrittenIn(q) = {n \in 1 .. k : n >= q.i} /\ UnwrittenIn(r) = {n \in 1 .. k : n > q.i}
  BY <1>1, <1>2, <1>3 DEF ReadLockedIn, HeldIn, FirstOf, UnwrittenIn
<1>5. Only(t) /\ tx'[t] = r
  BY <1>1, BecomeOnly
<1>6. MemoryFits(t)
  <2>1. SUFFICES ASSUME NEW a \in Addr
                 PROVE  \/ memory'[a] = memory[a] /\ (Unwritten(t, a) => Unwritten(t, a)')
                        \/ \E n \in UnwrittenIn(q) : /\ q.write_log[n].words[a] # NULL
                                                     /\ memory'[a] = q.write_log[n].words[a]
    BY DEF MemoryFits
  <2>2. CASE words[a] # NULL
    BY <1>1, <1>2, <1>4, <2>2
  <2>3. CASE words[a] = NULL
    <3>1. memory'[a] = memory[a]
      BY <1>1, <2>3
    <3>2. ASSUME NEW n \in UnwrittenIn(q), q.write_log[n].words[a] # NULL
          PROVE  n \in UnwrittenIn(r)
      <4>1. n # q.i
        BY <2>3, <3>2
      <4>2. QED BY <1>2, <1>4, <4>1
    <3>3. Unwritten(t, a) => Unwritten(t, a)'
      BY <1>3, <1>5, <3>2 DEF Unwritten
    <3>4. QED BY <3>1, <3>3
  <2>4. QED BY <2>2, <2>3
<1>7. \A n \in ReadLockedIn(r) : read_lock'[r.write_log[n].stripe] = 0
  BY <1>1, <1>3, <1>4 DEF EpochInv, ReadLocksSet
<1>8. UnwrittenIn(r) \subseteq UnwrittenIn(q)
  BY <1>2, <1>4
<1>9. QED BY <1>1, <1>3, <1>4, <1>6, <1>7, <1>8, PublishStep

LEMMA UnlockReadSerial ==
  ASSUME LockInv, LockInv', HistoryTyped, EpochInv, NEW t \in Thread, UnlockRead(t)
  PROVE  EpochInv'
<1> DEFINE q == tx[t]
           k == Len(q.write_log)
           s == q.write_log[q.i].stripe
           r == [q EXCEPT !.pc = "unlock_write"]
<1>1. /\ q.pc = "unlock_read" /\ Become(t, r) /\ UNCHANGED <<history, seen, commit_ts, memory>>
      /\ read_lock' = [read_lock EXCEPT ![s] = q.ts]
  BY DEF UnlockRead, Goto, At, clocks, ghosts, Mine
<1>2. q \in State /\ q.i \in 1 .. k /\ k \in Nat /\ \A n \in 1 .. k : q.write_log[n].stripe \in Stripe
  BY <1>1, LogPhase, LoopEntry
<1>3. /\ r.write_log = q.write_log /\ r.read_log = q.read_log /\ r.pc = "unlock_write"
      /\ r.i = q.i /\ r.ts = q.ts
  <2> HIDE DEF q
  <2>1. QED BY <1>2, SMT DEF State
<1> HIDE DEF r
<1>4. /\ ReadLockedIn(r) = {n \in 1 .. k : n > q.i} /\ HeldIn(r) = HeldIn(q)
      /\ ReadLockedIn(q) = HeldIn(q) /\ HeldIn(q) = {n \in 1 .. k : n >= q.i}
      /\ UnwrittenIn(r) = UnwrittenIn(q)
  BY <1>1, <1>2, <1>3 DEF ReadLockedIn, HeldIn, FirstOf, UnwrittenIn
<1>5. Only(t) /\ tx'[t] = r
  BY <1>1, BecomeOnly
<1>6. MemoryFits(t)
  BY <1>1, <1>3, <1>4, <1>5 DEF MemoryFits, Unwritten
<1>7. read_lock \in [Stripe -> Nat] /\ q.i \in HeldIn(q)
  BY <1>2, <1>4 DEF LockInv, TypeOK
<1>8. \A n \in ReadLockedIn(r) : read_lock'[r.write_log[n].stripe] = 0
  <2>1. SUFFICES ASSUME NEW n \in ReadLockedIn(r) PROVE read_lock'[q.write_log[n].stripe] = 0
    BY <1>3
  <2>2. n \in 1 .. k /\ n > q.i /\ n \in ReadLockedIn(q) /\ n \in HeldIn(q) /\ n # q.i
    BY <1>2, <1>4
  <2>3. read_lock[q.write_log[n].stripe] = 0
    BY <2>2 DEF EpochInv, ReadLocksSet
  <2>4. q.write_log[n].stripe # s
    <3>1. ASSUME NEW x \in HeldIn(q), NEW y \in HeldIn(q), q.write_log[x].stripe = q.write_log[y].stripe
          PROVE  x = y
      BY <3>1, OneOwner
    <3>2. QED BY <1>7, <2>2, <3>1
  <2>5. QED BY <1>1, <1>2, <1>7, <2>2, <2>3, <2>4
<1>9. \A x \in Stripe : \/ read_lock'[x] = read_lock[x]
                        \/ \E n \in HeldIn(r) :
                             /\ r.pc # "committed" /\ q.write_log[n].stripe = x
                             /\ read_lock'[x] = q.ts
  BY <1>1, <1>2, <1>3, <1>4, <1>7
<1>10. QED BY <1>1, <1>3, <1>4, <1>6, <1>8, <1>9, PublishStep

LEMMA UnlockWriteSerial ==
  ASSUME LockInv, LockInv', HistoryTyped, EpochInv, NEW t \in Thread, UnlockWrite(t)
  PROVE  EpochInv'
<1> DEFINE q == tx[t]
           k == Len(q.write_log)
           r == IF q.i < k THEN [q EXCEPT !.pc = "write_back", !.i = @ + 1]
                ELSE [q EXCEPT !.pc = "committed"]
<1>1. /\ q.pc = "unlock_write" /\ Become(t, r)
      /\ UNCHANGED <<history, seen, commit_ts, memory, read_lock>>
  BY DEF UnlockWrite, At, clocks, ghosts
<1>2. q \in State /\ q.i \in 1 .. k /\ k \in Nat
  BY <1>1, LogPhase, LoopEntry
<1>3. /\ r.write_log = q.write_log /\ r.read_log = q.read_log /\ r.ts = q.ts
      /\ \/ r.pc = "write_back" /\ r.i = q.i + 1 /\ q.i < k
         \/ r.pc = "committed" /\ q.i = k
  <2> HIDE DEF q, k
  <2>1. CASE q.i < k
    BY <1>2, <2>1, SMT DEF State
  <2>2. CASE ~ (q.i < k)
    <3>1. q.i = k
      BY <1>2, <2>2
    <3>2. QED BY <1>2, <2>2, <3>1, SMT DEF State
  <2>3. QED BY <2>1, <2>2
<1> HIDE DEF r
<1>4. /\ ReadLockedIn(q) = {n \in 1 .. k : n > q.i} /\ UnwrittenIn(q) = ReadLockedIn(q)
      /\ HeldIn(q) = {n \in 1 .. k : n >= q.i}
  BY <1>1, <1>2 DEF ReadLockedIn, HeldIn, FirstOf, UnwrittenIn
<1>5. /\ ReadLockedIn(r) = ReadLockedIn(q) /\ HeldIn(r) = ReadLockedIn(q)
      /\ UnwrittenIn(r) = UnwrittenIn(q)
  <2>1. CASE r.pc = "write_back"
    BY <1>2, <1>3, <1>4, <2>1 DEF ReadLockedIn, HeldIn, FirstOf, UnwrittenIn
  <2>2. CASE r.pc = "committed"
    BY <1>2, <1>3, <1>4, <2>2 DEF ReadLockedIn, HeldIn, FirstOf, UnwrittenIn
  <2>3. QED BY <1>3, <2>1, <2>2
<1>6. Only(t) /\ tx'[t] = r
  BY <1>1, BecomeOnly
<1>7. MemoryFits(t)
  BY <1>1, <1>3, <1>5, <1>6 DEF MemoryFits, Unwritten
<1>8. \A n \in ReadLockedIn(r) : read_lock'[r.write_log[n].stripe] = 0
  BY <1>1, <1>3, <1>5 DEF EpochInv, ReadLocksSet
<1>9. HeldIn(r) \subseteq HeldIn(q) /\ (r.pc = "committed" => ReadLockedIn(q) = {})
  BY <1>2, <1>3, <1>4, <1>5
<1>10. QED BY <1>1, <1>3, <1>5, <1>7, <1>8, <1>9, PublishStep

----------------------------------------------------------------------------
(* The commit *)

\* An entry that has passed its check holds until just before the timestamp.
LEMMA ValidEntry ==
  ASSUME LockInv, HistoryTyped, EpochInv, NEW t \in Thread, Pending(t),
         NEW s \in Stripe, NEW v \in Nat, ReadClaim(t, tx[t], s, v), v >= 1,
         read_lock[s] = v \/ (read_lock[s] = 0 /\ LockedByMe(t, write_lock[s])),
         NEW T, T = tx[t].ts - 1
  PROVE  Clean(s, v, T, t)
<1> DEFINE q == tx[t]
<1>1. /\ q \in State /\ Local(t, q) /\ q.ts \in Nat /\ q.ts >= 1 /\ T \in Nat
      /\ HeldIn(q) = 1 .. Len(q.write_log)
      /\ \A n \in HeldIn(q) : Version[q.write_log[n].stripe] = EntryVersion(q, n)
  <2>1. /\ q \in State /\ Local(t, q) /\ HeldIn(q) = 1 .. Len(q.write_log)
        /\ \A n \in HeldIn(q) : Version[q.write_log[n].stripe] = EntryVersion(q, n)
    BY LogPhase DEF Pending, LogPc
  <2>2. q.ts \in Nat /\ q.ts >= 1
    BY <2>1 DEF Local, PlacedAs, Pending, State
  <2>3. QED BY <2>1, <2>2
<1>2. PICK T0 \in Nat : SnapAt(t, T0)
  BY DEF EpochInv, Knows, Snapshot
<1>3. Clean(s, v, T0, t) /\ T0 <= T
  BY <1>1, <1>2 DEF SnapAt, Claim, Pending, Snapped
<1>4. v <= T
  BY <1>1, <1>3 DEF Clean
<1>5. CASE read_lock[s] = v
  <2>1. Version[s] = v /\ Closed(s, T, t)
    BY <1>5, NotLocked DEF EpochInv, Closed
  <2>2. QED BY <1>1, <1>4, <2>1, NewestClean
<1>6. CASE read_lock[s] = 0 /\ LockedByMe(t, write_lock[s])
  <2>1. PICK n \in HeldIn(q) : q.write_log[n].stripe = s
    BY <1>6, LockedEntry
  <2>2. Closed(s, T, t)
    BY <2>1, OwnClosed
  <2>3. Version[s] = q.write_log[n].old_version
    BY <1>1, <2>1 DEF EntryVersion, Pending
  <2>4. q.write_log[n].old_version >= 1 /\ q.write_log[n].old_version \in Nat
    BY <1>1, <2>1, EntryTyped DEF Local, LoggedAs, FillingIn, Pending
  <2>5. LockClaim(q, s, Version[s]) /\ Version[s] \in Nat
    BY <1>1, <2>1, <2>3, <2>4 DEF LockClaim
  <2>6. Clean(s, Version[s], T0, t)
    BY <1>2, <2>5 DEF SnapAt, Claim, Pending, Snapped
  <2>7. ASSUME NEW c \in history.commits, Wrote(c, s) PROVE c.ts <= v
    <3>1. c.ts <= Version[s] /\ c.ts \in Nat
      BY <2>7 DEF EpochInv, Versions, HistoryTyped, Commit
    <3>2. Version[s] <= T0
      BY <2>6 DEF Clean
    <3>3. QED BY <1>3, <2>5, <2>7, <3>1, <3>2 DEF Clean
  <2>8. QED BY <1>4, <2>2, <2>7 DEF Clean
<1>7. QED BY <1>5, <1>6

\* The greatest of the commits that wrote a.
LEMMA LastWriter ==
  ASSUME NEW a, NEW C, NEW c \in C, c.words[a] # NULL,
         \A d \in C : d.words[a] # NULL => NotAfter(d, c) /\ (d # c => ~ NotAfter(c, d))
  PROVE  ValueIn(a, C) = c.words[a]
<1> DEFINE W == {d \in C : d.words[a] # NULL}
<1>1. W # {} /\ c \in W /\ \A d \in W : NotAfter(d, c)
  OBVIOUS
<1>2. \A e \in W : (\A d \in W : NotAfter(d, e)) => e = c
  OBVIOUS
<1> DEFINE e == CHOOSE x \in W : \A d \in W : NotAfter(d, x)
<1>3. e = c
  <2>1. e \in W /\ \A d \in W : NotAfter(d, e)
    BY <1>1
  <2> HIDE DEF e, W
  <2>2. QED BY <1>2, <2>1
<1>4. ValueIn(a, C) = IF W = {} THEN 0 ELSE e.words[a]
  BY DEF ValueIn
<1> HIDE DEF e, W
<1>5. QED BY <1>1, <1>3, <1>4

\* The words of a commit are those of the log.
LEMMA WordsOfLog ==
  ASSUME LockInv, EpochInv, NEW t \in Thread, tx[t].pc \in LockedPc, NEW a \in Addr
  PROVE  /\ \A n \in 1 .. Len(tx[t].write_log) : tx[t].write_log[n].words[a] # NULL =>
              Words(t)[a] = tx[t].write_log[n].words[a]
         /\ Words(t)[a] # NULL => \E n \in 1 .. Len(tx[t].write_log) :
              tx[t].write_log[n].words[a] # NULL /\ tx[t].write_log[n].stripe = StripeOf[a]
         /\ Words(t)[a] \in Nat \cup {NULL}
<1> DEFINE log == tx[t].write_log
           hits == {i \in DOMAIN log : log[i].words[a] # NULL}
           first == CHOOSE i \in hits : TRUE
<1>1. /\ log \in Seq(Entry) /\ DOMAIN log = 1 .. Len(log)
      /\ HeldIn(tx[t]) = 1 .. Len(log)
      /\ \A n \in 1 .. Len(log) : /\ log[n].words[a] \in Nat \cup {NULL}
                                  /\ log[n].words[a] # NULL => log[n].stripe = StripeOf[a]
  <2>1. tx[t] \in State /\ Local(t, tx[t]) /\ HeldIn(tx[t]) = 1 .. Len(log)
    BY LogPhase DEF LogPc
  <2>2. log \in Seq(Entry) /\ DOMAIN log = 1 .. Len(log)
    BY <2>1 DEF State
  <2>3. \A n \in 1 .. Len(log) : log[n].words[a] \in Nat \cup {NULL}
    BY <2>1, EntryTyped
  <2>4. \A n \in 1 .. Len(log) : log[n].words[a] # NULL => log[n].stripe = StripeOf[a]
    BY <2>1 DEF Local, LoggedAs
  <2>5. QED BY <2>1, <2>2, <2>3, <2>4
<1>2. Words(t)[a] = IF hits = {} THEN NULL ELSE log[first].words[a]
  BY DEF Words, Mine
<1>3. hits # {} => first \in hits
  OBVIOUS
<1> HIDE DEF first
<1>4. ASSUME NEW n \in 1 .. Len(log), log[n].words[a] # NULL
      PROVE  Words(t)[a] = log[n].words[a]
  <2>1. n \in hits /\ hits # {}
    BY <1>1, <1>4
  <2>2. first \in 1 .. Len(log) /\ log[first].stripe = StripeOf[a] /\ log[n].stripe = StripeOf[a]
    BY <1>1, <1>3, <1>4, <2>1
  <2>3. first = n
    BY <1>1, <2>2, OneOwner
  <2>4. QED BY <1>2, <2>1, <2>3
<1>5. ASSUME Words(t)[a] # NULL
      PROVE  \E n \in 1 .. Len(log) : log[n].words[a] # NULL /\ log[n].stripe = StripeOf[a]
  <2>1. hits # {}
    BY <1>2, <1>5
  <2>2. QED BY <1>1, <1>3, <2>1
<1>6. Words(t)[a] \in Nat \cup {NULL}
  <2>1. CASE hits = {}
    BY <1>2, <2>1
  <2>2. CASE hits # {}
    BY <1>1, <1>2, <1>3, <2>2
  <2>3. QED BY <2>1, <2>2
<1>7. QED BY <1>4, <1>5, <1>6

\* t may commit at ts: what it has read holds until just before.
MayCommit(t, ts) ==
  /\ \/ tx[t].pc = "increment_ts" /\ ts = commit_ts + 1
     \/ Pending(t) /\ ts = tx[t].ts
  /\ \A n \in 1 .. Len(tx[t].read_log) :
       Clean(tx[t].read_log[n].stripe, tx[t].read_log[n].version, ts - 1, t)

LEMMA CommitTime ==
  ASSUME LockInv, HistoryTyped, EpochInv, NEW t \in Thread, NEW ts, MayCommit(t, ts)
  PROVE  /\ ts \in Nat /\ ts >= 1 /\ Past(t, t, ts - 1) /\ tx[t].pc \in LockedPc
         /\ tx[t].pc \in Snapped
         /\ \A T \in Nat : SnapAt(t, T) => T <= ts - 1
<1>1. commit_ts \in Nat /\ tx[t].ts \in Nat /\ (Pending(t) => tx[t].ts <= commit_ts)
  BY DEF LockInv, TypeOK, State, EpochInv, Knows, HeldVersions, Pending
<1>2. Pending(t) => tx[t].ts >= 1
  BY ThreadFacts DEF Local, PlacedAs, Pending
<1>3. QED BY <1>1, <1>2 DEF MayCommit, Past, Pending, SnapAt, Snapped

\* The stripes it writes are its own, and have an older version.
LEMMA CommitStripes ==
  ASSUME LockInv, HistoryTyped, EpochInv, NEW t \in Thread, NEW ts, MayCommit(t, ts),
         NEW n \in 1 .. Len(tx[t].write_log), NEW s, s = tx[t].write_log[n].stripe
  PROVE  /\ s \in Stripe /\ n \in HeldIn(tx[t]) /\ read_lock[s] = 0
         /\ Version[s] = tx[t].write_log[n].old_version /\ Version[s] \in Nat /\ Version[s] >= 1
         /\ Version[s] < ts /\ LockClaim(tx[t], s, Version[s])
         /\ Clean(s, Version[s], ts - 1, t)
<1> DEFINE q == tx[t]
           v == q.write_log[n].old_version
<1>1. ts \in Nat /\ ts >= 1 /\ q.pc \in LockedPc /\ q.pc \in Snapped
  BY CommitTime
<1>2. /\ HeldIn(q) = 1 .. Len(q.write_log) /\ s \in Stripe /\ Local(t, q)
      /\ Version[s] = EntryVersion(q, n)
  BY <1>1, LogPhase DEF LogPc
<1>3. EntryVersion(q, n) = v
  BY <1>1 DEF EntryVersion
<1>4. n \in ReadLockedIn(q)
  BY <1>1 DEF ReadLockedIn
<1>5. read_lock[s] = 0
  BY <1>4 DEF EpochInv, ReadLocksSet
<1>6. v >= 1
  BY <1>1, <1>2 DEF Local, LoggedAs, FillingIn
<1>7. Version[s] \in Nat
  BY <1>2 DEF EpochInv, Versions
<1>8. LockClaim(q, s, Version[s])
  BY <1>2, <1>3, <1>6 DEF LockClaim
<1>9. PICK T \in Nat : SnapAt(t, T)
  BY DEF EpochInv, Knows, Snapshot
<1>10. T <= ts - 1
  BY <1>9, CommitTime
<1>11. Clean(s, Version[s], T, t)
  BY <1>1, <1>2, <1>7, <1>8, <1>9 DEF SnapAt, Claim
<1>12. Version[s] <= T
  BY <1>11 DEF Clean
<1>13. Version[s] < ts /\ Version[s] <= ts - 1
  BY <1>1, <1>7, <1>10, <1>12
<1>14. ASSUME NEW T1 \in Nat, T1 = ts - 1 PROVE Clean(s, Version[s], T1, t)
  <2>1. Closed(s, T1, t)
    BY <1>2, OwnClosed
  <2>2. QED BY <1>2, <1>13, <1>14, <2>1, NewestClean
<1>15. QED BY <1>1, <1>2, <1>3, <1>5, <1>6, <1>7, <1>8, <1>13, <1>14

\* What it has read is there just before it.
LEMMA CommitReads ==
  ASSUME LockInv, HistoryTyped, EpochInv, NEW t \in Thread, NEW ts, MayCommit(t, ts),
         NEW x \in seen[t], NEW T1, T1 = ts - 1
  PROVE  There(x, T1, t)
<1> DEFINE q == tx[t]
           s == StripeOf[x.addr]
<1>1. /\ ts \in Nat /\ ts >= 1 /\ q.pc \in LockedPc /\ q.pc \in Snapped
      /\ T1 \in Nat
  BY CommitTime
<1>2. x.addr \in Addr /\ s \in Stripe
  BY Constants DEF HistoryTyped, Read
<1>3. PICK T \in Nat : SnapAt(t, T)
  BY DEF EpochInv, Knows, Snapshot
<1>4. There(x, T, t)
  BY <1>3 DEF SnapAt
<1>5. PICK v \in Nat : Claim(t, q, s, v)
  BY <1>1, <1>3 DEF SnapAt
<1>6. Clean(s, v, T, t)
  BY <1>1, <1>2, <1>3, <1>5 DEF SnapAt
<1>7. Clean(s, v, T1, t)
  <2>1. CASE ReadClaim(t, q, s, v)
    BY <2>1 DEF ReadClaim, MayCommit
  <2>2. CASE LockClaim(q, s, v)
    <3>1. PICK n \in 1 .. Len(q.write_log) : q.write_log[n].stripe = s /\ q.write_log[n].old_version = v
      BY <2>2 DEF LockClaim
    <3>2. QED BY <3>1, CommitStripes
  <2>3. QED BY <1>5, <2>1, <2>2 DEF Claim
<1>8. v \in Int /\ T \in Int /\ T1 \in Int
  BY <1>1
<1>9. /\ ValueAt(history.commits, x.addr, T) = ValueAt(history.commits, x.addr, v)
      /\ ValueAt(history.commits, x.addr, T1) = ValueAt(history.commits, x.addr, v)
  BY <1>2, <1>6, <1>7, <1>8, CleanValue
<1>10. QED BY <1>4, <1>7, <1>9 DEF There, Clean

\* The step by which t has committed: it owns its stripes at the new version.
Committing(t, r, ts) ==
  /\ Become(t, r) /\ UNCHANGED <<read_lock, memory, seen>>
  /\ MayCommit(t, ts) /\ Commits(t, ts)
  /\ r.pc = "write_back" /\ r.i = 1 /\ r.ts = ts
  /\ r.write_log = tx[t].write_log /\ r.read_log = tx[t].read_log
  /\ commit_ts' \in Nat /\ commit_ts' >= commit_ts /\ ts <= commit_ts'

TheCommit(t, ts) == [epoch |-> history.epoch, ts |-> ts, words |-> Words(t), seen |-> seen[t]]

LEMMA CommitWrites ==
  ASSUME LockInv, HistoryTyped, EpochInv, NEW t \in Thread, NEW ts, MayCommit(t, ts), NEW a \in Addr
  PROVE  LET c == TheCommit(t, ts)
         IN /\ c.words[a] # NULL => StripeOf[a] \in StripesOf(t)
            /\ \A n \in 1 .. Len(tx[t].write_log) : tx[t].write_log[n].words[a] # NULL =>
                 c.words[a] = tx[t].write_log[n].words[a]
            /\ c.words[a] # NULL => \A d \in history.commits :
                 d.words[a] # NULL => d.ts \in Nat /\ d.ts < ts
<1> DEFINE c == TheCommit(t, ts)
<1>1. c.words = Words(t)
  BY DEF TheCommit
<1>2. tx[t].pc \in LockedPc /\ ts \in Nat
  BY CommitTime
<1>3. /\ \A n \in 1 .. Len(tx[t].write_log) : tx[t].write_log[n].words[a] # NULL =>
           c.words[a] = tx[t].write_log[n].words[a]
      /\ c.words[a] # NULL => StripeOf[a] \in StripesOf(t)
  BY <1>1, <1>2, WordsOfLog DEF StripesOf
<1>4. ASSUME c.words[a] # NULL, NEW d \in history.commits, d.words[a] # NULL
      PROVE  d.ts \in Nat /\ d.ts < ts
  <2>1. PICK n \in 1 .. Len(tx[t].write_log) : tx[t].write_log[n].stripe = StripeOf[a]
    BY <1>3, <1>4 DEF StripesOf
  <2>2. StripeOf[a] \in Stripe /\ Version[StripeOf[a]] \in Nat /\ Version[StripeOf[a]] < ts
    BY <2>1, CommitStripes
  <2>3. Wrote(d, StripeOf[a])
    BY <1>4 DEF Wrote
  <2>4. d.ts <= Version[StripeOf[a]] /\ d.ts \in Nat
    BY <2>2, <2>3 DEF EpochInv, Versions, HistoryTyped, Commit
  <2>5. QED BY <1>2, <2>2, <2>4
<1>5. QED BY <1>3, <1>4

\* The versions after the commit.
LEMMA CommitVersions ==
  ASSUME LockInv, LockInv', HistoryTyped, EpochInv, NEW t \in Thread, NEW r, NEW ts,
         Committing(t, r, ts), NEW s \in Stripe
  PROVE  IF s \in StripesOf(t)
         THEN Version'[s] = ts /\ Version[s] < ts /\ \E n \in Nat \ {0} : write_lock[s] = <<t, n>>
         ELSE Version'[s] = Version[s] /\ (s \in Settled => s \in Settled')
<1> DEFINE q == tx[t]
<1>1. Only(t) /\ tx'[t] = r
  BY BecomeOnly DEF Committing
<1>2. /\ read_lock' = read_lock /\ MayCommit(t, ts) /\ r.pc = "write_back" /\ r.i = 1 /\ r.ts = ts
      /\ r.write_log = q.write_log
  BY DEF Committing
<1>3. Owners /\ Owners'
  <2>1. Owners
    BY Owned
  <2>2. Owners'
    BY Owned, PTL
  <2>3. QED BY <2>1, <2>2
<1>4. HeldIn(r) = 1 .. Len(r.write_log) /\ UnwrittenIn(r) = 1 .. Len(r.write_log)
  <2>1. Len(r.write_log) \in Nat
    BY <1>1, EntryTyped DEF LockInv, TypeOK
  <2>2. QED BY <1>2, <2>1 DEF HeldIn, FirstOf, UnwrittenIn
<1>5. ASSUME s \in StripesOf(t)
      PROVE  Version'[s] = ts /\ Version[s] < ts /\ \E n \in Nat \ {0} : write_lock[s] = <<t, n>>
  <2>1. PICK n \in 1 .. Len(q.write_log) : q.write_log[n].stripe = s
    BY <1>5 DEF StripesOf
  <2>2. /\ n \in HeldIn(q) /\ read_lock[s] = 0 /\ Version[s] < ts
    BY <1>2, <2>1, CommitStripes
  <2>3. n \in Nat \ {0} /\ write_lock[s] = <<t, n>>
    BY <1>3, <2>1, <2>2 DEF Owners
  <2>4. write_lock'[s] = <<t, n>>
    BY <1>1, <1>2, <1>3, <1>4, <2>1 DEF Owners
  <2>5. Version'[s] = ts
    BY <1>1, <1>2, <2>2, <2>4 DEF Version, EntryVersion
  <2>6. QED BY <2>2, <2>3, <2>5
<1>6. ASSUME s \notin StripesOf(t)
      PROVE  Version'[s] = Version[s] /\ (s \in Settled => s \in Settled')
  <2>1. ASSUME read_lock[s] # 0 PROVE Version'[s] = Version[s]
    BY <1>2, <2>1 DEF Version
  <2>2. ASSUME read_lock[s] = 0 PROVE Version'[s] = Version[s]
    <3>1. PICK u \in Thread : \E n \in ReadLockedIn(tx[u]) :
             /\ n \in HeldIn(tx[u]) /\ tx[u].write_log[n].stripe = s
             /\ Version[s] = EntryVersion(tx[u], n)
      BY <2>2, ReadOwner
    <3>2. PICK n \in ReadLockedIn(tx[u]) :
             /\ n \in HeldIn(tx[u]) /\ tx[u].write_log[n].stripe = s
             /\ Version[s] = EntryVersion(tx[u], n)
      BY <3>1
    <3>3. u # t
      BY <1>3, <1>6, <3>2 DEF Owners, StripesOf
    <3>4. Untouched(tx[u], tx'[u])
      BY <1>1, <3>3 DEF Only
    <3>5. /\ n \in HeldIn(tx'[u]) /\ tx'[u].write_log[n].stripe = s
          /\ EntryVersion(tx'[u], n) = Version[s]
      BY <3>2, <3>4, UntouchedSame DEF Untouched, Continues
    <3>6. write_lock'[s] = <<u, n>>
      BY <1>3, <3>5 DEF Owners
    <3>7. Version'[s] = EntryVersion(tx'[u], n)
      BY <1>2, <2>2, <3>6 DEF Version
    <3>8. QED BY <3>5, <3>7
  <2>3. ASSUME s \in Settled PROVE s \in Settled'
    <3>1. SUFFICES ASSUME NEW u \in Thread, NEW n \in UnwrittenIn(tx'[u])
                   PROVE  tx'[u].write_log[n].stripe # s
      BY DEF Settled
    <3>2. CASE u = t
      BY <1>1, <1>2, <1>4, <1>6, <3>1, <3>2 DEF StripesOf
    <3>3. CASE u # t
      <4>1. Untouched(tx[u], tx'[u])
        BY <1>1, <3>3 DEF Only
      <4>2. n \in UnwrittenIn(tx[u]) /\ tx'[u].write_log = tx[u].write_log
        BY <3>1, <4>1, UntouchedSame DEF Untouched, Continues
      <4>3. QED BY <2>3, <4>2 DEF Settled
    <3>4. QED BY <3>2, <3>3
  <2>4. QED BY <2>1, <2>2, <2>3
<1>7. QED BY <1>5, <1>6

LEMMA CommitEffects ==
  ASSUME LockInv, LockInv', HistoryTyped, EpochInv, NEW t \in Thread, NEW r, NEW ts,
         Committing(t, r, ts)
  PROVE  /\ Effects(t) /\ Only(t) /\ tx'[t] = r /\ ~ Pending(t)' /\ seen' = seen
         /\ history'.commits = history.commits \cup {TheCommit(t, ts)}
         /\ history'.epoch = history.epoch
<1> DEFINE q == tx[t]
           c == TheCommit(t, ts)
<1>1. Only(t) /\ tx'[t] = r
  BY BecomeOnly DEF Committing
<1>2. /\ MayCommit(t, ts) /\ r.pc = "write_back" /\ seen' = seen
      /\ commit_ts' \in Nat /\ commit_ts' >= commit_ts
  BY DEF Committing
<1>3. ts \in Nat
  BY <1>2, CommitTime
<1>4. history'.commits = history.commits \cup {c} /\ history'.epoch = history.epoch
  BY DEF Committing, Commits, TheCommit, HistoryTyped
<1>5. ~ Pending(t)'
  BY <1>1, <1>2 DEF Pending
<1>6. Publishes(t, c)
  <2>1. c.ts = ts /\ (ts = commit_ts + 1 \/ (Pending(t) /\ ts = tx[t].ts))
    BY <1>2 DEF MayCommit, TheCommit
  <2>2. ASSUME NEW s \in Stripe, Wrote(c, s)
        PROVE  s \in StripesOf(t) /\ Version[s] < ts /\ Version'[s] = ts
    <3>1. s \in StripesOf(t)
      BY <1>2, <2>2, CommitWrites DEF Wrote
    <3>2. QED BY <3>1, CommitVersions
  <2>3. QED BY <2>1, <2>2 DEF Publishes
<1>7. \A d \in history'.commits \ history.commits : d.ts \in Nat /\ Publishes(t, d)
  BY <1>3, <1>4, <1>6 DEF TheCommit
<1>8. \A s \in Stripe :
        \/ Version'[s] = Version[s] /\ (s \in Settled => s \in Settled')
        \/ Version'[s] \in Nat /\ Version'[s] > Version[s] /\ \E n \in Nat \ {0} : write_lock[s] = <<t, n>>
  <2>1. SUFFICES ASSUME NEW s \in Stripe
        PROVE  \/ Version'[s] = Version[s] /\ (s \in Settled => s \in Settled')
               \/ Version'[s] \in Nat /\ Version'[s] > Version[s] /\ \E n \in Nat \ {0} : write_lock[s] = <<t, n>>
    OBVIOUS
  <2>2. Version[s] \in Nat
    BY DEF EpochInv, Versions
  <2>3. QED BY <1>3, <2>2, CommitVersions
<1>9. QED BY <1>1, <1>2, <1>4, <1>5, <1>7, <1>8 DEF Effects

\* What was committed before t, and t itself, is serial.
LEMMA CommitSerial ==
  ASSUME LockInv, LockInv', HistoryTyped, EpochInv, NEW t \in Thread, NEW r, NEW ts,
         Committing(t, r, ts)
  PROVE  Serial'
<1> DEFINE c == TheCommit(t, ts)
<1>1. /\ Effects(t) /\ ~ Pending(t)' /\ history'.commits = history.commits \cup {c}
      /\ MayCommit(t, ts)
  BY CommitEffects DEF Committing
<1>2. ASSUME NEW d \in history.commits, NEW x \in d.seen PROVE There(x, d.ts - 1, 0)'
  BY <1>1, <1>2, SerialStable DEF EpochInv
<1>3. ASSUME NEW x \in seen[t], NEW T1, T1 = ts - 1 PROVE There(x, T1, 0)'
  <2>1. There(x, T1, t) /\ Past(t, t, T1) /\ x \in Read
    BY <1>1, <1>3, CommitReads, CommitTime DEF HistoryTyped
  <2>2. There(x, T1, t)'
    BY <1>1, <2>1, ThereStable
  <2>3. Closed(StripeOf[x.addr], T1, t)' => Closed(StripeOf[x.addr], T1, 0)'
    BY <1>1 DEF Closed
  <2>4. QED BY <2>2, <2>3 DEF There
<1>4. c.ts = ts /\ c.seen = seen[t]
  BY DEF TheCommit
<1>5. QED BY <1>1, <1>2, <1>3, <1>4 DEF Serial

LEMMA CommitTimestamps ==
  ASSUME LockInv, LockInv', HistoryTyped, EpochInv, history.epoch = 0, NEW t \in Thread, NEW r,
         NEW ts, Committing(t, r, ts)
  PROVE  Versions' /\ Timestamps'
<1> DEFINE c == TheCommit(t, ts)
<1>1. /\ Only(t) /\ ~ Pending(t)' /\ history'.commits = history.commits \cup {c}
      /\ MayCommit(t, ts) /\ commit_ts' \in Nat /\ commit_ts' >= commit_ts /\ ts <= commit_ts'
      /\ c.ts = ts /\ c.epoch = 0
  BY CommitEffects DEF Committing, TheCommit
<1>2. ts \in Nat /\ commit_ts \in Nat /\ \A u \in Thread : tx[u].ts \in Nat
  BY <1>1, CommitTime DEF LockInv, TypeOK, State
<1>3. Versions'
  <2>1. ASSUME NEW s \in Stripe
        PROVE  /\ Version'[s] \in Nat /\ Version'[s] <= commit_ts' /\ Version'[s] >= Version[s]
               /\ Wrote(c, s) => c.ts <= Version'[s]
    <3>1. Version[s] \in Nat /\ Version[s] <= commit_ts
      BY DEF EpochInv, Versions
    <3>2. CASE s \in StripesOf(t)
      BY <1>1, <1>2, <3>1, <3>2, CommitVersions
    <3>3. CASE s \notin StripesOf(t)
      <4>1. Version'[s] = Version[s]
        BY <3>3, CommitVersions
      <4>2. ~ Wrote(c, s)
        BY <1>1, <3>3, CommitWrites DEF Wrote
      <4>3. QED BY <1>1, <1>2, <3>1, <4>1, <4>2
    <3>4. QED BY <3>2, <3>3
  <2>2. ASSUME NEW d \in history.commits, NEW s \in Stripe, Wrote(d, s) PROVE d.ts <= Version'[s]
    <3>1. d.ts <= Version[s] /\ d.ts \in Nat /\ Version[s] \in Nat
      BY <2>2 DEF EpochInv, Versions, HistoryTyped, Commit
    <3>2. QED BY <2>1, <3>1
  <2>3. QED BY <1>1, <2>1, <2>2 DEF Versions, Wrote
<1>4. Timestamps'
  <2>1. \A d \in history.commits : d.ts \in Nat /\ d.ts <= commit_ts /\ d.epoch = 0 /\ d.ts # ts
    <3>1. \A d \in history.commits : d.ts \in Nat /\ d.ts <= commit_ts /\ d.epoch = 0
      BY DEF EpochInv, Timestamps, HistoryTyped, Commit
    <3>2. QED BY <1>1, <1>2, <3>1 DEF MayCommit, EpochInv, Timestamps
  <2>2. ASSUME NEW u \in Thread, Pending(u)'
        PROVE  /\ u # t /\ Pending(u) /\ tx'[u].ts = tx[u].ts /\ tx[u].ts <= commit_ts
               /\ tx[u].ts # ts
    <3>1. u # t
      BY <1>1, <2>2
    <3>2. Pending(u) /\ tx'[u].ts = tx[u].ts
      BY <1>1, <2>2, <3>1 DEF Only, Untouched, Pending
    <3>3. tx[u].ts <= commit_ts
      BY <3>2 DEF EpochInv, Knows, HeldVersions, Pending
    <3>4. tx[u].ts # ts
      BY <1>1, <1>2, <3>1, <3>2, <3>3 DEF MayCommit, EpochInv, Timestamps
    <3>5. QED BY <3>1, <3>2, <3>3, <3>4
  <2>3. \A d \in history'.commits : d.epoch = 0 /\ d.ts <= commit_ts'
    BY <1>1, <1>2, <2>1
  <2>4. \A d, e \in history'.commits : d.ts = e.ts => d = e
    BY <1>1, <2>1 DEF EpochInv, Timestamps
  <2>5. \A u \in Thread, d \in history'.commits : Pending(u)' => d.ts # tx'[u].ts
    BY <1>1, <2>2 DEF EpochInv, Timestamps
  <2>6. \A u, w \in Thread : Pending(u)' /\ Pending(w)' /\ u # w => tx'[u].ts # tx'[w].ts
    BY <2>2 DEF EpochInv, Timestamps
  <2>7. QED BY <2>3, <2>4, <2>5, <2>6 DEF Timestamps
<1>5. QED BY <1>3, <1>4

LEMMA CommitMemory ==
  ASSUME LockInv, LockInv', HistoryTyped, EpochInv, history.epoch = 0, NEW t \in Thread, NEW r,
         NEW ts, Committing(t, r, ts)
  PROVE  Memory'
<1> DEFINE q == tx[t]
           c == TheCommit(t, ts)
<1>1. /\ Only(t) /\ tx'[t] = r /\ history'.commits = history.commits \cup {c}
      /\ MayCommit(t, ts) /\ memory' = memory /\ c.ts = ts /\ c.epoch = 0
      /\ r.pc = "write_back" /\ r.i = 1 /\ r.write_log = q.write_log
  BY CommitEffects DEF Committing, TheCommit
<1>2. ts \in Nat /\ q.pc \in LockedPc
  BY <1>1, CommitTime
<1>3. UnwrittenIn(q) = {} /\ UnwrittenIn(r) = 1 .. Len(q.write_log)
  <2>1. Len(q.write_log) \in Nat
    BY EntryTyped DEF LockInv, TypeOK
  <2>2. QED BY <1>1, <1>2, <2>1 DEF UnwrittenIn
<1>4. ASSUME NEW a \in Addr, c.words[a] # NULL
      PROVE  ValueIn(a, history'.commits) = c.words[a]
  <2>1. \A d \in history.commits : d.words[a] # NULL => d.ts \in Nat /\ d.ts < ts
    BY <1>1, <1>4, CommitWrites
  <2>2. \A d \in history.commits : d.epoch = 0
    BY DEF EpochInv, Timestamps
  <2>3. \A d \in history'.commits : d.words[a] # NULL =>
          NotAfter(d, c) /\ (d # c => ~ NotAfter(c, d))
    BY <1>1, <1>2, <2>1, <2>2 DEF NotAfter
  <2>4. c \in history'.commits
    BY <1>1
  <2>5. ASSUME NEW C, C = history'.commits, NEW e, e = c PROVE ValueIn(a, C) = e.words[a]
    BY <1>4, <2>3, <2>4, <2>5, LastWriter
  <2>6. QED BY <2>5
<1>5. ASSUME NEW a \in Addr, c.words[a] = NULL
      PROVE  ValueIn(a, history'.commits) = ValueIn(a, history.commits)
  <2>1. {d \in history'.commits : d.words[a] # NULL} = {d \in history.commits : d.words[a] # NULL}
    BY <1>1, <1>5
  <2>2. QED BY <2>1, ValueSame, Zenon
<1>6. ASSUME NEW u \in Thread, u # t
      PROVE  tx'[u].write_log = tx[u].write_log /\ UnwrittenIn(tx'[u]) = UnwrittenIn(tx[u])
  BY <1>1, <1>6, UntouchedSame DEF Only, Untouched, Continues
<1>7. ASSUME NEW u \in Thread, NEW n \in UnwrittenIn(tx'[u]), NEW a \in Addr,
             tx'[u].write_log[n].words[a] # NULL
      PROVE  ValueIn(a, history'.commits) = tx'[u].write_log[n].words[a]
  <2>1. CASE u = t
    <3>1. n \in 1 .. Len(q.write_log) /\ tx'[u].write_log[n] = q.write_log[n]
      BY <1>1, <1>3, <1>7, <2>1
    <3>2. c.words[a] = q.write_log[n].words[a]
      BY <1>1, <1>7, <3>1, CommitWrites
    <3>3. QED BY <1>4, <1>7, <3>1, <3>2
  <2>2. CASE u # t
    <3>1. n \in UnwrittenIn(tx[u]) /\ tx'[u].write_log[n] = tx[u].write_log[n]
      BY <1>6, <1>7, <2>2
    <3>2. n \in HeldIn(tx[u]) /\ n \in 1 .. Len(tx[u].write_log)
      BY <3>1, UnwrittenLocked, ReadLockedHeld DEF LockInv, TypeOK
    <3>3. tx[u].write_log[n].stripe = StripeOf[a]
      BY <1>7, <3>1, <3>2, ThreadFacts DEF Local, LoggedAs
    <3>4. c.words[a] = NULL
      <4>1. SUFFICES ASSUME StripeOf[a] \in StripesOf(t) PROVE FALSE
        BY <1>1, CommitWrites
      <4>2. PICK m \in 1 .. Len(q.write_log) : q.write_log[m].stripe = StripeOf[a]
        BY <4>1 DEF StripesOf
      <4>3. m \in HeldIn(q)
        BY <1>1, <4>2, CommitStripes
      <4>4. QED BY <2>2, <3>2, <3>3, <4>2, <4>3, OneOwner
    <3>5. ValueIn(a, history.commits) = tx[u].write_log[n].words[a]
      BY <1>7, <3>1 DEF EpochInv, Memory
    <3>6. QED BY <1>5, <3>1, <3>4, <3>5
  <2>3. QED BY <2>1, <2>2
<1>8. ASSUME NEW a \in Addr, \A u \in Thread : ~ Unwritten(u, a)'
      PROVE  memory'[a] = ValueIn(a, history'.commits)
  <2>1. \A u \in Thread : ~ Unwritten(u, a)
    BY <1>3, <1>6, <1>8 DEF Unwritten
  <2>2. c.words[a] = NULL
    <3>1. \A n \in 1 .. Len(q.write_log) : q.write_log[n].words[a] = NULL
      BY <1>1, <1>3, <1>8 DEF Unwritten
    <3>2. c.words = Words(t)
      BY DEF TheCommit
    <3>3. QED BY <1>2, <3>1, <3>2, WordsOfLog
  <2>3. memory[a] = ValueIn(a, history.commits)
    BY <2>1 DEF EpochInv, Memory
  <2>4. QED BY <1>1, <1>5, <2>2, <2>3
<1>9. QED BY <1>7, <1>8 DEF Memory

LEMMA CommitKnows ==
  ASSUME LockInv, LockInv', HistoryTyped, EpochInv, NEW t \in Thread, NEW r, NEW ts,
         Committing(t, r, ts)
  PROVE  Knows(t)'
<1> DEFINE q == tx[t]
<1>1. /\ Effects(t) /\ tx'[t] = r /\ seen' = seen /\ ~ Pending(t)'
      /\ MayCommit(t, ts) /\ r.pc = "write_back" /\ r.i = 1 /\ r.ts = ts
      /\ r.write_log = q.write_log /\ r.read_log = q.read_log /\ ts <= commit_ts'
  BY CommitEffects DEF Committing
<1>2. HeldVersions(t)'
  <2>1. ASSUME NEW n \in HeldIn(r) PROVE Version'[q.write_log[n].stripe] = ts
    <3>1. n \in 1 .. Len(q.write_log)
      BY <1>1, <2>1 DEF HeldIn
    <3>2. q.write_log[n].stripe \in Stripe /\ q.write_log[n].stripe \in StripesOf(t)
      BY <1>1, <3>1, CommitStripes DEF StripesOf
    <3>3. QED BY <3>2, CommitVersions
  <2>2. QED BY <1>1, <2>1 DEF HeldVersions
<1>3. Snapshot(t)'
  <2>1. PICK T \in Nat : SnapAt(t, T)
    BY DEF EpochInv, Knows, Snapshot
  <2>2. T <= commit_ts' /\ \A x \in seen[t] : There(x, T, t)'
    BY <1>1, <2>1, SnapStable
  <2>3. SnapAt(t, T)'
    BY <1>1, <2>2 DEF SnapAt, Snapped
  <2>4. QED BY <2>3 DEF Snapshot
<1>4. Reading(t)' /\ Extending(t)' /\ Validating(t)'
  BY <1>1, NotBusy DEF BusyPc
<1>5. Unread(t)' /\ ReadVersions(t)'
  BY <1>1 DEF Unread, ReadVersions, EpochInv, Knows
<1>6. QED BY <1>2, <1>3, <1>4, <1>5 DEF Knows

LEMMA CommitStep ==
  ASSUME LockInv, LockInv', HistoryTyped, EpochInv, history.epoch = 0, NEW t \in Thread, NEW r,
         NEW ts, Committing(t, r, ts)
  PROVE  EpochInv'
<1>1. /\ Effects(t) /\ Only(t) /\ tx'[t] = r /\ read_lock' = read_lock /\ MayCommit(t, ts)
      /\ r.write_log = tx[t].write_log /\ r.pc = "write_back"
  BY CommitEffects DEF Committing
<1>2. Versions' /\ Timestamps' /\ Memory' /\ Serial'
  BY CommitTimestamps, CommitMemory, CommitSerial
<1>3. \A u \in Thread : Knows(u)'
  BY <1>1, OthersKnow, CommitKnows DEF EpochInv
<1>4. ReadLocksSet'
  <2>1. ASSUME NEW u \in Thread, NEW n \in ReadLockedIn(tx'[u])
        PROVE  read_lock'[tx'[u].write_log[n].stripe] = 0
    <3>1. CASE u = t
      <4>1. n \in 1 .. Len(tx[t].write_log)
        BY <1>1, <2>1, <3>1 DEF ReadLockedIn
      <4>2. QED BY <1>1, <3>1, <4>1, CommitStripes
    <3>2. CASE u # t
      <4>1. ReadLockedIn(tx'[u]) = ReadLockedIn(tx[u]) /\ tx'[u].write_log = tx[u].write_log
        BY <1>1, <3>2, UntouchedSame DEF Only, Untouched, Continues
      <4>2. QED BY <1>1, <2>1, <4>1 DEF EpochInv, ReadLocksSet
    <3>3. QED BY <3>1, <3>2
  <2>2. ASSUME NEW u \in Thread PROVE tx'[u].pc \notin {"restart_locks", "end_sync"}
    BY <1>1, <2>2 DEF Only, Untouched, EpochInv, ReadLocksSet
  <2>3. QED BY <2>1, <2>2 DEF ReadLocksSet
<1>5. QED BY <1>2, <1>3, <1>4 DEF EpochInv

LEMMA IncrementCommitTsSerial ==
  ASSUME LockInv, LockInv', HistoryTyped, EpochInv, history.epoch = 0, NEW t \in Thread,
         IncrementCommitTs(t)
  PROVE  EpochInv'
<1> DEFINE q == tx[t]
           ts == commit_ts + 1
           Skips == Unchanged(t, ts) \/ tx[t].read_log = <<>>
           r1 == [q EXCEPT !.ts = ts, !.pc = "overflow"]
           r2 == [q EXCEPT !.ts = ts, !.pc = "write_back"]
           r3 == [q EXCEPT !.ts = ts, !.pc = "validate"]
<1>1. /\ q.pc = "increment_ts" /\ commit_ts' = ts /\ UNCHANGED <<read_lock, memory, seen>>
      /\ \/ Become(t, r1) /\ UNCHANGED history
         \/ Become(t, r2) /\ Skips /\ Commits(t, ts)
         \/ Become(t, r3) /\ UNCHANGED history
  <2>1. CASE ts >= MAXIMUM_TS
    <3>1. ~ (ts < MAXIMUM_TS)
      BY <2>1, Constants DEF LockInv, TypeOK
    <3>2. Become(t, r1)
      BY <2>1 DEF IncrementCommitTs
    <3>3. UNCHANGED history
      BY <3>1, Zenon DEF IncrementCommitTs
    <3>4. QED BY <3>2, <3>3 DEF IncrementCommitTs, At
  <2>2. CASE ~ (ts >= MAXIMUM_TS) /\ Skips
    <3>1. ts < MAXIMUM_TS
      BY <2>2, Constants DEF LockInv, TypeOK
    <3>2. Become(t, r2)
      BY <2>2 DEF IncrementCommitTs
    <3>3. Commits(t, ts)
      BY <2>2, <3>1, Zenon DEF IncrementCommitTs
    <3>4. QED BY <2>2, <3>2, <3>3 DEF IncrementCommitTs, At
  <2>3. CASE ~ (ts >= MAXIMUM_TS) /\ ~ Skips
    <3>1. Become(t, r3)
      BY <2>3 DEF IncrementCommitTs
    <3>2. UNCHANGED history
      BY <2>3, Zenon DEF IncrementCommitTs
    <3>3. QED BY <3>1, <3>2 DEF IncrementCommitTs, At
  <2>4. QED BY <2>1, <2>2, <2>3
<1>3. q \in State /\ Local(t, q) /\ q.i = 1 /\ ~ q.rolled_back
  BY <1>1, LogPhase DEF LogPc, Local, PlacedAs
<1>4. commit_ts \in Nat /\ ts \in Nat
  BY DEF LockInv, TypeOK
<1>5. /\ r1.pc = "overflow" /\ r2.pc = "write_back" /\ r3.pc = "validate"
      /\ \A p \in {r1, r2, r3} :
           /\ p.write_log = q.write_log /\ p.read_log = q.read_log /\ p.valid_ts = q.valid_ts
           /\ p.rolled_back = q.rolled_back /\ p.i = 1 /\ p.ts = ts
  <2> HIDE DEF q, ts
  <2>1. QED BY <1>3, <1>4, SMT DEF State
<1> HIDE DEF r1, r2, r3
<1>6. CASE Become(t, r2) /\ Skips /\ Commits(t, ts)
  <2>1. ASSUME NEW n \in 1 .. Len(q.read_log)
        PROVE  Clean(q.read_log[n].stripe, q.read_log[n].version, ts - 1, t)
    <3>1. PICK T \in Nat : SnapAt(t, T)
      BY DEF EpochInv, Knows, Snapshot
    <3>2. q.read_log # <<>>
      BY <1>3, <2>1, EntryTyped
    <3>3. q.valid_ts = commit_ts
      BY <1>3, <1>4, <1>6, <3>2 DEF Unchanged, State
    <3>4. T = ts - 1
      BY <1>1, <1>4, <3>1, <3>3 DEF SnapAt, Snapped
    <3>5. q.read_log[n].stripe \in Stripe /\ q.read_log[n].version \in Nat
      BY <1>3, <2>1, EntryTyped
    <3>6. Claim(t, q, q.read_log[n].stripe, q.read_log[n].version)
      BY <1>1, <2>1 DEF Claim, ReadClaim, ReadingNow
    <3>7. Clean(q.read_log[n].stripe, q.read_log[n].version, T, t)
      BY <1>1, <3>1, <3>5, <3>6 DEF SnapAt, Snapped
    <3>8. QED BY <3>4, <3>7
  <2>2. MayCommit(t, ts)
    BY <1>1, <2>1 DEF MayCommit
  <2>3. Committing(t, r2, ts)
    BY <1>1, <1>4, <1>5, <1>6, <2>2 DEF Committing
  <2>4. QED BY <2>3, CommitStep
<1>7. ASSUME NEW p \in {r1, r3}, Become(t, p), UNCHANGED history
      PROVE  EpochInv'
  <2>1. Only(t) /\ tx'[t] = p
    BY <1>1, <1>7, BecomeOnly
  <2>2. /\ p.pc \in {"overflow", "validate"} /\ p.write_log = q.write_log
        /\ p.read_log = q.read_log /\ p.valid_ts = q.valid_ts
        /\ p.rolled_back = q.rolled_back /\ p.i = 1 /\ p.ts = ts
    BY <1>5
  <2>3. Validating(t)'
    <3>1. \A n \in 1 .. Len(p.read_log) : ~ (n < p.i)
      BY <1>3, <2>2, EntryTyped
    <3>2. QED BY <2>1, <3>1 DEF Validating
  <2>4. \A n \in ReadLockedIn(p) : read_lock'[p.write_log[n].stripe] = 0
    <3>1. ReadLockedIn(p) \subseteq ReadLockedIn(q)
      BY <1>1, <2>2 DEF ReadLockedIn
    <3>2. QED BY <1>1, <2>2, <3>1 DEF EpochInv, ReadLocksSet
  <2>5. commit_ts' \in Nat /\ commit_ts' >= commit_ts
    BY <1>1, <1>4
  <2>6. QED BY <1>1, <1>7, <2>2, <2>3, <2>4, <2>5, LogStep DEF LogPc, Snapped
<1>8. QED BY <1>1, <1>6, <1>7

LEMMA ValidateCommitSerial ==
  ASSUME LockInv, LockInv', HistoryTyped, EpochInv, history.epoch = 0, NEW t \in Thread,
         ValidateCommit(t)
  PROVE  EpochInv'
<1> DEFINE q == tx[t]
           k == Len(q.read_log)
           e == tx[t].read_log[tx[t].i]
           Valid == \/ read_lock[e.stripe] = e.version
                    \/ (read_lock[e.stripe] = READ_LOCK_SET /\ LockedByMe(t, write_lock[e.stripe]))
           r1 == [q EXCEPT !.pc = "release", !.i = 1]
           r2 == [q EXCEPT !.i = q.i + 1]
           r3 == [q EXCEPT !.pc = "write_back", !.i = 1]
<1>1. /\ q.pc = "validate" /\ UNCHANGED <<read_lock, memory, commit_ts, seen>>
  BY DEF ValidateCommit, At, clocks
<1>2. /\ q \in State /\ Local(t, q) /\ q.i \in 1 .. k /\ k \in Nat /\ ~ q.rolled_back
      /\ \A n \in 1 .. k : q.read_log[n].stripe \in Stripe /\ q.read_log[n].version \in Nat
  BY <1>1, LogPhase, EntryTyped DEF LogPc, Local, PlacedAs
<1>3. /\ ~ Valid => Become(t, r1) /\ UNCHANGED history
      /\ Valid /\ q.i < k => Become(t, r2) /\ UNCHANGED history
      /\ Valid /\ q.i = k => Become(t, r3) /\ Commits(t, q.ts)
  <2>1. ~ Valid => Become(t, r1)
    BY DEF ValidateCommit
  <2>2. ~ Valid \/ q.i # k => UNCHANGED history
    BY Zenon DEF ValidateCommit
  <2>3. Valid /\ q.i = k => Commits(t, q.ts)
    BY Zenon DEF ValidateCommit
  <2>4. Valid => Become(t, Advance(q, k, "write_back"))
    BY DEF ValidateCommit
  <2>5. /\ q.i < k => Advance(q, k, "write_back") = r2 /\ q.i # k
        /\ q.i = k => Advance(q, k, "write_back") = r3
    <3>1. q.i = k => ~ (q.i < k)
      BY <1>2
    <3>2. q.i < k => q.i # k
      BY <1>2
    <3>3. QED BY <3>1, <3>2, Zenon DEF Advance
  <2> HIDE DEF Valid, q, r1, r2, r3, k
  <2>6. QED BY <2>1, <2>2, <2>3, <2>4, <2>5
<1>4. /\ r1.pc = "release" /\ r1.i = 1
      /\ r2.pc = "validate" /\ r2.i = q.i + 1
      /\ r3.pc = "write_back" /\ r3.i = 1 /\ r3.ts = q.ts
      /\ \A p \in {r1, r2, r3} :
           /\ p.write_log = q.write_log /\ p.read_log = q.read_log /\ p.valid_ts = q.valid_ts
           /\ p.rolled_back = q.rolled_back /\ p.ts = q.ts
  <2> HIDE DEF q
  <2>1. QED BY <1>1, <1>2, SMT DEF State
<1> HIDE DEF r1, r2, r3
<1>5. commit_ts \in Nat
  BY DEF LockInv, TypeOK
<1>6. ASSUME NEW p \in {r1, r2, r3}, Become(t, p), p.pc \in {"release", "validate"}
      PROVE  /\ \A n \in ReadLockedIn(p) : read_lock'[p.write_log[n].stripe] = 0
             /\ tx'[t] = p
  <2>1. ReadLockedIn(p) \subseteq ReadLockedIn(q)
    BY <1>1, <1>4, <1>6 DEF ReadLockedIn
  <2>2. tx'[t] = p
    BY <1>1, <1>6, BecomeOnly
  <2>3. QED BY <1>1, <1>4, <2>1, <2>2 DEF EpochInv, ReadLocksSet
<1>7. Valid => Clean(e.stripe, e.version, q.ts - 1, t)
  <2>1. e.version >= 1 /\ e.stripe \in Stripe /\ e.version \in Nat
    BY <1>2 DEF EpochInv, Knows, ReadVersions
  <2>2. ReadClaim(t, q, e.stripe, e.version) /\ Pending(t)
    BY <1>1, <1>2 DEF ReadClaim, ReadingNow, Pending
  <2>3. ASSUME Valid, NEW T, T = q.ts - 1, NEW s, s = e.stripe, NEW v, v = e.version
        PROVE  Clean(s, v, T, t)
    BY <2>1, <2>2, <2>3, ValidEntry DEF READ_LOCK_SET
  <2>4. QED BY <2>3
<1>8. \A n \in 1 .. k : n < q.i => Clean(q.read_log[n].stripe, q.read_log[n].version, q.ts - 1, t)
  BY <1>1 DEF EpochInv, Knows, Validating
<1>9. \A n \in 1 .. k : Valid /\ n <= q.i => Clean(q.read_log[n].stripe, q.read_log[n].version, q.ts - 1, t)
  BY <1>2, <1>7, <1>8
<1> HIDE DEF Valid
<1>10. CASE ~ Valid
  <2>1. Become(t, r1) /\ UNCHANGED history
    BY <1>3, <1>10
  <2>2. Validating(t)' /\ ~ Pending(t)'
    BY <1>4, <1>6, <2>1 DEF Validating, Pending
  <2>3. \A n \in ReadLockedIn(r1) : read_lock'[r1.write_log[n].stripe] = 0
    BY <1>4, <1>6, <2>1
  <2>4. QED BY <1>1, <1>4, <1>5, <2>1, <2>2, <2>3, LogStep DEF LogPc, Snapped
<1>11. CASE Valid /\ q.i < k
  <2>1. Become(t, r2) /\ UNCHANGED history
    BY <1>3, <1>11
  <2>2. tx'[t] = r2 /\ \A n \in ReadLockedIn(r2) : read_lock'[r2.write_log[n].stripe] = 0
    BY <1>4, <1>6, <2>1
  <2>3. Only(t)
    BY <1>1, <2>1, BecomeOnly
  <2>4. ASSUME NEW n \in 1 .. k, n < q.i + 1
        PROVE  Clean(q.read_log[n].stripe, q.read_log[n].version, q.ts - 1, t)'
    <3>1. Clean(q.read_log[n].stripe, q.read_log[n].version, q.ts - 1, t)
      BY <1>2, <1>9, <1>11, <2>4
    <3>2. \A u \in Thread \ {t} : /\ tx'[u].pc = tx[u].pc /\ tx'[u].ts = tx[u].ts
                                  /\ tx'[u].write_log = tx[u].write_log
      BY <2>3 DEF Only, Untouched, Continues
    <3>3. ASSUME NEW s, NEW v, NEW T, Clean(s, v, T, t) PROVE Clean(s, v, T, t)'
      <4>1. \A u \in Thread \ {t} : (Pending(u)' <=> Pending(u)) /\ StripesOf(u)' = StripesOf(u)
        BY <3>2 DEF Pending, StripesOf
      <4>2. QED BY <2>1, <3>2, <3>3, <4>1 DEF Clean, Closed
    <3>4. ASSUME NEW T, T = q.ts - 1, NEW log, log = q.read_log
          PROVE  Clean(log[n].stripe, log[n].version, T, t)'
      BY <3>1, <3>3, <3>4
    <3>5. tx'[t].ts = q.ts /\ tx'[t].read_log = q.read_log
      BY <1>4, <2>2
    <3>6. QED BY <3>4, <3>5
  <2>5. Validating(t)'
    <3>1. tx'[t].ts = q.ts /\ tx'[t].read_log = q.read_log /\ tx'[t].i = q.i + 1
      BY <1>4, <2>2
    <3>2. QED BY <3>1, <2>4 DEF Validating
  <2>6. Pending(t) /\ r2.ts = q.ts
    BY <1>1, <1>4 DEF Pending
  <2>7. QED BY <1>1, <1>4, <1>5, <2>1, <2>2, <2>5, <2>6, LogStep DEF LogPc, Snapped
<1>12. CASE Valid /\ q.i = k
  <2>1. Become(t, r3) /\ Commits(t, q.ts)
    BY <1>3, <1>12
  <2>2. MayCommit(t, q.ts)
    BY <1>1, <1>9, <1>12 DEF MayCommit, Pending
  <2>3. q.ts <= commit_ts
    BY <1>1 DEF EpochInv, Knows, HeldVersions
  <2>4. Committing(t, r3, q.ts)
    BY <1>1, <1>4, <1>5, <2>1, <2>2, <2>3 DEF Committing
  <2>5. QED BY <2>4, CommitStep
<1>13. QED BY <1>2, <1>10, <1>11, <1>12

----------------------------------------------------------------------------
(* Init and Next *)

LEMMA SerialInit == Init => SerialInv
<1> SUFFICES ASSUME Init PROVE SerialInv
  OBVIOUS
<1>1. LockInv
  BY LockInit
<1>2. /\ tx = [t \in Thread |-> Idle] /\ \A s \in Stripe : read_lock[s] = 1
      /\ commit_ts = 1 /\ \A a \in Addr : memory[a] = 0
      /\ \A t \in Thread : seen[t] = {} /\ tx[t] = Idle
      /\ history.epoch = 0 /\ history.commits = {}
  BY DEF Init, MINIMUM_TS
<1>3. HistoryTyped
  BY DEF Init, HistoryTyped
<1>4. /\ Idle.pc = "start" /\ Idle.write_log = <<>> /\ Idle.read_log = <<>>
  BY DEF Idle
<1>5. HeldIn(Idle) = {} /\ ReadLockedIn(Idle) = {} /\ UnwrittenIn(Idle) = {}
  BY <1>4 DEF HeldIn, ReadLockedIn, UnwrittenIn
<1>6. \A s \in Stripe : Version[s] = 1
  BY <1>2 DEF Version
<1>7. \A t \in Thread : ~ Pending(t) /\ tx[t].pc = "start"
  BY <1>2, <1>4 DEF Pending
<1>8. ReadLocksSet /\ Versions /\ Timestamps /\ Serial
  BY <1>2, <1>5, <1>6, <1>7 DEF ReadLocksSet, Versions, Timestamps, Serial
<1>9. Memory
  <2>1. \A a \in Addr : ValueIn(a, {}) = 0
    BY DEF ValueIn
  <2>2. QED BY <1>2, <1>5, <2>1 DEF Memory
<1>10. ASSUME NEW t \in Thread PROVE Knows(t)
  <2>1. HeldVersions(t)
    BY <1>2, <1>4, <1>5 DEF HeldVersions
  <2>2. SnapAt(t, 0)
    BY <1>2, <1>7 DEF SnapAt, Snapped
  <2>3. Reading(t) /\ Extending(t) /\ Validating(t) /\ Unread(t)
    BY <1>2, <1>7 DEF Reading, Extending, Validating, Unread
  <2>4. ReadVersions(t)
    BY <1>2, <1>4 DEF ReadVersions
  <2>5. QED BY <2>1, <2>2, <2>3, <2>4 DEF Knows, Snapshot
<1>11. QED BY <1>1, <1>3, <1>8, <1>9, <1>10 DEF SerialInv, EpochInv

\* The words of a log have their type, and so has a commit.
LEMMA CommitsTyped ==
  ASSUME TypeOK, HistoryTyped, NEW t \in Thread, NEW ts \in Nat, Commits(t, ts)
  PROVE  /\ history' \in [epoch : Nat, commits : SUBSET Commit]
         /\ history'.epoch = history.epoch
<1> DEFINE c == TheCommit(t, ts)
           log == tx[t].write_log
<1>1. /\ log \in Seq(Entry) /\ DOMAIN log = 1 .. Len(log) /\ history.epoch \in Nat
      /\ history.commits \subseteq Commit /\ seen[t] \in SUBSET Read
  BY DEF TypeOK, State, HistoryTyped
<1>2. ASSUME NEW a \in Addr PROVE Words(t)[a] \in Nat \cup {NULL}
  <2> DEFINE hits == {i \in DOMAIN log : log[i].words[a] # NULL}
             first == CHOOSE i \in hits : TRUE
  <2>1. Words(t)[a] = IF hits = {} THEN NULL ELSE log[first].words[a]
    BY DEF Words, Mine
  <2>2. hits # {} => first \in DOMAIN log
    OBVIOUS
  <2> HIDE DEF first, hits
  <2>3. hits # {} => log[first] \in Entry
    BY <1>1, <2>2
  <2>4. hits # {} => log[first].words[a] \in Nat \cup {NULL}
    BY <2>3 DEF Entry
  <2>5. QED BY <2>1, <2>4
<1>3. Words(t) \in [Addr -> Nat \cup {NULL}]
  BY <1>2 DEF Words
<1>4. c \in Commit
  BY <1>1, <1>3 DEF TheCommit, Commit
<1>5. history' = [history EXCEPT !.commits = @ \cup {c}]
  BY DEF Commits, TheCommit
<1> HIDE DEF c
<1>6. QED BY <1>1, <1>4, <1>5 DEF HistoryTyped

\* What the ghosts may become in a step.
LEMMA HistoryNext ==
  ASSUME LockInv, HistoryTyped, [Next]_vars
  PROVE  /\ HistoryTyped'
         /\ history'.epoch # history.epoch =>
              history'.epoch # 0 /\ \E t \in Thread : RestartCommitTs(t)
<1> DEFINE SeenKept == seen' \in [Thread -> SUBSET Read]
           Kept == history' = history
<1>1. CASE UNCHANGED vars
  BY <1>1 DEF vars, HistoryTyped
<1>2. ASSUME NEW t \in Thread, NEW a \in Addr, NEW v \in Nat, Sees(t, a, v) PROVE SeenKept
  BY <1>2 DEF Sees, HistoryTyped, Read
<1>3. ASSUME NEW t \in Thread, seen' = [seen EXCEPT ![t] = {}] PROVE SeenKept
  BY <1>3 DEF HistoryTyped
<1>4. seen' = seen => SeenKept
  BY DEF HistoryTyped
<1>5. SUFFICES ASSUME NEW t \in Thread, Step(t)
               PROVE  SeenKept /\ (\/ Kept
                                   \/ \E ts \in Nat : Commits(t, ts)
                                   \/ RestartCommitTs(t))
  <2>1. CASE UNCHANGED vars
    BY <1>1, <2>1
  <2>2. ASSUME NEW t \in Thread, SeenKept, \/ Kept
                                           \/ \E ts \in Nat : Commits(t, ts)
                                           \/ RestartCommitTs(t)
        PROVE  /\ HistoryTyped'
               /\ history'.epoch # history.epoch => history'.epoch # 0 /\ RestartCommitTs(t)
    <3>1. CASE Kept
      BY <2>2, <3>1 DEF HistoryTyped
    <3>2. CASE \E ts \in Nat : Commits(t, ts)
      <4>1. PICK ts \in Nat : Commits(t, ts)
        BY <3>2
      <4>2. QED BY <2>2, <4>1, CommitsTyped DEF LockInv, HistoryTyped
    <3>3. CASE RestartCommitTs(t)
      BY <2>2, <3>3 DEF RestartCommitTs, HistoryTyped
    <3>4. QED BY <2>2, <3>1, <3>2, <3>3
  <2>3. QED BY <2>1, <2>2, <1>5 DEF Next
<1>6. CASE Starts(t)
  BY <1>4, <1>6 DEF Starts, TxStart, StartSync, StartWait, StartAgain, StartTs, ghosts
<1>7. CASE Skip(t)
  BY <1>4, <1>7 DEF Skip, ghosts
<1>8. CASE Reads(t)
  <2>1. CASE ReadWord(t)
    <3>1. Op(t).addr \in Addr /\ memory[Op(t).addr] \in Nat
      BY <2>1, Beginning DEF ReadWord, Doing, At
    <3>2. seen' = seen \/ Sees(t, Op(t).addr, memory[Op(t).addr])
      BY <2>1, Zenon DEF ReadWord
    <3>3. QED BY <1>2, <1>4, <2>1, <3>1, <3>2 DEF ReadWord
  <2>2. CASE ReadCheck(t)
    <3>1. Op(t).addr \in Addr /\ tx[t] \in State
      BY <2>2, Accessing DEF ReadCheck, At, LockInv, TypeOK
    <3> DEFINE e == [stripe |-> StripeOfOp(t), version |-> read_lock[StripeOfOp(t)]]
    <3>2. seen' = seen \/ Sees(t, Op(t).addr, [tx[t] EXCEPT !.read_log = Append(@, e)].value)
      BY <2>2, Zenon DEF ReadCheck
    <3>3. [tx[t] EXCEPT !.read_log = Append(@, e)].value = tx[t].value /\ tx[t].value \in Nat
      BY <3>1 DEF State
    <3>4. QED BY <1>2, <1>4, <2>2, <3>1, <3>2, <3>3 DEF ReadCheck
  <2>3. CASE ReadExtended(t)
    <3>1. Op(t).addr \in Addr /\ tx[t].value \in Nat
      BY <2>3, Accessing DEF ReadExtended, At, LockInv, TypeOK, State
    <3>2. QED BY <1>2, <2>3, <3>1 DEF ReadExtended
  <2>4. CASE ReadVersion(t) \/ ReadValue(t) \/ ExtendTs(t) \/ Validate(t)
    BY <1>4, <2>4 DEF ReadVersion, ReadValue, ExtendTs, Validate, ghosts
  <2>5. QED BY <1>8, <2>1, <2>2, <2>3, <2>4 DEF Reads
<1>9. CASE Writes(t)
  BY <1>4, <1>9 DEF Writes, WriteWord, WriteConflict, AbortOther, WriteCas, WriteReload,
     WriteVersion, WriteExtended, ghosts
<1>10. CASE Ends(t)
  <2>1. CASE IncrementCommitTs(t)
    <3>1. commit_ts + 1 \in Nat
      BY DEF LockInv, TypeOK
    <3>2. Commits(t, commit_ts + 1) \/ Kept
      BY <2>1, Zenon DEF IncrementCommitTs
    <3>3. QED BY <1>4, <2>1, <3>1, <3>2 DEF IncrementCommitTs
  <2>2. CASE ValidateCommit(t)
    <3>1. tx[t].ts \in Nat
      BY DEF LockInv, TypeOK, State
    <3>2. Commits(t, tx[t].ts) \/ Kept
      BY <2>2, Zenon DEF ValidateCommit
    <3>3. QED BY <1>4, <2>2, <3>1, <3>2 DEF ValidateCommit
  <2>3. CASE TxCommitted(t)
    BY <1>3, <2>3 DEF TxCommitted
  <2>4. CASE TxRestart(t) \/ AbortRollback(t)
    BY <1>3, <1>4, <2>4 DEF TxRestart, AbortRollback, Rollback
  <2>5. CASE \/ TxCommit(t) \/ LockReads(t) \/ WriteBack(t) \/ UnlockRead(t) \/ UnlockWrite(t)
             \/ ReleaseInvalid(t) \/ TxRestarted(t) \/ TxAbort(t) \/ TxAborted(t)
    BY <1>4, <2>5 DEF TxCommit, LockReads, WriteBack, UnlockRead, UnlockWrite,
       ReleaseInvalid, ReleaseReadLocks, TxRestarted, TxAbort, TxAborted, ghosts
  <2>6. QED BY <1>10, <2>1, <2>2, <2>3, <2>4, <2>5 DEF Ends
<1>11. CASE Restarts(t)
  <2>1. CASE OverflowRollback(t)
    BY <1>3, <1>4, <2>1 DEF OverflowRollback, Rollback
  <2>2. CASE RestartCommitTs(t)
    BY <1>4, <2>2 DEF RestartCommitTs
  <2>3. CASE \/ Overflow(t) \/ OverflowRelease(t) \/ StartSynchronization(t) \/ SyncWait(t)
             \/ RestartReadLocks(t) \/ EndSynchronization(t) \/ SyncOther(t) \/ SyncOtherWait(t)
    BY <1>4, <2>3 DEF Overflow, OverflowRelease, ReleaseReadLocks, StartSynchronization, SyncWait,
       RestartReadLocks, EndSynchronization, SyncOther, SyncOtherWait, ghosts
  <2>4. QED BY <1>11, <2>1, <2>2, <2>3 DEF Restarts
<1>12. QED BY <1>5, <1>6, <1>7, <1>8, <1>9, <1>10, <1>11 DEF Step

LEMMA EpochNext ==
  ASSUME LockInv, LockInv', HistoryTyped, EpochInv, history.epoch = 0, NEW t \in Thread, Step(t),
         ~ RestartCommitTs(t)
  PROVE  EpochInv'
<1>1. CASE Starts(t)
  BY <1>1, StartsSerial, StartTsSerial DEF Starts
<1>2. CASE Skip(t)
  BY <1>2, SkipSerial
<1>3. CASE Reads(t)
  BY <1>3, ReadWordSerial, ReadVersionSerial, ReadValueSerial, ReadCheckSerial, ExtendTsSerial,
     ValidateSerial, ReadExtendedSerial DEF Reads
<1>4. CASE Writes(t)
  BY <1>4, WriteWordSerial, WriteConflictSerial, AbortOtherSerial, WriteCasSerial,
     WriteVersionSerial, WriteExtendedSerial DEF Writes
<1>5. CASE Ends(t)
  <2>1. ReleaseInvalid(t) => EpochInv'
    BY ReleaseReadLocksSerial DEF ReleaseInvalid
  <2>2. TxRestart(t) \/ AbortRollback(t) => EpochInv'
    BY RollbackSerial DEF TxRestart, AbortRollback, At
  <2>3. QED BY <1>5, <2>1, <2>2, TxCommitSerial, LockReadsSerial, IncrementCommitTsSerial,
           ValidateCommitSerial, WriteBackSerial, UnlockReadSerial, UnlockWriteSerial,
           TxCommittedSerial, EndsSerial, TxAbortSerial DEF Ends
<1>6. CASE Restarts(t)
  <2>1. OverflowRelease(t) => EpochInv'
    BY ReleaseReadLocksSerial DEF OverflowRelease
  <2>2. OverflowRollback(t) => EpochInv'
    <3>1. tx[t].pc = "overflow_rollback" => ~ tx[t].rolled_back
      BY ThreadFacts DEF Local, LoggedAs, HasLocksIn
    <3>2. QED BY <3>1, RollbackSerial DEF OverflowRollback, At
  <2>3. ~ RestartReadLocks(t) /\ ~ EndSynchronization(t)
    BY DEF EpochInv, ReadLocksSet, RestartReadLocks, EndSynchronization, At
  <2>4. QED BY <1>6, <2>1, <2>2, <2>3, OverflowSerial, SyncSerial DEF Restarts
<1>7. QED BY <1>1, <1>2, <1>3, <1>4, <1>5, <1>6 DEF Step

\* The invariant speaks of the state alone.
LEMMA EpochStutter ==
  ASSUME EpochInv, UNCHANGED vars
  PROVE  EpochInv'
<1>1. /\ tx' = tx /\ read_lock' = read_lock /\ write_lock' = write_lock /\ memory' = memory
      /\ commit_ts' = commit_ts /\ seen' = seen /\ history' = history
  BY DEF vars
<1>2. Version' = Version /\ Settled' = Settled
  BY <1>1 DEF Version, Settled
<1>3. \A t \in Thread : /\ Pending(t)' <=> Pending(t)
                        /\ StripesOf(t)' = StripesOf(t)
                        /\ StripeOfOp(t)' = StripeOfOp(t) /\ Op(t)' = Op(t)
                        /\ \A a \in Addr : Unwritten(t, a)' <=> Unwritten(t, a)
  BY <1>1 DEF Pending, StripesOf, StripeOfOp, Op, Ops, Unwritten
<1>4. /\ \A s, T, t : Closed(s, T, t)' <=> Closed(s, T, t)
  BY <1>1, <1>3 DEF Closed
<1>5. /\ \A s, v, T, t : Clean(s, v, T, t)' <=> Clean(s, v, T, t)
      /\ \A x, T, t : There(x, T, t)' <=> There(x, T, t)
  BY <1>1, <1>4 DEF Clean, There
<1>6. ReadLocksSet' /\ Versions' /\ Timestamps' /\ Memory' /\ Serial'
  BY <1>1, <1>2, <1>3, <1>5 DEF EpochInv, ReadLocksSet, Versions, Timestamps, Memory, Serial
<1>7. ASSUME NEW t \in Thread PROVE Knows(t)'
  <2>1. Knows(t)
    BY DEF EpochInv
  <2>2. HeldVersions(t)' /\ Reading(t)' /\ Extending(t)' /\ Validating(t)' /\ Unread(t)' /\ ReadVersions(t)'
    BY <1>1, <1>2, <1>3, <1>5, <2>1 DEF Knows, HeldVersions, Reading, Extending, Validating, Unread,
       ReadVersions
  <2>3. Snapshot(t)'
    BY <1>1, <1>3, <1>5, <2>1 DEF Knows, Snapshot, SnapAt
  <2>4. QED BY <2>2, <2>3 DEF Knows
<1>8. QED BY <1>6, <1>7 DEF EpochInv

LEMMA SerialNext == SerialInv /\ [Next]_vars => SerialInv'
<1> SUFFICES ASSUME SerialInv, [Next]_vars PROVE SerialInv'
  OBVIOUS
<1>1. LockInv /\ LockInv' /\ HistoryTyped /\ HistoryTyped'
  BY LockNext, HistoryNext DEF SerialInv
<1>2. ASSUME history'.epoch = 0 PROVE EpochInv'
  <2>1. history.epoch = 0
    BY <1>1, <1>2, HistoryNext
  <2>2. EpochInv
    BY <2>1 DEF SerialInv
  <2>3. CASE UNCHANGED vars
    BY <2>2, <2>3, EpochStutter
  <2>4. ASSUME NEW t \in Thread, Step(t) PROVE EpochInv'
    <3>1. ~ RestartCommitTs(t)
      BY <1>1, <1>2, <2>1 DEF RestartCommitTs, HistoryTyped
    <3>2. QED BY <1>1, <2>1, <2>2, <2>4, <3>1, EpochNext
  <2>5. QED BY <2>3, <2>4 DEF Next
<1>3. QED BY <1>1, <1>2 DEF SerialInv

----------------------------------------------------------------------------
(* The theorems *)

\* The locks, the versions, the history and what every transaction knows of
\* them, from Init on and until the clock restarts.
THEOREM SerialInvariant == Spec => []SerialInv
  BY SerialInit, SerialNext, PTL DEF Spec

\* A non-empty set of numbers has a least element.
LEMMA Least == ASSUME NEW S \in SUBSET Nat, S # {}
               PROVE \E m \in S : \A n \in S : m <= n
<1>1. IsWellFoundedOn(OpToRel(<, Nat), Nat)
  BY NatLessThanWellFounded
<1>2. PICK m \in S : \A n \in S : ~ (<<n, m>> \in OpToRel(<, Nat))
  BY <1>1, WFMin
<1>3. \A n \in S : ~ (n < m)
  BY <1>2 DEF OpToRel
<1>4. QED BY <1>3

\* A non-empty set of numbers up to n has a greatest element.
LEMMA Greatest == ASSUME NEW n \in Nat, NEW S \in SUBSET (0 .. n), S # {}
                  PROVE \E m \in S : \A k \in S : k <= m
<1> DEFINE T == {n - k : k \in S}
<1>1. T \in SUBSET Nat /\ T # {}
  <2>1. PICK k \in S : TRUE
    OBVIOUS
  <2>2. n - k \in T
    OBVIOUS
  <2>3. ASSUME NEW e \in T PROVE e \in Nat
    OBVIOUS
  <2>4. QED BY <2>2, <2>3
<1>2. PICK d \in T : \A e \in T : d <= e
  <2> HIDE DEF T
  <2> QED BY <1>1, Least
<1>3. PICK m \in S : d = n - m
  OBVIOUS
<1>4. ASSUME NEW k \in S PROVE k <= m
  <2>1. n - k \in T
    OBVIOUS
  <2>2. n - m <= n - k
    BY <1>2, <1>3, <2>1
  <2> QED BY <2>2
<1>5. QED BY <1>4

\* In the first epoch the order of the commits is that of their timestamps.
LEMMA FirstEpoch ==
  ASSUME HistoryTyped, EpochInv, NEW d \in history.commits
  PROVE  /\ UpToCommit(d) = CommitsTo(history.commits, d.ts)
         /\ UpToCommit(d) \ {d} = CommitsTo(history.commits, d.ts - 1)
<1>1. \A c \in history.commits : c.epoch = 0 /\ c.ts \in Nat /\ (c.ts = d.ts => c = d)
  BY DEF EpochInv, Timestamps, HistoryTyped, Commit
<1>2. \A c \in history.commits : NotAfter(c, d) <=> c.ts <= d.ts
  BY <1>1 DEF NotAfter
<1>3. UpToCommit(d) = CommitsTo(history.commits, d.ts)
  BY <1>2 DEF UpToCommit, CommitsTo
<1>4. \A c \in history.commits : NotAfter(c, d) /\ c # d <=> c.ts <= d.ts - 1
  BY <1>1, <1>2
<1>5. UpToCommit(d) \ {d} = CommitsTo(history.commits, d.ts - 1)
  BY <1>4 DEF UpToCommit, CommitsTo
<1>6. QED BY <1>3, <1>5

\* Until the clock restarts, a transaction has read at every moment what some
\* prefix of the committed transactions left, whether or not it will commit.
THEOREM SnapshotsAreOpaque == Spec => [](history.epoch = 0 => Opacity)
<1>1. ASSUME SerialInv, history.epoch = 0 PROVE Opacity
  <2>1. HistoryTyped /\ EpochInv
    BY <1>1 DEF SerialInv
  <2>2. SUFFICES ASSUME NEW t \in Thread
                 PROVE  \/ Agree(seen[t], {})
                        \/ \E d \in history.commits : Agree(seen[t], UpToCommit(d))
    BY DEF Opacity
  <2>3. PICK T \in Nat : SnapAt(t, T)
    BY <2>1 DEF EpochInv, Knows, Snapshot
  <2> DEFINE before == CommitsTo(history.commits, T)
             S == {c.ts : c \in before}
  <2>4. Agree(seen[t], before)
    BY <2>3 DEF SnapAt, There, ValueAt, Agree
  <2>5. CASE before = {}
    BY <2>4, <2>5
  <2>6. CASE before # {}
    <3>1. \A c \in before : c \in history.commits /\ c.ts \in 0 .. T
      BY <2>1 DEF CommitsTo, HistoryTyped, Commit
    <3>2. PICK m \in S : \A k \in S : k <= m
      <4>1. S \in SUBSET (0 .. T) /\ S # {}
        BY <2>6, <3>1
      <4> HIDE DEF S
      <4>2. QED BY <4>1, Greatest
    <3>3. PICK d \in before : d.ts = m
      BY <3>2
    <3>4. \A c \in history.commits : c.ts <= T <=> c.ts <= d.ts
      <4>1. ASSUME NEW c \in history.commits, c.ts <= T PROVE c.ts <= d.ts
        <5>1. c.ts \in S
          BY <4>1 DEF CommitsTo
        <5>2. QED BY <3>2, <3>3, <5>1
      <4>2. ASSUME NEW c \in history.commits, c.ts <= d.ts PROVE c.ts <= T
        BY <2>1, <3>1, <4>2 DEF HistoryTyped, Commit
      <4>3. QED BY <4>1, <4>2
    <3>5. before = UpToCommit(d)
      BY <2>1, <3>1, <3>4, FirstEpoch DEF CommitsTo
    <3>6. QED BY <2>4, <3>1, <3>5
  <2>7. QED BY <2>5, <2>6
<1>2. QED BY <1>1, SerialInvariant, PTL

\* Until the clock restarts, a committed transaction has read what the
\* transactions with smaller timestamps left, and nothing else.
THEOREM CommitsAreSerial == Spec => [](history.epoch = 0 => SerialCommits)
<1>1. ASSUME SerialInv, history.epoch = 0 PROVE SerialCommits
  <2>1. HistoryTyped /\ EpochInv
    BY <1>1 DEF SerialInv
  <2>2. SUFFICES ASSUME NEW d \in history.commits, NEW x \in d.seen
                 PROVE  ValueIn(x.addr, UpToCommit(d) \ {d}) = x.value
    BY DEF SerialCommits, Agree
  <2>3. There(x, d.ts - 1, 0)
    BY <2>1 DEF EpochInv, Serial
  <2>4. QED BY <2>1, <2>3, FirstEpoch DEF There, ValueAt
<1>2. QED BY <1>1, SerialInvariant, PTL

\* Until the clock restarts, what the valid transactions wrote is in memory as
\* soon as nobody holds the stripe.
THEOREM NothingIsLost == Spec => [](history.epoch = 0 => NothingLost)
<1>1. ASSUME SerialInv, history.epoch = 0 PROVE NothingLost
  <2>1. LockInv /\ EpochInv
    BY <1>1 DEF SerialInv
  <2>2. SUFFICES ASSUME NEW a \in Addr, write_lock[StripeOf[a]] = NULL
                 PROVE  memory[a] = ValueIn(a, history.commits)
    BY DEF NothingLost
  <2>3. ASSUME NEW t \in Thread, NEW n \in UnwrittenIn(tx[t]), tx[t].write_log[n].words[a] # NULL
        PROVE  FALSE
    <3>1. tx[t] \in State /\ Local(t, tx[t])
      BY <2>1, ThreadFacts
    <3>2. n \in HeldIn(tx[t]) /\ n \in 1 .. Len(tx[t].write_log) /\ n \in Nat \ {0}
      BY <3>1, UnwrittenLocked, ReadLockedHeld
    <3>3. tx[t].write_log[n].stripe = StripeOf[a]
      BY <2>3, <3>1, <3>2 DEF Local, LoggedAs
    <3>4. write_lock[StripeOf[a]] = <<t, n>>
      BY <2>1, <3>2, <3>3, Owned DEF Owners
    <3>5. QED BY <2>2, <3>2, <3>4, NotAPtr
  <2>4. QED BY <2>1, <2>3 DEF EpochInv, Memory, Unwritten
<1>2. QED BY <1>1, SerialInvariant, PTL
=============================================================================
