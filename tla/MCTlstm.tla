------------------------------ MODULE MCTlstm ------------------------------
(***************************************************************************)
(* Instances of Tlstm for TLC: the programs its tasks run, and the         *)
(* refinement of AtomicTx.                                                 *)
(***************************************************************************)
EXTENDS Tlstm, Programs

\* Every word has a stripe of its own.
OneToOne == [a \in Addr |-> a]

----------------------------------------------------------------------------
(* Refinement *)

\* The store with the write-back of decided transactions applied, and the
\* number of transactions decided.
Pending(a) == {e \in UNION {tx[<<p, CommitTask>>].todo : p \in Thread} :
                 Deref(e).words[a] # NULL}
CommittedStore ==
  [a \in Addr |-> IF Pending(a) = {} THEN memory[a] ELSE Deref(LastOf(Pending(a))).words[a]]
Decided ==
  [p \in Thread |-> LET c == tx[<<p, CommitTask>>] IN
     (c.serial \div SpecDepth) - 1
     + IF c.pc \in {"write_back", "commit_done", "committed"} THEN 1 ELSE 0]

Atomic == INSTANCE AtomicTx WITH store <- CommittedStore, done <- Decided

\* Every behaviour of one program thread is one of atomic transactions: a
\* transaction takes effect at one instant, when its commit task passes
\* ValidateCommit, and has the effect its tasks would have one after the other
\* on the committed store.
Atomicity == Atomic!SSpec

\* What several program threads leave in memory is what their transactions
\* leave one after the other in some order.  (The order is that of the commit
\* timestamps, and a transaction may pass ValidateCommit before one with a
\* smaller timestamp does, so that step does not fix the order.)
Serializable == Finished => memory \in Atomic!SerialOutcomes
=============================================================================
