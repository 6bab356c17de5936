---------------------------- MODULE MCScenarios ----------------------------
(***************************************************************************)
(* Tlstm and SwissTm with several programs, one at a time: which names the *)
(* one that runs, and the other protocol stays where it starts.            *)
(***************************************************************************)
EXTENDS Programs, SwissTm

CONSTANT MaxTs

VARIABLES
  which,
  prog_thread, tlstmTx, entry, tlstmReadLock, tlstmWriteLock, tlstmMemory, tlstmTs, cm_ts,
  validator

tlstmVars == <<prog_thread, tlstmTx, entry, tlstmReadLock, tlstmWriteLock, tlstmMemory, tlstmTs,
               cm_ts, validator>>
both == <<which, tlstmVars, vars>>

Own(words) == [a \in words |-> a]

----------------------------------------------------------------------------
(* Tlstm *)

\* Transactions of one task that the contention manager has to part.
Managed == INSTANCE MCTlstm WITH
  Thread <- {p1, p2}, SpecDepth <- 1, Addr <- {x, y}, Stripe <- {x, y}, StripeOf <- Own({x, y}),
  Code <- Crossing, CmAccessThreshold <- 0, LogSize <- 2,
  tx <- tlstmTx, read_lock <- tlstmReadLock, write_lock <- tlstmWriteLock,
  memory <- tlstmMemory, commit_ts <- tlstmTs
\* Two transactions, one after the other.
Following == INSTANCE MCTlstm WITH
  Thread <- {p1}, SpecDepth <- 2, Addr <- {x}, Stripe <- {x}, StripeOf <- Own({x}),
  Code <- Successive, CmAccessThreshold <- 1, LogSize <- 1,
  tx <- tlstmTx, read_lock <- tlstmReadLock, write_lock <- tlstmWriteLock,
  memory <- tlstmMemory, commit_ts <- tlstmTs
\* Transactions that read what the other one writes.
Skewed == INSTANCE MCTlstm WITH
  Thread <- {p1, p2}, SpecDepth <- 2, Addr <- {x, y}, Stripe <- {x, y}, StripeOf <- Own({x, y}),
  Code <- WriteSkew, CmAccessThreshold <- 1, LogSize <- 1,
  tx <- tlstmTx, read_lock <- tlstmReadLock, write_lock <- tlstmWriteLock,
  memory <- tlstmMemory, commit_ts <- tlstmTs

\* Three tasks of one transaction that read and write each other's words.
Intertwined == INSTANCE MCTlstm WITH
  Thread <- {p1}, SpecDepth <- 3, Addr <- {x, y}, Stripe <- {x, y}, StripeOf <- Own({x, y}),
  Code <- Mixed, CmAccessThreshold <- 1, LogSize <- 2,
  tx <- tlstmTx, read_lock <- tlstmReadLock, write_lock <- tlstmWriteLock,
  memory <- tlstmMemory, commit_ts <- tlstmTs

----------------------------------------------------------------------------
(* SwissTm *)

\* The module itself, with the constants of the configuration: Conflicting.
Overflows == INSTANCE SwissTm WITH
  Code <- Restarting, CmAccessThreshold <- 1, MAXIMUM_TS <- 3, MaxEpochs <- 1
Wraps == INSTANCE SwissTm WITH Code <- Wrapping, CmAccessThreshold <- 1, UnsignedSize <- 2
Blocks == INSTANCE SwissTm WITH Code <- Blocking

----------------------------------------------------------------------------
\* Every program of a protocol starts in the same way, but with tasks of its own.
InitOne ==
  /\ Init
  /\ \/ which = "managed" /\ Managed!Init
     \/ which = "successive" /\ Following!Init
     \/ which = "skew" /\ Skewed!Init
     \/ which = "mixed" /\ Intertwined!Init
     \/ which \in {"overflows", "conflicts", "wraps", "blocks"} /\ Managed!Init

TlstmStep == \/ which = "managed" /\ Managed!Next
             \/ which = "successive" /\ Following!Next
             \/ which = "skew" /\ Skewed!Next
             \/ which = "mixed" /\ Intertwined!Next
SwissStep == \/ which = "overflows" /\ Overflows!Next
             \/ which = "conflicts" /\ Next
             \/ which = "wraps" /\ Wraps!Next
             \/ which = "blocks" /\ Blocks!Next
NextOne == \/ TlstmStep /\ UNCHANGED <<which, vars>>
           \/ SwissStep /\ UNCHANGED <<which, tlstmVars>>

\* Fairness of Tlstm and of SwissTm (see the README) for the programs that have
\* to end.  No program has the threads of another, so one condition does for a
\* thread of each: the i-th task of a thread p, and the i-th thread of "blocks".
InTlstm(name, A) == which = name /\ A /\ UNCHANGED <<which, vars>>
InBlocks(A) == which = "blocks" /\ A /\ UNCHANGED <<which, tlstmVars>>
Fairness ==
  /\ \A p \in {p1, p2}, i \in 0 .. 1 :
       WF_both(\/ InTlstm("skew", Skewed!TaskStep(<<p, i>>))
               \/ i = 0 /\ InTlstm("managed", Managed!TaskStep(<<p, i>>))
               \/ p = p1 /\ InTlstm("successive", Following!TaskStep(<<p, i>>))
               \/ p = p2 /\ InBlocks(Blocks!Step(i + 1)))
  /\ \A p \in {p1, p2} :
       WF_both(\/ InTlstm("skew", Skewed!ValidatorStep(p))
               \/ InTlstm("managed", Managed!ValidatorStep(p))
               \/ p = p1 /\ InTlstm("successive", Following!ValidatorStep(p)))
  /\ \A i \in 0 .. 1 :
       LET m == <<IF i = 0 THEN p1 ELSE p2, 0>>  \* a task of "managed"
           s == <<p1, i>>                        \* and one of "successive"
           t == i + 1                            \* and a thread of "blocks"
       IN /\ SF_both(\/ InTlstm("managed", Managed!Retry(m) /\ Managed!Free(m))
                     \/ InTlstm("successive", Following!Retry(s) /\ Following!Free(s))
                     \/ InBlocks(Blocks!AsksFree(t) \/ Blocks!AbortsFree(t)))
          /\ SF_both(\/ InTlstm("managed", Managed!WriteLoad(m) /\ Managed!Free(m))
                     \/ InTlstm("successive", Following!WriteLoad(s) /\ Following!Free(s))
                     \/ InBlocks(Blocks!ReloadsFree(t)))
          /\ SF_both(\/ InTlstm("managed", Managed!WriteCas(m) /\ Managed!Free(m))
                     \/ InTlstm("successive", Following!WriteCas(s) /\ Following!Free(s))
                     \/ InBlocks(Blocks!TakesFree(t)))

SpecOne == InitOne /\ [][NextOne]_both /\ Fairness

----------------------------------------------------------------------------
(* Properties of Tlstm *)

\* The chains of log entries under the write locks hold together (LockChains)
\* when transactions take stripes in opposite orders and one has to give its
\* entries up, and when three tasks stack their entries on a stripe.
StacksHold == /\ which = "managed" => Managed!LockChains
              /\ which = "skew" => Skewed!LockChains
              /\ which = "mixed" => Intertwined!LockChains

\* Whatever order the tasks of a transaction run in, and whatever they read too
\* early, the transaction is one atomic step that takes their effects in program
\* order (Atomicity).
TasksInOrder == /\ which = "mixed" => Intertwined!Atomic!SInit
                /\ [][which = "mixed" =>
                        [Intertwined!Atomic!SNext]_(Intertwined!Atomic!svars)]_both

\* Validation and contention management leave in memory what the transactions
\* leave in some order: no lost update and no write skew.
OutcomeIsSerial == /\ which = "managed" => Managed!Serializable
                   /\ which = "successive" => Following!Serializable
                   /\ which = "skew" => Skewed!Serializable

\* A commit that fails its validation unlocks for reading what it has locked.
ReadersGoOn == which = "skew" => Skewed!ReadLocksHeld

\* Everything commits: of two transactions that want each other's stripes or
\* fail each other's validation one gets through, a rollback tells every task
\* it has undone, a request to abort does not outlive its attempt, and of two
\* writers of SwissTm one gives way (ShouldAbortWrite, CMStrongerThan).
EveryoneCommits == <> /\ which = "managed" => Managed!Finished
                      /\ which = "successive" => Following!Finished
                      /\ which = "skew" => Skewed!Finished
                      /\ which = "blocks" => Blocks!Finished

=============================================================================
