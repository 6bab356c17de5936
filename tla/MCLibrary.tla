----------------------------- MODULE MCLibrary -----------------------------
(***************************************************************************)
(* Instances for TLC of the components that stand by themselves: accesses  *)
(* to parts of words, the data structures, the logs, the restart of the    *)
(* clock, the drivers of the benchmarks, quiescence, and the pools of      *)
(* threads.  which names the component that runs; the others stay where    *)
(* they start, so that what they promise can be asked of every behaviour.  *)
(***************************************************************************)
EXTENDS Sequences, ThreadPool, ThreadBarrier

VARIABLES
  which,
  memory4, log4, stores4, memory8, log8, stores8,
  tree, treeNodes, treeTold, head, listNode, listNodes, listTold,
  chunks, lastChunk, nextElement, linkNode, linkNodes, linkHead, linkTail, linkFree,
  task, last_completed_task, write_lock, commit_ts, synchronization_in_progress,
  set, setTask, setOps, setBarrier, setMain,
  set1, set1Thread, set1Stop, set1Barrier, set1Main,
  tree_nodes, proxy_nodes, privThread, privTs

vars4 == <<memory4, log4, stores4>>
vars8 == <<memory8, log8, stores8>>
treeVars == <<tree, treeNodes, treeTold>>
listVars == <<head, listNode, listNodes, listTold>>
chunkVars == <<chunks, lastChunk, nextElement>>
linkVars == <<linkNode, linkNodes, linkHead, linkTail, linkFree>>
clockVars == <<task, last_completed_task, write_lock, commit_ts, synchronization_in_progress>>
setVars == <<set, setTask, setOps, setBarrier, setMain>>
set1Vars == <<set1, set1Thread, set1Stop, set1Barrier, set1Main>>
privVars == <<tree_nodes, proxy_nodes, privThread, privTs>>
all == <<which, vars4, vars8, treeVars, listVars, chunkVars, linkVars, clockVars,
         setVars, set1Vars, privVars, svars, vars>>

----------------------------------------------------------------------------
(* The components *)

\* Words of four and of eight bytes.
Words4 == INSTANCE ReadWrite WITH
  WordSize <- 4, Words <- 3, Sizes <- {1, 2, 4, 8}, Lengths <- {2, 5},
  Starts <- {1, 3, 4}, Values <- {1}, Junk <- {0, 3}, MaxStores <- 2,
  Calls <- {"aligned", "value", "region", "memset", "memmove", "qsort"},
  memory <- memory4, log <- log4, stores <- stores4
Words8 == INSTANCE ReadWrite WITH
  WordSize <- 8, Words <- 2, Sizes <- {1, 2, 4, 8}, Lengths <- {2, 8},
  Starts <- {1, 7, 8}, Values <- {1}, Junk <- {0, 3}, MaxStores <- 2,
  Calls <- {"aligned", "region", "memset", "memmove", "qsort"},
  memory <- memory8, log <- log8, stores <- stores8

\* Five keys, enough for every case of a repair, and fewer with two values for
\* one of them.
Tree == INSTANCE RbTree WITH
  Keys <- 1 .. 5, Values <- 1 .. 5, Pairs <- {<<k, k>> : k \in 1 .. 5},
  Nodes <- 5, IntSize <- 16, allocated <- treeNodes, ret <- treeTold
Valued == INSTANCE RbTree WITH
  Keys <- 1 .. 4, Values <- 1 .. 4, Pairs <- {<<k, k>> : k \in 1 .. 4} \cup {<<2, 1>>},
  Nodes <- 5, IntSize <- 16, allocated <- treeNodes, ret <- treeTold
List == INSTANCE ListSet WITH
  Keys <- 1 .. 4, Nodes <- 7, INT_MIN <- 0, INT_MAX <- 9,
  node <- listNode, allocated <- listNodes, result <- listTold

Chunks == INSTANCE ChunkedLog WITH
  Values <- {"a", "b"}, CHUNK_LENGTH <- 3, MaxChunks <- 3, Garbage <- "garbage"
Links == INSTANCE LinkedLog WITH
  Values <- {"a", "b"}, INITIAL_SIZE <- 2, GROWTH_FACTOR <- 2, Nodes <- 6,
  node <- linkNode, allocated <- linkNodes, head <- linkHead, tail <- linkTail, free <- linkFree

\* Three threads, of which two write the same stripe, with one task each.
Clock == INSTANCE ClockRestart WITH
  NThreads <- 3, SpecDepth <- 1, Stripes <- 2, Txs <- 2, MAXIMUM_TS <- 3, NULL <- <<>>

Set == INSTANCE Intset WITH
  NbThreads <- 2, NbTasks <- 2, range <- 1, Initial <- {1}, NUM_OPS <- 3,
  task <- setTask, ops <- setOps, barrier <- setBarrier, main <- setMain
Set1 == INSTANCE IntsetSwiss WITH
  NbThreads <- 2, range <- 2, Initial <- {0},
  set <- set1, thread <- set1Thread, stop <- set1Stop, barrier <- set1Barrier, main <- set1Main

Priv == INSTANCE PrivTree WITH
  MAX_THREADS <- 2, thread_count <- 2, MaxTs <- 3, thread <- privThread, commit_ts <- privTs
\* The pool and the barrier of sections are this module itself, with the constants
\* of the configuration.

\* What the theorems about them assume.
ASSUME InstancesAssumption ==
  /\ Words4!ReadWriteAssumption /\ Words8!ReadWriteAssumption /\ Chunks!ChunkAssumption
  /\ Priv!TwoThreads

----------------------------------------------------------------------------
InitOne ==
  /\ which \in {"words4", "words8", "tree", "pairs", "list", "chunks", "links", "clock", "set",
                "set1", "priv", "pool", "sections"}
  /\ Words4!Init /\ Words8!Init /\ Tree!Init /\ List!Init /\ Chunks!Init /\ Links!Init
  /\ Clock!Init /\ Set!Init /\ Set1!Init /\ Priv!Init /\ Init /\ SInit

\* A step of the component called name.
Run(name, A) ==
  /\ which = name /\ A /\ UNCHANGED which
  /\ name # "words4" => UNCHANGED vars4
  /\ name # "words8" => UNCHANGED vars8
  /\ name \notin {"tree", "pairs"} => UNCHANGED treeVars
  /\ name # "list" => UNCHANGED listVars
  /\ name # "chunks" => UNCHANGED chunkVars
  /\ name # "links" => UNCHANGED linkVars
  /\ name # "clock" => UNCHANGED clockVars
  /\ name # "set" => UNCHANGED setVars
  /\ name # "set1" => UNCHANGED set1Vars
  /\ name # "priv" => UNCHANGED privVars
  /\ name # "pool" => UNCHANGED vars
  /\ name # "sections" => UNCHANGED svars

NextOne ==
  \/ Run("words4", Words4!Next) \/ Run("words8", Words8!Next)
  \/ Run("tree", Tree!Next) \/ Run("pairs", Valued!Next) \/ Run("list", List!Next)
  \/ Run("chunks", Chunks!Next) \/ Run("links", Links!Next)
  \/ Run("clock", Clock!Next) \/ Run("set", Set!Next) \/ Run("set1", Set1!Next)
  \/ Run("priv", Priv!Next) \/ Run("pool", Next) \/ Run("sections", SNext)

\* The fairness of each component that has to come to an end: what its i-th
\* thread does, and what the main thread does.  Only one component runs, so one
\* condition does for all.
FairnessOne ==
  /\ \A i \in 0 .. 3 :
       WF_all(\/ i < 3 /\ Run("clock", Clock!Step(<<i + 1, 1>>))
              \/ i < 3 /\ Run("pool", WorkerStep(i))
              \/ Run("sections", Step(i)))
  /\ WF_all(\/ Run("set", Set!Step)
            \/ Run("pool", DispatchWait \/ Dispatch)
            \/ Run("sections", thread_shutdown))
  /\ WF_all(Run("sections", Join))

SpecOne == InitOne /\ [][NextOne]_all /\ FairnessOne

----------------------------------------------------------------------------
(* Properties.  Each is a component's own, under its name there. *)

\* In words of four bytes, aligned values of 1, 2, 4 and 8 bytes through either
\* interface, and regions, fills, moves and sorts of 2 and 5 bytes from bytes 1, 3
\* and 4 on; in words of eight, aligned values of the same sizes through the
\* interface for aligned ones only, and regions, fills, moves and sorts of 2 and 8
\* bytes from bytes 1, 7 and 8 on: these change the bytes they name and no others.
\* Not covered: a value that is not aligned, a value of eight-byte words through the
\* other interface, a fill that starts after the first byte of a word and ends before
\* its last, and an access to no bytes at all (ReadWrite).
StoresBytes ==
  /\ which = "words4" => Words4!Bytes!BInit
  /\ which = "words8" => Words8!Bytes!BInit
  /\ [][/\ which = "words4" => [Words4!Bytes!BNext]_(Words4!Bytes!bvars)
        /\ which = "words8" => [Words8!Bytes!BNext]_(Words8!Bytes!bvars)]_all

\* Reads of aligned values, of the same sizes and through either interface, the same
\* regions, and comparisons of strings there see what the transaction has written
\* on top of memory (ReadWrite).
ReadsBytes == /\ which = "words4" => Words4!ReadsBytes
              /\ which = "words8" => Words8!ReadsBytes

\* Rotations and repairs keep the tree balanced and in order (RbTree).
RedBlack == which \in {"tree", "pairs"} => Tree!RedBlack

\* The tree answers as a finite map does (RbTree, Dictionary).
TreeIsMap ==
  /\ which = "tree" => Tree!Map!DInit
  /\ [][(which \in {"tree", "pairs"}) => [Tree!Map!DNext]_(Tree!Map!dvars)]_all
  /\ [](which \in {"tree", "pairs"} => Tree!FindsAll)

\* The list answers as a set does, and its size is that of the set (ListSet,
\* Dictionary).
ListIsSet ==
  /\ which = "list" => List!Set!DInit
  /\ [][which = "list" => [List!Set!DNext]_(List!Set!dvars)]_all
  /\ [](which = "list" => List!SizeIsExact)

\* The log of chunks and the log of nodes are sequences whose elements stay
\* where they are in memory (ChunkedLog, LinkedLog, LogSeq).
LogsAreSequences ==
  /\ which = "chunks" => Chunks!Log!LInit
  /\ [][which = "chunks" => /\ [Chunks!Log!LNext]_(Chunks!Log!lvars)
                            /\ Chunks!RemovesLast]_all
  /\ which = "links" => Links!Log!LInit
  /\ [][which = "links" => [Links!Log!LNext]_(Links!Log!lvars)]_all
  /\ [](which = "links" => Links!NoneLost)

\* With one task per thread a restart of the clock comes to an end (ClockRestart).
RestartEnds == Clock!RestartEnds

\* The size the benchmark expects is the size of the set (Intset).
SizeIsExpected == Set!SizeIsExpected

\* The benchmark's threads all pass the barrier and end (Intset, Barrier).
BenchmarkEnds == <>(which = "set" => setMain.pc = "done")

\* A thread of the SwissTM benchmark finds the value it has put in (IntsetSwiss).
OwnsItsValue == Set1!OwnsItsValue

\* Between two threads wait returns when nobody runs at an older timestamp, and
\* the root of the tree is the minimum of its leaves (PrivTree).
Quiescent == /\ [][which = "priv" => Priv!WaitsForAll]_all
             /\ [](which = "priv" => Priv!RootIsMinimum)

\* Every task of the pool is run, and the threads of the sections let the
\* primary thread shut them down (ThreadPool, ThreadBarrier).
EverybodyEnds == /\ <>(which = "pool" => AllRun)
                 /\ ShutdownEnds
=============================================================================
