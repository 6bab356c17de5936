------------------------------ MODULE PrivTree ------------------------------
(***************************************************************************)
(* Privatization by quiescence over a tree (stm/privatization_tree.h):     *)
(* each thread publishes the timestamp it works at in its leaf, and a      *)
(* thread that has committed waits until the smallest timestamp, at the    *)
(* root, has reached its own.  Every access to the tree is a step.         *)
(***************************************************************************)
EXTENDS Integers, FiniteSets, FiniteSetsExt

CONSTANTS
  MAX_THREADS,   \* the leaves; a power of two
  thread_count,  \* threads that have registered, at most MAX_THREADS
  MaxTs          \* bound: the clock

MINIMUM_TS == 0
Thread == 0 .. thread_count - 1  \* tid, and my_tree_node_idx
Node == 0 .. 2 * MAX_THREADS - 2
Proxy == 0 .. MAX_THREADS - 2

VARIABLES
  tree_nodes, proxy_nodes,
  thread,    \* where each thread is, and the locals of its call
  commit_ts  \* the clock of the transactions

vars == <<tree_nodes, proxy_nodes, thread, commit_ts>>

get_parent_node_idx(n) == (n \div 2) + MAX_THREADS
get_sibling_node_idx(n) == IF n % 2 = 0 THEN n + 1 ELSE n - 1
get_proxy_node_idx(n) == n \div 2

\* The smallest i with input <= 2^i.
tlstm_log2(input) == Min({i \in 0 .. MAX_THREADS : input <= 2 ^ i})

\* InitializeCountToRootMap: as many parents up from the last leaf.
get_root_node_idx(count) ==
  LET up[j \in 0 .. MAX_THREADS] == IF j = 0 THEN count - 1 ELSE get_parent_node_idx(up[j - 1])
  IN up[tlstm_log2(count)]
Root == get_root_node_idx(thread_count)

calculate_parent_ts(my_ts, sibling_ts) ==
  IF my_ts = MINIMUM_TS \/ (sibling_ts # MINIMUM_TS /\ sibling_ts < my_ts)
  THEN sibling_ts ELSE my_ts

Idle == [pc |-> "idle", then |-> "idle", ts |-> 0, node |-> 0, my |-> 0, sibling |-> 0,
         proxy |-> 0, commit |-> 0]

\* GlobalInit: Clean.
Init == /\ tree_nodes = [n \in Node |-> MINIMUM_TS]
        /\ proxy_nodes = [n \in Proxy |-> MINIMUM_TS]
        /\ thread = [t \in Thread |-> Idle]
        /\ commit_ts = 1

At(t, pc) == thread[t].pc = pc
Become(t, r) == thread' = [thread EXCEPT ![t] = r]

----------------------------------------------------------------------------
(* The calls of a transaction: TxStart, Extend, TxTryCommit, TxRestart *)

Call(t, ts, then) ==
  Become(t, [thread[t] EXCEPT !.pc = "store", !.ts = ts, !.then = then])

\* At the valid_ts of its program thread, which the clock may have passed.
TxStart(t) ==
  /\ At(t, "idle")
  /\ \E ts \in 1 .. commit_ts : Call(t, ts, "running")
  /\ UNCHANGED <<tree_nodes, proxy_nodes, commit_ts>>

Extend(t) ==
  /\ At(t, "running") /\ thread[t].ts < commit_ts
  /\ Call(t, commit_ts, "running")
  /\ UNCHANGED <<tree_nodes, proxy_nodes, commit_ts>>

TxRestart(t) ==
  /\ At(t, "running")
  /\ Call(t, MINIMUM_TS, "idle")
  /\ UNCHANGED <<tree_nodes, proxy_nodes, commit_ts>>

TxTryCommit(t) ==
  /\ At(t, "running") /\ commit_ts < MaxTs
  /\ commit_ts' = commit_ts + 1
  /\ Become(t, [thread[t] EXCEPT !.pc = "store", !.ts = MINIMUM_TS, !.then = "wait",
                                 !.commit = commit_ts + 1])
  /\ UNCHANGED <<tree_nodes, proxy_nodes>>

\* wait
Wait(t) ==
  /\ At(t, "wait")
  /\ tree_nodes[Root] = MINIMUM_TS \/ thread[t].commit <= tree_nodes[Root]
  /\ Become(t, Idle)
  /\ UNCHANGED <<tree_nodes, proxy_nodes, commit_ts>>

----------------------------------------------------------------------------
(* setNonMinimumTs *)

Sibling(t) == tree_nodes[get_sibling_node_idx(thread[t].node)]
ProxyOf(t) == get_proxy_node_idx(thread[t].node)
ParentOf(t) == get_parent_node_idx(thread[t].node)

\* From node n on: its timestamp is read again at every level.
Climb(t, n) ==
  IF n = Root THEN [thread[t] EXCEPT !.pc = thread[t].then, !.node = 0, !.my = 0,
                                     !.sibling = 0, !.proxy = 0]
  ELSE [thread[t] EXCEPT !.pc = "my", !.node = n, !.my = 0, !.sibling = 0, !.proxy = 0]

StoreLeaf(t) ==
  /\ At(t, "store")
  /\ tree_nodes' = [tree_nodes EXCEPT ![t] = thread[t].ts]
  /\ Become(t, Climb(t, t))
  /\ UNCHANGED <<proxy_nodes, commit_ts>>

LoadMy(t) ==
  /\ At(t, "my")
  /\ Become(t, [thread[t] EXCEPT !.pc = "sibling_1", !.my = tree_nodes[thread[t].node]])
  /\ UNCHANGED <<tree_nodes, proxy_nodes, commit_ts>>

LoadSibling(t) ==
  /\ At(t, "sibling_1")
  /\ Become(t, [thread[t] EXCEPT !.pc = "proxy", !.sibling = Sibling(t)])
  /\ UNCHANGED <<tree_nodes, proxy_nodes, commit_ts>>

StoreProxy(t) ==
  /\ At(t, "proxy")
  /\ proxy_nodes' = [proxy_nodes EXCEPT ![ProxyOf(t)] =
                       calculate_parent_ts(thread[t].my, thread[t].sibling)]
  /\ Become(t, [thread[t] EXCEPT !.pc = "sibling_2"])
  /\ UNCHANGED <<tree_nodes, commit_ts>>

\* A fault: the sibling may have changed since proxy was calculated.
LoadSiblingOnce(t) ==
  /\ At(t, "sibling_2")
  /\ Become(t, [thread[t] EXCEPT !.pc = "proxy_1"])
  /\ UNCHANGED <<tree_nodes, proxy_nodes, commit_ts>>

LoadSiblingAgain(t) ==
  /\ At(t, "sibling_2")
  /\ Become(t, [thread[t] EXCEPT !.pc = IF Sibling(t) = thread[t].sibling THEN "proxy_1"
                                        ELSE "sibling_1"])
  /\ UNCHANGED <<tree_nodes, proxy_nodes, commit_ts>>

LoadProxy(t) ==
  /\ At(t, "proxy_1")
  /\ Become(t, [thread[t] EXCEPT !.pc = "parent", !.proxy = proxy_nodes[ProxyOf(t)]])
  /\ UNCHANGED <<tree_nodes, proxy_nodes, commit_ts>>

LoadParent(t) ==
  /\ At(t, "parent")
  /\ Become(t, [thread[t] EXCEPT !.pc = IF thread[t].proxy = tree_nodes[ParentOf(t)]
                                        THEN "break" ELSE "store_parent"])
  /\ UNCHANGED <<tree_nodes, proxy_nodes, commit_ts>>

StoreParent(t) ==
  /\ At(t, "store_parent")
  /\ tree_nodes' = [tree_nodes EXCEPT ![ParentOf(t)] = thread[t].proxy]
  /\ Become(t, [thread[t] EXCEPT !.pc = "proxy_2"])
  /\ UNCHANGED <<proxy_nodes, commit_ts>>

\* The parent had the proxy's timestamp: what is above is left to whoever
\* has stored it.
LoadProxyAndBreak(t) ==
  /\ At(t, "break")
  /\ Become(t, IF proxy_nodes[ProxyOf(t)] = thread[t].proxy THEN Climb(t, Root)
               ELSE [thread[t] EXCEPT !.pc = "proxy_1"])
  /\ UNCHANGED <<tree_nodes, proxy_nodes, commit_ts>>

LoadProxyAgain(t) ==
  /\ At(t, "proxy_2")
  /\ Become(t, IF proxy_nodes[ProxyOf(t)] = thread[t].proxy THEN Climb(t, ParentOf(t))
               ELSE [thread[t] EXCEPT !.pc = "proxy_1"])
  /\ UNCHANGED <<tree_nodes, proxy_nodes, commit_ts>>

setNonMinimumTs(t) ==
  \/ StoreLeaf(t) \/ LoadMy(t) \/ LoadSibling(t) \/ StoreProxy(t) \/ LoadSiblingAgain(t)
  \/ LoadProxy(t) \/ LoadParent(t) \/ StoreParent(t) \/ LoadProxyAndBreak(t)
  \/ LoadProxyAgain(t)

Next == \E t \in Thread : \/ TxStart(t) \/ Extend(t) \/ TxRestart(t) \/ TxTryCommit(t)
                          \/ Wait(t) \/ setNonMinimumTs(t)
Spec == Init /\ [][Next]_vars

----------------------------------------------------------------------------
(* Properties *)

\* What they rely on: two threads, as many as the leaves under one parent.  With
\* three, the store of a slow thread may outlive that of a fast one.
TwoThreads ==
  /\ thread_count = 2 /\ MAX_THREADS \in Nat /\ MAX_THREADS >= 2 /\ MaxTs \in Nat
  /\ Root = get_parent_node_idx(0)

\* Nobody who runs at an older timestamp is left when wait returns.
WaitsForAll ==
  \A t \in Thread : Wait(t) =>
    \A u \in Thread : At(u, "running") => thread[u].ts >= thread[t].commit

\* When no call is under way, the root has the smallest timestamp.
RootIsMinimum ==
  LET running == {t \in Thread : At(t, "running")}
  IN (\A t \in Thread : thread[t].pc \in {"idle", "running", "wait"}) =>
       tree_nodes[Root] = IF running = {} THEN MINIMUM_TS
                          ELSE Min({thread[t].ts : t \in running})
=============================================================================
