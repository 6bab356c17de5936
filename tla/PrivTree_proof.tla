--------------------------- MODULE PrivTree_proof ---------------------------
(***************************************************************************)
(* Quiescence between two threads, for any timestamps and any interleaving *)
(* of their accesses to the tree: RootIsMinimum and WaitsForAll.           *)
(*                                                                         *)
(* A thread that has changed its leaf repairs the proxy and then the root. *)
(* Either of them may be set back by the other thread's late store; but    *)
(* then somebody is still to look at it again (ProxyFollows, RootFollows). *)
(***************************************************************************)
EXTENDS PrivTree, TLAPS

AtRest == {"idle", "running", "wait"}
Settling == {"my", "sibling_1", "proxy", "sibling_2"}
Climbing == Settling \cup {"proxy_1", "parent", "store_parent", "break", "proxy_2"}

ThreadState == [pc : AtRest \cup {"store"} \cup Climbing, then : AtRest, ts : Nat, node : Nat,
                my : Nat, sibling : Nat, proxy : Nat, commit : Nat]

TypeOK == /\ tree_nodes \in [Node -> Nat] /\ proxy_nodes \in [Proxy -> Nat]
          /\ thread \in [Thread -> ThreadState]
          /\ commit_ts \in Nat \ {0}

\* Where a thread is, or will be when its call returns.
Phase(r) == IF r.pc \in AtRest THEN r.pc ELSE r.then

\* A leaf has the timestamp of its thread, which is set while it runs.
Local(t) ==
  /\ thread[t].pc # "store" => tree_nodes[t] = thread[t].ts
  /\ thread[t].pc \in Climbing => thread[t].node = t
  /\ thread[t].pc \in {"sibling_1", "proxy", "sibling_2"} => thread[t].my = thread[t].ts
  /\ Phase(thread[t]) = "running" <=> thread[t].ts # MINIMUM_TS

Other(t) == 1 - t
Parent == get_parent_node_idx(0)
Minimum == calculate_parent_ts(tree_nodes[0], tree_nodes[1])

\* t is to store the proxy, or has stored it by a timestamp that its sibling had.
Settles(t) ==
  \/ thread[t].pc \in {"my", "sibling_1", "proxy"}
  \/ thread[t].pc = "sibling_2" /\ thread[t].sibling # tree_nodes[Other(t)]

\* t is to bring the proxy up, or has brought up what it no longer has.
Raises(t) ==
  \/ thread[t].pc \in Settling \cup {"proxy_1", "parent", "store_parent"}
  \/ thread[t].pc \in {"proxy_2", "break"} /\ thread[t].proxy # proxy_nodes[0]

ProxyFollows == proxy_nodes[0] = Minimum \/ \E t \in Thread : Settles(t)
RootFollows == tree_nodes[Parent] = proxy_nodes[0] \/ \E t \in Thread : Raises(t)

PrivInv == TypeOK /\ (\A t \in Thread : Local(t)) /\ ProxyFollows /\ RootFollows

----------------------------------------------------------------------------
(* Two leaves and their parent *)

LEMMA TwoLeaves ==
  ASSUME TwoThreads
  PROVE  /\ Thread = {0, 1} /\ Root = MAX_THREADS /\ Parent = MAX_THREADS
         /\ {0, 1, MAX_THREADS} \subseteq Node /\ MAX_THREADS \notin Thread /\ 0 \in Proxy
         /\ \A t \in Thread : /\ get_sibling_node_idx(t) = Other(t) /\ Other(t) \in Thread \ {t}
                              /\ get_parent_node_idx(t) = MAX_THREADS
                              /\ get_proxy_node_idx(t) = 0
<1>1. Thread = {0, 1}
  BY DEF TwoThreads, Thread
<1>2. Parent = MAX_THREADS /\ Root = MAX_THREADS
  BY DEF TwoThreads, Parent, get_parent_node_idx
<1>3. {0, 1, MAX_THREADS} \subseteq Node /\ MAX_THREADS \notin Thread /\ 0 \in Proxy
  BY <1>1 DEF TwoThreads, Node, Proxy
<1>4. ASSUME NEW t \in {0, 1}
      PROVE  /\ get_sibling_node_idx(t) = 1 - t /\ 1 - t \in {0, 1} \ {t}
             /\ get_parent_node_idx(t) = MAX_THREADS
             /\ get_proxy_node_idx(t) = 0
  BY DEF TwoThreads, get_sibling_node_idx, get_parent_node_idx, get_proxy_node_idx
<1>5. QED BY <1>1, <1>2, <1>3, <1>4 DEF Other

\* The minimum of the leaves, from either side.
LEMMA MinimumIs ==
  ASSUME TwoThreads, TypeOK, NEW t \in Thread
  PROVE  /\ calculate_parent_ts(tree_nodes[t], tree_nodes[Other(t)]) = Minimum
         /\ Minimum \in Nat
<1>1. tree_nodes[0] \in Nat /\ tree_nodes[1] \in Nat
  BY TwoLeaves DEF TypeOK
<1>2. t = 0 \/ t = 1
  BY TwoLeaves
<1>3. QED BY <1>1, <1>2 DEF Minimum, calculate_parent_ts, Other, MINIMUM_TS

LEMMA ParentTsType ==
  ASSUME NEW a \in Nat, NEW b \in Nat PROVE calculate_parent_ts(a, b) \in Nat
BY DEF calculate_parent_ts

LEMMA InitHolds == ASSUME TwoThreads, Init PROVE PrivInv
<1>1. TypeOK
  BY DEF Init, TypeOK, ThreadState, Idle, AtRest, MINIMUM_TS
<1>2. \A t \in Thread : Local(t)
  BY TwoLeaves DEF Init, Local, Idle, Phase, AtRest, Climbing, Settling, MINIMUM_TS
<1>3. proxy_nodes[0] = Minimum /\ tree_nodes[Parent] = proxy_nodes[0]
  BY TwoLeaves DEF Init, Minimum, calculate_parent_ts, MINIMUM_TS
<1>4. QED BY <1>1, <1>2, <1>3 DEF PrivInv, ProxyFollows, RootFollows

----------------------------------------------------------------------------
(* Steps that leave the tree alone *)

\* What Local says of a thread with record r.
LocalAs(t, r) ==
  /\ r.pc # "store" => tree_nodes[t] = r.ts
  /\ r.pc \in Climbing => r.node = t
  /\ r.pc \in {"sibling_1", "proxy", "sibling_2"} => r.my = r.ts
  /\ Phase(r) = "running" <=> r.ts # MINIMUM_TS

\* Whoever stops to settle or to raise has seen that there is no need.
LEMMA Moves ==
  ASSUME TwoThreads, PrivInv, NEW t \in Thread, NEW r \in ThreadState,
         Become(t, r), UNCHANGED <<tree_nodes, proxy_nodes>>, commit_ts' \in Nat \ {0},
         LocalAs(t, r),
         Settles(t) => Settles(t)' \/ proxy_nodes[0] = Minimum,
         Raises(t) => Raises(t)' \/ tree_nodes[Parent] = proxy_nodes[0]
  PROVE  PrivInv'
<1>1. thread' \in [Thread -> ThreadState] /\ thread'[t] = r /\ \A u \in Thread \ {t} : thread'[u] = thread[u]
  BY DEF Become, PrivInv, TypeOK
<1>2. TypeOK'
  BY <1>1 DEF PrivInv, TypeOK
<1>3. ASSUME NEW u \in Thread PROVE Local(u)'
  <2>1. CASE u = t
    BY <1>1, <2>1 DEF Local, LocalAs
  <2>2. CASE u # t
    BY <1>1, <2>2 DEF PrivInv, Local
  <2>3. QED BY <2>1, <2>2
<1>4. ASSUME NEW u \in Thread \ {t} PROVE (Settles(u) => Settles(u)') /\ (Raises(u) => Raises(u)')
  BY <1>1 DEF Settles, Raises
<1>5. ProxyFollows'
  BY <1>4 DEF PrivInv, ProxyFollows, Minimum
<1>6. RootFollows'
  BY <1>4 DEF PrivInv, RootFollows
<1>7. QED BY <1>2, <1>3, <1>5, <1>6 DEF PrivInv

\* A call begins.
LEMMA Calls ==
  ASSUME TwoThreads, PrivInv, NEW t \in Thread,
         TxStart(t) \/ Extend(t) \/ TxRestart(t) \/ TxTryCommit(t)
  PROVE  PrivInv'
<1> DEFINE r(ts, then) == [thread[t] EXCEPT !.pc = "store", !.ts = ts, !.then = then]
           c == [thread[t] EXCEPT !.pc = "store", !.ts = MINIMUM_TS, !.then = "wait",
                                  !.commit = commit_ts + 1]
<1>1. thread[t] \in ThreadState /\ commit_ts \in Nat \ {0}
  BY DEF PrivInv, TypeOK
<1>2. thread[t].pc \in {"idle", "running"} => ~ Settles(t) /\ ~ Raises(t)
  BY DEF Settles, Raises, Settling
<1>3. ASSUME NEW ts \in Nat, NEW then \in {"idle", "running"}, then = "running" <=> ts # MINIMUM_TS
      PROVE  r(ts, then) \in ThreadState /\ LocalAs(t, r(ts, then))
  BY <1>1, <1>3 DEF ThreadState, LocalAs, AtRest, Climbing, Settling, Phase
<1>4. CASE TxStart(t)
  <2>1. PICK ts \in 1 .. commit_ts : Call(t, ts, "running")
    BY <1>4 DEF TxStart
  <2>2. ts \in Nat /\ ts # MINIMUM_TS
    BY <1>1 DEF MINIMUM_TS
  <2>3. Become(t, r(ts, "running")) /\ thread[t].pc = "idle"
        /\ UNCHANGED <<tree_nodes, proxy_nodes, commit_ts>>
    BY <1>4, <2>1 DEF TxStart, Call, At
  <2> HIDE DEF r
  <2>4. r(ts, "running") \in ThreadState /\ LocalAs(t, r(ts, "running"))
    BY <1>3, <2>2
  <2>5. QED BY <1>1, <1>2, <2>3, <2>4, Moves
<1>5. CASE Extend(t)
  <2>1. commit_ts # MINIMUM_TS
    BY <1>1 DEF MINIMUM_TS
  <2>2. Become(t, r(commit_ts, "running")) /\ thread[t].pc = "running"
        /\ UNCHANGED <<tree_nodes, proxy_nodes, commit_ts>>
    BY <1>5 DEF Extend, Call, At
  <2> HIDE DEF r
  <2>3. r(commit_ts, "running") \in ThreadState /\ LocalAs(t, r(commit_ts, "running"))
    BY <1>1, <1>3, <2>1
  <2>4. QED BY <1>1, <1>2, <2>2, <2>3, Moves
<1>6. CASE TxRestart(t)
  <2>1. Become(t, r(MINIMUM_TS, "idle")) /\ thread[t].pc = "running"
        /\ UNCHANGED <<tree_nodes, proxy_nodes, commit_ts>>
    BY <1>6 DEF TxRestart, Call, At
  <2>2. MINIMUM_TS \in Nat
    BY DEF MINIMUM_TS
  <2> HIDE DEF r
  <2>3. r(MINIMUM_TS, "idle") \in ThreadState /\ LocalAs(t, r(MINIMUM_TS, "idle"))
    BY <1>3, <2>2
  <2>4. QED BY <1>1, <1>2, <2>1, <2>3, Moves
<1>7. CASE TxTryCommit(t)
  <2>1. Become(t, c) /\ thread[t].pc = "running" /\ UNCHANGED <<tree_nodes, proxy_nodes>>
        /\ commit_ts' = commit_ts + 1
    BY <1>7 DEF TxTryCommit, At
  <2>2. c \in ThreadState
    <3>1. commit_ts + 1 \in Nat /\ MINIMUM_TS \in Nat
      BY <1>1 DEF MINIMUM_TS
    <3> DEFINE next == commit_ts + 1
    <3> HIDE DEF next
    <3>2. [thread[t] EXCEPT !.pc = "store", !.ts = MINIMUM_TS, !.then = "wait", !.commit = next]
            \in ThreadState
      BY <1>1, <3>1 DEF ThreadState, AtRest, next
    <3>3. QED BY <3>2 DEF next
  <2>3. LocalAs(t, c)
    BY <1>1 DEF ThreadState, LocalAs, AtRest, Climbing, Settling, Phase
  <2>4. commit_ts' \in Nat \ {0}
    BY <1>1, <2>1
  <2> HIDE DEF c
  <2>5. QED BY <1>2, <2>1, <2>2, <2>3, <2>4, Moves
<1>8. QED BY <1>4, <1>5, <1>6, <1>7

LEMMA WaitStep == ASSUME TwoThreads, PrivInv, NEW t \in Thread, Wait(t) PROVE PrivInv'
<1>1. Become(t, Idle) /\ thread[t].pc = "wait" /\ UNCHANGED <<tree_nodes, proxy_nodes, commit_ts>>
  BY DEF Wait, At
<1>2. Idle \in ThreadState /\ commit_ts \in Nat \ {0}
  BY DEF PrivInv, TypeOK, Idle, ThreadState, AtRest
<1>3. LocalAs(t, Idle)
  BY <1>1 DEF PrivInv, Local, LocalAs, Idle, AtRest, Climbing, Settling, Phase, MINIMUM_TS
<1>4. ~ Settles(t) /\ ~ Raises(t)
  BY <1>1 DEF Settles, Raises, Settling
<1>5. QED BY <1>1, <1>2, <1>3, <1>4, Moves

----------------------------------------------------------------------------
(* A call: the loads *)

\* A thread that climbs is at its leaf, below the root.
LEMMA AtLeaf ==
  ASSUME TwoThreads, PrivInv, NEW t \in Thread, thread[t].pc \in Climbing
  PROVE  /\ Sibling(t) = tree_nodes[Other(t)] /\ ProxyOf(t) = 0 /\ ParentOf(t) = MAX_THREADS
         /\ thread[t] \in ThreadState /\ tree_nodes[t] = thread[t].ts
         /\ tree_nodes[t] \in Nat /\ tree_nodes[Other(t)] \in Nat /\ tree_nodes[MAX_THREADS] \in Nat
         /\ proxy_nodes[0] \in Nat /\ commit_ts \in Nat \ {0}
         /\ Phase(thread[t]) = thread[t].then
         /\ thread[t].then = "running" <=> thread[t].ts # MINIMUM_TS
<1>1. thread[t].node = t /\ thread[t].pc # "store" /\ thread[t].pc \notin AtRest
  BY DEF PrivInv, Local, Climbing, Settling, AtRest
<1>2. Sibling(t) = tree_nodes[Other(t)] /\ ProxyOf(t) = 0 /\ ParentOf(t) = MAX_THREADS
  BY <1>1, TwoLeaves DEF Sibling, ProxyOf, ParentOf
<1>3. thread[t] \in ThreadState /\ tree_nodes[t] = thread[t].ts
      /\ (thread[t].then = "running" <=> thread[t].ts # MINIMUM_TS)
  BY <1>1 DEF PrivInv, TypeOK, Local, Phase
<1>4. Other(t) \in Node /\ t \in Node /\ MAX_THREADS \in Node /\ 0 \in Proxy
  BY TwoLeaves
<1>5. QED BY <1>1, <1>2, <1>3, <1>4 DEF PrivInv, TypeOK, Phase

LEMMA Loads ==
  ASSUME TwoThreads, PrivInv, NEW t \in Thread,
         LoadMy(t) \/ LoadSibling(t) \/ LoadSiblingAgain(t) \/ LoadProxy(t) \/ LoadParent(t)
  PROVE  PrivInv'
<1> DEFINE r == thread'[t]
<1>1. thread[t].pc \in {"my", "sibling_1", "sibling_2", "proxy_1", "parent"}
      /\ UNCHANGED <<tree_nodes, proxy_nodes, commit_ts>>
  BY DEF LoadMy, LoadSibling, LoadSiblingAgain, LoadProxy, LoadParent, At
<1>2. thread[t].pc \in Climbing
  BY <1>1 DEF Climbing, Settling
<1>3. thread[t] \in ThreadState /\ thread \in [Thread -> ThreadState]
  BY <1>2, AtLeaf DEF PrivInv, TypeOK
<1>4. CASE LoadMy(t)
  <2> DEFINE q == [thread[t] EXCEPT !.pc = "sibling_1", !.my = tree_nodes[thread[t].node]]
  <2>1. Become(t, q) /\ thread[t].node = t
    BY <1>2, <1>4 DEF LoadMy, PrivInv, Local
  <2>2. q \in ThreadState
    BY <1>2, <1>3, <2>1, AtLeaf DEF ThreadState, Climbing, Settling
  <2>3. LocalAs(t, q)
    BY <1>2, <1>3, <2>1, AtLeaf DEF PrivInv, Local, LocalAs, ThreadState, Phase, AtRest, Climbing, Settling
  <2>4. thread'[t] = q
    BY <1>3, <2>1 DEF Become
  <2>5. Settles(t)' /\ Raises(t)'
    BY <1>3, <2>4 DEF Settles, Raises, Settling, ThreadState
  <2> HIDE DEF q
  <2>6. QED BY <1>1, <1>2, <2>1, <2>2, <2>3, <2>5, AtLeaf, Moves
<1>5. CASE LoadSibling(t)
  <2> DEFINE q == [thread[t] EXCEPT !.pc = "proxy", !.sibling = tree_nodes[Other(t)]]
  <2>1. Become(t, q) /\ thread[t].pc = "sibling_1"
    BY <1>2, <1>5, AtLeaf DEF LoadSibling, At
  <2>2. q \in ThreadState
    BY <1>2, <1>3, AtLeaf DEF ThreadState, Climbing, Settling
  <2>3. LocalAs(t, q)
    BY <1>2, <1>3, <2>1, AtLeaf DEF PrivInv, Local, LocalAs, ThreadState, Phase, AtRest, Climbing, Settling
  <2>4. thread'[t] = q
    BY <1>3, <2>1 DEF Become
  <2>5. Settles(t)' /\ Raises(t)'
    BY <1>3, <2>4 DEF Settles, Raises, Settling, ThreadState
  <2> HIDE DEF q
  <2>6. QED BY <1>1, <1>2, <2>1, <2>2, <2>3, <2>5, AtLeaf, Moves
<1>6. CASE LoadSiblingAgain(t)
  <2> DEFINE next == IF tree_nodes[Other(t)] = thread[t].sibling THEN "proxy_1" ELSE "sibling_1"
             q == [thread[t] EXCEPT !.pc = next]
  <2>1. Become(t, q) /\ thread[t].pc = "sibling_2"
    BY <1>2, <1>6, AtLeaf DEF LoadSiblingAgain, At
  <2>2. next \in {"proxy_1", "sibling_1"} /\ (Settles(t) => next = "sibling_1")
    BY <2>1 DEF Settles
  <2> HIDE DEF next
  <2>3. q \in ThreadState
    BY <1>3, <2>2 DEF ThreadState, Climbing, Settling
  <2>4. LocalAs(t, q)
    BY <1>2, <1>3, <2>1, <2>2, AtLeaf
       DEF PrivInv, Local, LocalAs, ThreadState, Phase, AtRest, Climbing, Settling
  <2>5. thread'[t] = q
    BY <1>3, <2>1 DEF Become
  <2>6. (Settles(t) => Settles(t)') /\ Raises(t)'
    BY <1>3, <2>2, <2>5 DEF Settles, Raises, Settling, ThreadState
  <2> HIDE DEF q
  <2>7. QED BY <1>1, <1>2, <2>1, <2>3, <2>4, <2>6, AtLeaf, Moves
<1>7. CASE LoadProxy(t)
  <2> DEFINE q == [thread[t] EXCEPT !.pc = "parent", !.proxy = proxy_nodes[0]]
  <2>1. Become(t, q) /\ thread[t].pc = "proxy_1"
    BY <1>2, <1>7, AtLeaf DEF LoadProxy, At
  <2>2. q \in ThreadState
    BY <1>2, <1>3, AtLeaf DEF ThreadState, Climbing, Settling
  <2>3. LocalAs(t, q)
    BY <1>2, <1>3, <2>1, AtLeaf DEF PrivInv, Local, LocalAs, ThreadState, Phase, AtRest, Climbing, Settling
  <2>4. thread'[t] = q
    BY <1>3, <2>1 DEF Become
  <2>5. ~ Settles(t) /\ Raises(t)'
    BY <1>3, <2>1, <2>4 DEF Settles, Raises, Settling, ThreadState
  <2> HIDE DEF q
  <2>6. QED BY <1>1, <1>2, <2>1, <2>2, <2>3, <2>5, AtLeaf, Moves
<1>8. CASE LoadParent(t)
  <2> DEFINE next == IF thread[t].proxy = tree_nodes[MAX_THREADS] THEN "break" ELSE "store_parent"
             q == [thread[t] EXCEPT !.pc = next]
  <2>1. Become(t, q) /\ thread[t].pc = "parent"
    BY <1>2, <1>8, AtLeaf DEF LoadParent, At
  <2>2. next \in {"break", "store_parent"}
        /\ (next = "break" => thread[t].proxy = tree_nodes[MAX_THREADS])
    OBVIOUS
  <2> HIDE DEF next
  <2>3. q \in ThreadState
    BY <1>3, <2>2 DEF ThreadState, Climbing, Settling
  <2>4. LocalAs(t, q)
    BY <1>2, <1>3, <2>1, <2>2, AtLeaf
       DEF PrivInv, Local, LocalAs, ThreadState, Phase, AtRest, Climbing, Settling
  <2>5. thread'[t] = q
    BY <1>3, <2>1 DEF Become
  <2>6. ~ Settles(t) /\ (Raises(t)' \/ tree_nodes[Parent] = proxy_nodes[0])
    BY <1>1, <1>3, <2>1, <2>2, <2>5, TwoLeaves DEF Settles, Raises, Settling, ThreadState
  <2> HIDE DEF q
  <2>7. QED BY <1>1, <1>2, <2>1, <2>3, <2>4, <2>6, AtLeaf, Moves
<1>9. QED BY <1>4, <1>5, <1>6, <1>7, <1>8

\* The call ends, or the proxy has changed since it was brought up.
LEMMA LoadsAgain ==
  ASSUME TwoThreads, PrivInv, NEW t \in Thread, LoadProxyAndBreak(t) \/ LoadProxyAgain(t)
  PROVE  PrivInv'
<1> DEFINE done == [thread[t] EXCEPT !.pc = thread[t].then, !.node = 0, !.my = 0,
                                     !.sibling = 0, !.proxy = 0]
           again == [thread[t] EXCEPT !.pc = "proxy_1"]
<1>1. thread[t].pc \in {"break", "proxy_2"} /\ UNCHANGED <<tree_nodes, proxy_nodes, commit_ts>>
  BY DEF LoadProxyAndBreak, LoadProxyAgain, At
<1>2. thread[t].pc \in Climbing
  BY <1>1 DEF Climbing
<1>3. thread[t] \in ThreadState /\ thread \in [Thread -> ThreadState]
  BY <1>2, AtLeaf DEF PrivInv, TypeOK
<1>4. Climb(t, Root) = done /\ Climb(t, MAX_THREADS) = done
  BY TwoLeaves DEF Climb
<1>5. Become(t, IF proxy_nodes[0] = thread[t].proxy THEN done ELSE again)
  BY <1>2, <1>4, AtLeaf DEF LoadProxyAndBreak, LoadProxyAgain
<1>6. ~ Settles(t) /\ (Raises(t) => proxy_nodes[0] # thread[t].proxy)
  BY <1>1 DEF Settles, Raises, Settling
<1>7. CASE proxy_nodes[0] = thread[t].proxy
  <2>1. Become(t, done)
    BY <1>5, <1>7
  <2>2. done \in ThreadState
    BY <1>3 DEF ThreadState
  <2>3. LocalAs(t, done)
    BY <1>2, <1>3, AtLeaf DEF LocalAs, ThreadState, Phase, AtRest, Climbing, Settling
  <2> HIDE DEF done
  <2>4. QED BY <1>1, <1>2, <1>6, <1>7, <2>1, <2>2, <2>3, AtLeaf, Moves
<1>8. CASE proxy_nodes[0] # thread[t].proxy
  <2>1. Become(t, again)
    BY <1>5, <1>8
  <2>2. again \in ThreadState
    BY <1>3 DEF ThreadState, Climbing
  <2>3. LocalAs(t, again)
    BY <1>2, <1>3, AtLeaf DEF PrivInv, Local, LocalAs, ThreadState, Phase, AtRest, Climbing, Settling
  <2>4. thread'[t] = again
    BY <1>3, <2>1 DEF Become
  <2>5. Raises(t)'
    BY <1>3, <2>4 DEF Raises, ThreadState
  <2> HIDE DEF again
  <2>6. QED BY <1>1, <1>2, <1>6, <2>1, <2>2, <2>3, <2>5, AtLeaf, Moves
<1>9. QED BY <1>7, <1>8

----------------------------------------------------------------------------
(* A call: the stores *)

LEMMA StoreLeafStep == ASSUME TwoThreads, PrivInv, NEW t \in Thread, StoreLeaf(t) PROVE PrivInv'
<1> DEFINE q == [thread[t] EXCEPT !.pc = "my", !.node = t, !.my = 0, !.sibling = 0, !.proxy = 0]
<1>1. t # Root /\ t \in Nat /\ t \in Node /\ t # MAX_THREADS
  BY TwoLeaves
<1>2. /\ thread[t].pc = "store" /\ thread' = [thread EXCEPT ![t] = q]
      /\ tree_nodes' = [tree_nodes EXCEPT ![t] = thread[t].ts]
      /\ UNCHANGED <<proxy_nodes, commit_ts>>
  BY <1>1 DEF StoreLeaf, Climb, Become, At
<1>3. thread[t] \in ThreadState /\ thread \in [Thread -> ThreadState]
      /\ tree_nodes \in [Node -> Nat] /\ thread[t].ts \in Nat
  BY DEF PrivInv, TypeOK, ThreadState
<1>4. q \in ThreadState
  BY <1>1, <1>3 DEF ThreadState, Climbing, Settling
<1>5. /\ thread'[t] = q /\ tree_nodes'[t] = thread[t].ts
      /\ \A u \in Thread \ {t} : thread'[u] = thread[u] /\ tree_nodes'[u] = tree_nodes[u]
      /\ tree_nodes'[MAX_THREADS] = tree_nodes[MAX_THREADS]
  BY <1>1, <1>2, <1>3, TwoLeaves
<1>6. q.pc = "my" /\ q.node = t /\ q.ts = thread[t].ts /\ Phase(q) = thread[t].then
  BY <1>3 DEF ThreadState, Phase, AtRest
<1>7. TypeOK'
  BY <1>2, <1>3, <1>4 DEF PrivInv, TypeOK
<1>8. thread[t].then = "running" <=> thread[t].ts # MINIMUM_TS
  BY <1>2 DEF PrivInv, Local, Phase, AtRest
<1> HIDE DEF q
<1>9. ASSUME NEW u \in Thread PROVE Local(u)'
  <2>1. CASE u = t
    BY <1>5, <1>6, <1>8, <2>1 DEF Local
  <2>2. CASE u # t
    BY <1>5, <2>2 DEF PrivInv, Local
  <2>3. QED BY <2>1, <2>2
<1>10. Settles(t)' /\ Raises(t)'
  BY <1>5, <1>6 DEF Settles, Raises, Settling
<1>11. QED BY <1>7, <1>9, <1>10 DEF PrivInv, ProxyFollows, RootFollows

LEMMA StoreProxyStep == ASSUME TwoThreads, PrivInv, NEW t \in Thread, StoreProxy(t) PROVE PrivInv'
<1> DEFINE ts == calculate_parent_ts(thread[t].my, thread[t].sibling)
           q == [thread[t] EXCEPT !.pc = "sibling_2"]
<1>1. thread[t].pc = "proxy" /\ thread[t].pc \in Climbing
  BY DEF StoreProxy, At, Climbing, Settling
<1>2. /\ thread' = [thread EXCEPT ![t] = q] /\ proxy_nodes' = [proxy_nodes EXCEPT ![0] = ts]
      /\ UNCHANGED <<tree_nodes, commit_ts>>
  BY <1>1, AtLeaf DEF StoreProxy, Become
<1>3. thread[t] \in ThreadState /\ thread \in [Thread -> ThreadState]
      /\ proxy_nodes \in [Proxy -> Nat] /\ 0 \in Proxy
  BY TwoLeaves DEF PrivInv, TypeOK
<1>4. q \in ThreadState /\ ts \in Nat
  BY <1>3, ParentTsType DEF ThreadState, Climbing, Settling
<1>5. thread'[t] = q /\ proxy_nodes'[0] = ts /\ \A u \in Thread \ {t} : thread'[u] = thread[u]
  BY <1>2, <1>3
<1>6. TypeOK'
  BY <1>2, <1>3, <1>4 DEF PrivInv, TypeOK
<1>7. q.pc = "sibling_2" /\ q.sibling = thread[t].sibling /\ q.node = thread[t].node
      /\ q.my = thread[t].my /\ q.ts = thread[t].ts /\ q.then = thread[t].then
  BY <1>3 DEF ThreadState
<1>8. thread[t].my = tree_nodes[t]
  BY <1>1 DEF PrivInv, Local
<1> HIDE DEF q
<1>9. ASSUME NEW u \in Thread PROVE Local(u)'
  <2>1. CASE u = t
    BY <1>1, <1>2, <1>5, <1>7, <2>1, AtLeaf DEF PrivInv, Local, Phase, AtRest, Climbing, Settling
  <2>2. CASE u # t
    BY <1>2, <1>5, <2>2 DEF PrivInv, Local
  <2>3. QED BY <2>1, <2>2
<1>10. Raises(t)'
  BY <1>5, <1>7 DEF Raises, Settling
<1>11. Settles(t)' \/ proxy_nodes'[0] = Minimum'
  <2>1. CASE thread[t].sibling = tree_nodes[Other(t)]
    <3>1. calculate_parent_ts(tree_nodes[t], tree_nodes[Other(t)]) = Minimum
      BY MinimumIs DEF PrivInv
    <3>2. Minimum' = Minimum
      BY <1>2 DEF Minimum
    <3>3. QED BY <1>5, <1>8, <2>1, <3>1, <3>2
  <2>2. CASE thread[t].sibling # tree_nodes[Other(t)]
    BY <1>2, <1>5, <1>7, <2>2 DEF Settles
  <2>3. QED BY <2>1, <2>2
<1>12. QED BY <1>6, <1>9, <1>10, <1>11 DEF PrivInv, ProxyFollows, RootFollows

LEMMA StoreParentStep == ASSUME TwoThreads, PrivInv, NEW t \in Thread, StoreParent(t) PROVE PrivInv'
<1> DEFINE q == [thread[t] EXCEPT !.pc = "proxy_2"]
<1>1. thread[t].pc = "store_parent" /\ thread[t].pc \in Climbing
  BY DEF StoreParent, At, Climbing
<1>2. /\ thread' = [thread EXCEPT ![t] = q]
      /\ tree_nodes' = [tree_nodes EXCEPT ![MAX_THREADS] = thread[t].proxy]
      /\ UNCHANGED <<proxy_nodes, commit_ts>>
  BY <1>1, AtLeaf DEF StoreParent, Become
<1>3. thread[t] \in ThreadState /\ thread \in [Thread -> ThreadState] /\ thread[t].proxy \in Nat
      /\ tree_nodes \in [Node -> Nat] /\ MAX_THREADS \in Node
  BY TwoLeaves DEF PrivInv, TypeOK, ThreadState
<1>4. q \in ThreadState
  BY <1>3 DEF ThreadState, Climbing
<1>5. thread'[t] = q /\ tree_nodes'[Parent] = thread[t].proxy
      /\ (\A u \in Thread \ {t} : thread'[u] = thread[u])
      /\ (\A u \in Thread : tree_nodes'[u] = tree_nodes[u])
  BY <1>2, <1>3, TwoLeaves
<1>6. TypeOK'
  BY <1>2, <1>3, <1>4 DEF PrivInv, TypeOK
<1>7. q.pc = "proxy_2" /\ q.proxy = thread[t].proxy /\ q.node = thread[t].node
      /\ q.ts = thread[t].ts /\ q.then = thread[t].then
  BY <1>3 DEF ThreadState
<1> HIDE DEF q
<1>8. ASSUME NEW u \in Thread PROVE Local(u)'
  <2>1. CASE u = t
    BY <1>1, <1>5, <1>7, <2>1, AtLeaf DEF PrivInv, Local, Phase, AtRest, Climbing, Settling
  <2>2. CASE u # t
    BY <1>5, <2>2 DEF PrivInv, Local
  <2>3. QED BY <2>1, <2>2
<1>9. Raises(t)' \/ tree_nodes'[Parent] = proxy_nodes'[0]
  BY <1>2, <1>5, <1>7 DEF Raises
<1>10. ASSUME NEW u \in Thread PROVE Settles(u) => Settles(u)'
  <2>1. CASE u = t
    BY <1>1, <2>1 DEF Settles
  <2>2. CASE u # t
    BY <1>5, <2>2, TwoLeaves DEF Settles
  <2>3. QED BY <2>1, <2>2
<1>11. Minimum' = Minimum
  BY <1>5, TwoLeaves DEF Minimum
<1>12. QED BY <1>2, <1>6, <1>8, <1>9, <1>10, <1>11 DEF PrivInv, ProxyFollows, RootFollows

----------------------------------------------------------------------------
(* Theorems *)

\* Quiescence keeps its invariant, for any interleaving of the two threads'
\* accesses.
THEOREM PrivInvariant == ASSUME TwoThreads PROVE Spec => []PrivInv
<1>1. Init => PrivInv
  BY InitHolds
<1>2. PrivInv /\ [Next]_vars => PrivInv'
  <2> SUFFICES ASSUME PrivInv, [Next]_vars PROVE PrivInv'
    OBVIOUS
  <2>1. CASE UNCHANGED vars
    BY <2>1 DEF vars, PrivInv, TypeOK, Local, ProxyFollows, RootFollows, Settles, Raises, Minimum
  <2>2. ASSUME NEW t \in Thread, TxStart(t) \/ Extend(t) \/ TxRestart(t) \/ TxTryCommit(t)
        PROVE  PrivInv'
    BY <2>2, Calls
  <2>3. ASSUME NEW t \in Thread, Wait(t) PROVE PrivInv'
    BY <2>3, WaitStep
  <2>4. ASSUME NEW t \in Thread, setNonMinimumTs(t) PROVE PrivInv'
    BY <2>4, StoreLeafStep, StoreProxyStep, StoreParentStep, Loads, LoadsAgain
       DEF setNonMinimumTs
  <2>5. QED BY <2>1, <2>2, <2>3, <2>4 DEF Next
<1>3. QED BY <1>1, <1>2, PTL DEF Spec

\* When nobody is in a call, nobody is to settle or to raise.
LEMMA RootAtRest ==
  ASSUME TwoThreads, PrivInv, \A t \in Thread : thread[t].pc \in AtRest
  PROVE  /\ tree_nodes[Root] = Minimum
         /\ \A t \in Thread : tree_nodes[t] = thread[t].ts /\ thread[t].ts \in Nat
                              /\ (At(t, "running") <=> thread[t].ts # MINIMUM_TS)
<1>1. \A t \in Thread : ~ Settles(t) /\ ~ Raises(t)
  BY DEF Settles, Raises, Settling, AtRest
<1>2. tree_nodes[Root] = Minimum
  BY <1>1, TwoLeaves DEF PrivInv, ProxyFollows, RootFollows
<1>3. ASSUME NEW t \in Thread
      PROVE  tree_nodes[t] = thread[t].ts /\ thread[t].ts \in Nat
             /\ (At(t, "running") <=> thread[t].ts # MINIMUM_TS)
  BY DEF PrivInv, TypeOK, ThreadState, Local, Phase, AtRest, At
<1>4. QED BY <1>2, <1>3

\* When no call is under way, the root has the smallest timestamp of the threads
\* that run, whatever stores were late.
THEOREM RootIsTheMinimum == ASSUME TwoThreads PROVE Spec => []RootIsMinimum
<1>1. PrivInv => RootIsMinimum
  <2> DEFINE running == {t \in Thread : At(t, "running")}
             times == {thread[t].ts : t \in running}
  <2> SUFFICES ASSUME PrivInv, \A t \in Thread : thread[t].pc \in {"idle", "running", "wait"}
               PROVE  tree_nodes[Root] = IF running = {} THEN MINIMUM_TS ELSE Min(times)
    BY DEF RootIsMinimum
  <2>1. /\ tree_nodes[Root] = Minimum
        /\ \A t \in Thread : tree_nodes[t] = thread[t].ts /\ thread[t].ts \in Nat
                             /\ (At(t, "running") <=> thread[t].ts # MINIMUM_TS)
    BY RootAtRest DEF AtRest
  <2>2. Minimum = calculate_parent_ts(thread[0].ts, thread[1].ts)
    BY <2>1, TwoLeaves DEF Minimum
  <2>3. CASE running = {}
    BY <2>1, <2>2, <2>3, TwoLeaves DEF calculate_parent_ts, MINIMUM_TS
  <2>4. CASE running # {}
    <3>1. Minimum \in times /\ \A n \in times : Minimum <= n
      <4>1. PICK t \in Thread : thread[t].ts # MINIMUM_TS
        BY <2>1, <2>4
      <4>2. ASSUME NEW n \in times PROVE Minimum <= n
        BY <2>1, <2>2, TwoLeaves DEF calculate_parent_ts, MINIMUM_TS
      <4>3. \E u \in Thread : thread[u].ts = Minimum /\ thread[u].ts # MINIMUM_TS
        BY <2>1, <2>2, <4>1, TwoLeaves DEF calculate_parent_ts, MINIMUM_TS
      <4>4. QED BY <2>1, <4>2, <4>3
    <3>2. times \subseteq Nat
      BY <2>1
    <3> HIDE DEF times
    <3>3. Min(times) = Minimum
      BY <3>1, <3>2 DEF Min
    <3>4. QED BY <2>1, <2>4, <3>3
  <2>5. QED BY <2>3, <2>4
<1>2. QED BY <1>1, PrivInvariant, PTL

\* wait returns when nobody runs at an older timestamp: what the caller has made
\* private is then nobody else's.
THEOREM WaitEndsInQuiet == ASSUME TwoThreads PROVE Spec => [][WaitsForAll]_vars
<1>1. PrivInv => WaitsForAll
  <2> SUFFICES ASSUME PrivInv, NEW t \in Thread, Wait(t), NEW u \in Thread, At(u, "running")
               PROVE  thread[u].ts >= thread[t].commit
    BY DEF WaitsForAll
  <2>1. u # t /\ thread[t].pc = "wait" /\ thread[u].pc = "running"
    BY DEF Wait, At
  <2>2. \A s \in Thread : thread[s].pc \in AtRest
    BY <2>1, TwoLeaves DEF AtRest
  <2>3. /\ tree_nodes[Root] = Minimum
        /\ \A s \in Thread : tree_nodes[s] = thread[s].ts /\ thread[s].ts \in Nat
                             /\ (At(s, "running") <=> thread[s].ts # MINIMUM_TS)
    BY <2>2, RootAtRest
  <2>4. tree_nodes[t] = MINIMUM_TS /\ tree_nodes[u] = thread[u].ts /\ thread[u].ts # MINIMUM_TS
    BY <2>1, <2>3 DEF At
  <2>5. Other(u) = t
    BY <2>1, TwoLeaves DEF Other
  <2>6. Minimum = thread[u].ts
    BY <2>3, <2>4, <2>5, MinimumIs DEF PrivInv, calculate_parent_ts
  <2>7. tree_nodes[Root] = MINIMUM_TS \/ thread[t].commit <= tree_nodes[Root]
    BY DEF Wait
  <2>8. thread[t].commit \in Nat /\ thread[u].ts \in Nat
    BY DEF PrivInv, TypeOK, ThreadState
  <2>9. QED BY <2>3, <2>4, <2>6, <2>7, <2>8
<1>2. QED BY <1>1, PrivInvariant, PTL
=============================================================================
