----------------------------- MODULE LinkedLog -----------------------------
(***************************************************************************)
(* The log as it is built with LINKED_LOG (stm/common/log.h): a doubly     *)
(* linked list of the elements and a singly linked list of free nodes.     *)
(***************************************************************************)
EXTENDS Integers, Sequences

CONSTANTS
  Values,          \* what is logged
  INITIAL_SIZE, GROWTH_FACTOR,
  Nodes            \* bound: nodes of a log

VARIABLES
  node,              \* the nodes: data, next and prev
  allocated,         \* number of nodes allocate_free has made
  head, tail, free

llvars == <<node, allocated, head, tail, free>>

NULL == 0
Garbage == [data |-> NULL, next |-> NULL, prev |-> NULL]

\* allocate_free: count new nodes, the first at index first, become the free list.
Chain(nodes, first, count) ==
  [n \in DOMAIN nodes |->
     IF n \in first .. first + count - 1
     THEN [Garbage EXCEPT !.next = IF n = first + count - 1 THEN NULL ELSE n + 1]
     ELSE nodes[n]]

Init == /\ node = Chain([n \in 1 .. Nodes |-> Garbage], 1, INITIAL_SIZE)
        /\ allocated = INITIAL_SIZE /\ free = 1
        /\ head = NULL /\ tail = NULL

\* get_next and an assignment to what it returns; insert.
GetNext(v) ==
  LET grows == free = NULL
      nodes == IF grows THEN Chain(node, allocated + 1, GROWTH_FACTOR) ELSE node
      new == IF grows THEN allocated + 1 ELSE free
      linked == [nodes EXCEPT ![new] = [data |-> v, next |-> NULL, prev |-> tail]]
  IN /\ grows => allocated + GROWTH_FACTOR <= Nodes
     /\ allocated' = IF grows THEN allocated + GROWTH_FACTOR ELSE allocated
     /\ free' = nodes[new].next
     /\ node' = IF tail = NULL THEN linked ELSE [linked EXCEPT ![tail].next = new]
     /\ head' = IF tail = NULL THEN new ELSE head
     /\ tail' = new

\* delete_last, remove; the log is not empty.
DeleteLast ==
  /\ tail # NULL
  /\ LET before == node[tail].prev
         freed == [node EXCEPT ![tail].next = free]
     IN /\ node' = IF before = NULL THEN freed ELSE [freed EXCEPT ![before].next = NULL]
        /\ tail' = before
        /\ head' = IF before = NULL THEN NULL ELSE head
        /\ free' = tail
  /\ UNCHANGED allocated

Clear ==
  IF tail = NULL THEN UNCHANGED llvars
  ELSE /\ node' = [node EXCEPT ![tail].next = free]
       /\ free' = head /\ head' = NULL /\ tail' = NULL
       /\ UNCHANGED allocated

Next == (\E v \in Values : GetNext(v)) \/ DeleteLast \/ Clear
Spec == Init /\ [][Next]_llvars

----------------------------------------------------------------------------
\* The nodes from n on: an iterator, or the free list.
RECURSIVE From(_)
From(n) == IF n = NULL THEN <<>> ELSE <<n>> \o From(node[n].next)
InLog == From(head)

\* The list is a log, with every node in the log or free, never in both: the
\* nodes of a log that was cleared or cut come back.
Log == INSTANCE LogSeq WITH
  elements <- [i \in DOMAIN InLog |-> node[InLog[i]].data], places <- InLog, Memory <- 1 .. Nodes
NoneLost == Len(InLog) + Len(From(free)) = allocated
=============================================================================
