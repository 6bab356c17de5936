------------------------------ MODULE ListSet ------------------------------
(***************************************************************************)
(* The sorted list of the benchmarks (mubench/intset.c), between sentinels *)
(* with the smallest and the largest int.  The code has each operation     *)
(* once for every build and once without a transaction: the algorithm is   *)
(* the same, and as a transaction is atomic an operation is one step.      *)
(***************************************************************************)
EXTENDS Integers, FiniteSets, FiniteSetsExt

CONSTANTS
  Keys,              \* the values the program puts into the set
  Nodes,             \* bound: nodes of memory
  INT_MIN, INT_MAX   \* the values of the sentinels

VARIABLES
  head, node,  \* the list in memory
  allocated,   \* the nodes malloc gave out and free has not got back
  result       \* the last operation, its value and what it returned

lsvars == <<head, node, allocated, result>>

NULL == 0
Node == 1 .. Nodes
Garbage == [val |-> 0, next |-> NULL]

\* new_node: which free node it is does not matter.
NewNode == Min(Node \ allocated)
Truth(P) == IF P THEN 1 ELSE 0

\* set_new: node 1 is max, node 2 is min.
Init == /\ head = 2 /\ allocated = {1, 2}
        /\ node = [n \in Node |-> IF n = 1 THEN [val |-> INT_MAX, next |-> NULL]
                                  ELSE IF n = 2 THEN [val |-> INT_MIN, next |-> 1] ELSE Garbage]
        /\ result = <<>>

\* The search of all the operations: prev, whose next node is the first that
\* is not below val.
RECURSIVE Prev(_, _)
Prev(prev, val) ==
  IF node[node[prev].next].val >= val THEN prev ELSE Prev(node[prev].next, val)

SetAddTwice(val) ==  \* fault: a value that is there is added again
  LET prev == Prev(head, val)
  IN /\ Node \ allocated # {}
     /\ result' = <<"add", val, 1>>
     /\ node' = [node EXCEPT ![prev].next = NewNode,
                             ![NewNode] = [val |-> val, next |-> node[prev].next]]
     /\ allocated' = allocated \cup {NewNode} /\ UNCHANGED head

SetAdd(val) ==
  LET prev == Prev(head, val)
      next == node[prev].next
      new == node[next].val # val
  IN /\ Node \ allocated # {}
     /\ result' = <<"add", val, Truth(new)>>
     /\ IF new
        THEN /\ node' = [node EXCEPT ![prev].next = NewNode,
                                     ![NewNode] = [val |-> val, next |-> next]]
             /\ allocated' = allocated \cup {NewNode}
        ELSE UNCHANGED <<node, allocated>>
     /\ UNCHANGED head

\* free leaves garbage in the node.
SetRemove(val) ==
  LET prev == Prev(head, val)
      next == node[prev].next
      found == node[next].val = val
  IN /\ result' = <<"remove", val, Truth(found)>>
     /\ IF found
        THEN /\ node' = [node EXCEPT ![prev].next = node[next].next, ![next] = Garbage]
             /\ allocated' = allocated \ {next}
        ELSE UNCHANGED <<node, allocated>>
     /\ UNCHANGED head

SetContains(val) ==
  /\ result' = <<"contains", val, Truth(node[node[Prev(head, val)].next].val = val)>>
  /\ UNCHANGED <<head, node, allocated>>

Next == \E val \in Keys : SetAdd(val) \/ SetRemove(val) \/ SetContains(val)
Spec == Init /\ [][Next]_lsvars

\* set_size: the nodes between the sentinels.
RECURSIVE SizeFrom(_)
SizeFrom(n) == IF node[n].next = NULL THEN 0 ELSE 1 + SizeFrom(node[n].next)
SetSize == SizeFrom(node[head].next)

----------------------------------------------------------------------------
(* Properties *)

RECURSIVE ValuesFrom(_)
ValuesFrom(n) ==
  IF node[n].next = NULL THEN {} ELSE {node[n].val} \cup ValuesFrom(node[n].next)
Elements == ValuesFrom(node[head].next)

\* The operations answer as those of a set do, whatever was added and removed
\* before and in whatever nodes of memory the list's elements are.
Set == INSTANCE Dictionary WITH
  told <- result, Values <- {0}, dict <- [k \in Elements |-> 0]

\* set_size counts every element once, and the nodes between the sentinels are
\* all the nodes that were allocated and not freed.
SizeIsExact == SetSize = Cardinality(Elements) /\ SetSize + 2 = Cardinality(allocated)
=============================================================================
