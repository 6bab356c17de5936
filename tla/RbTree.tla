------------------------------- MODULE RbTree -------------------------------
(***************************************************************************)
(* The red-black tree of the benchmarks (mubench/rbtree.c).  The code has  *)
(* every function twice, with plain accesses and, as TM..., with accesses  *)
(* through a transaction: both are the same algorithm, and since a         *)
(* transaction is atomic (Tlstm, SwissTm) an operation is one step here.   *)
(* The code also has every case of a rotation and of a repair twice, for a *)
(* left and for a right child: the side is a parameter.                    *)
(***************************************************************************)
EXTENDS Integers, FiniteSets, FiniteSetsExt

CONSTANTS
  Keys, Values,  \* what the program may look up and store
  Pairs,         \* the pairs of a key and a value it does store
  Nodes,         \* bound: nodes of memory
  IntSize        \* 2^32: an int holds -2^31 .. 2^31 - 1

VARIABLES
  tree,       \* the root and the nodes of memory
  allocated,  \* the nodes malloc gave out and free has not got back
  ret         \* the last operation, its key and what it returned

rbvars == <<tree, allocated, ret>>

NULL == 0
Node == 1 .. Nodes
RED == 0
BLACK == 1
Garbage == [k |-> 0, v |-> 0, l |-> NULL, r |-> NULL, p |-> NULL, c |-> 2]

----------------------------------------------------------------------------
(* Nodes: parentOf, leftOf, rightOf, colorOf, setColor *)

Of(t, n, field) ==
  IF n # NULL THEN t.node[n][field] ELSE IF field = "c" THEN BLACK ELSE NULL
Put(t, n, field, value) ==
  IF n = NULL THEN t ELSE [t EXCEPT !.node[n][field] = value]
Paint(t, n, color) == Put(t, n, "c", color)
PaintRoot(t) == Paint(t, t.root, BLACK)
Other(side) == IF side = "l" THEN "r" ELSE "l"
\* The comparisons put everything that is not a left child on the right.
SideOf(t, x) == IF x = Of(t, Of(t, x, "p"), "l") THEN "l" ELSE "r"

\* y takes the place of x under x's parent.
Replace(t, x, y) ==
  LET xp == Of(t, x, "p")
  IN IF xp = NULL THEN [t EXCEPT !.root = y] ELSE Put(t, xp, SideOf(t, x), y)

RotateForgets(t, x, side) ==  \* fault: the inner subtree keeps its parent
  LET up == Of(t, x, Other(side))
      relinked == Replace(Put(Put(t, x, Other(side), Of(t, up, side)),
                              up, "p", Of(t, x, "p")), x, up)
  IN Put(Put(relinked, up, side, x), x, "p", up)

\* up, the child of x on the other side, changes places with x, and inner
\* changes its parent.
RotateAt(t, x, up, inner, side) ==
  LET moved == Put(Put(t, x, Other(side), inner), inner, "p", x)
      relinked == Replace(Put(moved, up, "p", Of(t, x, "p")), x, up)
  IN Put(Put(relinked, up, side, x), x, "p", up)
\* rotateLeft for the side "l", rotateRight for "r".
Rotate(t, x, side) ==
  LET up == Of(t, x, Other(side)) IN RotateAt(t, x, up, Of(t, up, side), side)

----------------------------------------------------------------------------
(* lookup, insert, fixAfterInsertion *)

\* lookup keeps the difference of two keys in an int.
AsInt(i) == ((i + IntSize \div 2) % IntSize) - IntSize \div 2

RECURSIVE LookupFrom(_, _, _)
LookupFrom(t, p, k) ==
  LET cmp == AsInt(k - Of(t, p, "k"))
  IN IF p = NULL \/ cmp = 0 THEN p
     ELSE LookupFrom(t, Of(t, p, IF cmp < 0 THEN "l" ELSE "r"), k)
Lookup(t, k) == LookupFrom(t, t.root, k)

\* A red node low in line with its red parent: rotate over them and be done.
RotateOver(t, low, side) ==
  LET top == Of(t, low, "p")
      over == Of(t, top, "p")
      painted == Paint(Paint(t, top, BLACK), over, RED)
  IN IF over # NULL THEN Rotate(painted, over, Other(side)) ELSE painted

\* A red node under a red parent: recolour and go on at the grandparent, or
\* rotate, twice for an inner grandchild, after which the loop ends.
RECURSIVE RepairInsertion(_, _)
RepairInsertion(t, x) ==
  LET xp == Of(t, x, "p")
      g == Of(t, xp, "p")
      side == SideOf(t, xp)
      y == Of(t, g, Other(side))
  IN IF x = NULL \/ x = t.root \/ Of(t, xp, "c") # RED THEN t
     ELSE IF Of(t, y, "c") = RED
     THEN RepairInsertion(Paint(Paint(Paint(t, xp, BLACK), y, BLACK), g, RED), g)
     ELSE IF x = Of(t, xp, Other(side)) THEN RotateOver(Rotate(t, xp, side), xp, side)
     ELSE RotateOver(t, x, side)

FixAfterInsertion(t, x) == PaintRoot(RepairInsertion(Paint(t, x, RED), x))

\* Where the search for k ends: the node with k, or the parent of a new one.
RECURSIVE EndFor(_, _, _)
EndFor(t, n, k) ==
  LET next == Of(t, n, IF k < Of(t, n, "k") THEN "l" ELSE "r")
  IN IF Of(t, n, "k") = k \/ next = NULL THEN n ELSE EndFor(t, next, k)

\* The node that has k already, NULL if n was linked into the tree.
Existing(t, k) ==
  LET at == EndFor(t, t.root, k)
  IN IF t.root # NULL /\ Of(t, at, "k") = k THEN at ELSE NULL

Insert(t, k, v, n) ==
  LET at == EndFor(t, t.root, k)
      leaf == [t.node[n] EXCEPT !.k = k, !.v = v, !.l = NULL, !.r = NULL]
  IN IF t.root = NULL
     THEN [root |-> n, node |-> [t.node EXCEPT ![n] = [leaf EXCEPT !.p = NULL, !.c = BLACK]]]
     ELSE FixAfterInsertion(Put([t EXCEPT !.node[n] = [leaf EXCEPT !.p = at]],
                                at, IF k < Of(t, at, "k") THEN "l" ELSE "r", n), n)

----------------------------------------------------------------------------
(* successor, delete_node, fixAfterDeletion *)

RECURSIVE Leftmost(_, _)
Leftmost(t, p) == IF Of(t, p, "l") = NULL THEN p ELSE Leftmost(t, Of(t, p, "l"))
RECURSIVE Climb(_, _, _)
Climb(t, p, child) ==
  IF p # NULL /\ child = Of(t, p, "r") THEN Climb(t, Of(t, p, "p"), p) ELSE p
Successor(t, n) ==
  IF Of(t, n, "r") # NULL THEN Leftmost(t, Of(t, n, "r")) ELSE Climb(t, Of(t, n, "p"), n)

\* The sibling's far child is red: rotate the parent and be done.
FarIsRed(t, xp, sib, far) ==
  LET painted == Paint(Paint(Paint(t, sib, Of(t, xp, "c")), xp, BLACK), Of(t, sib, far), BLACK)
  IN PaintRoot(Rotate(painted, xp, Other(far)))
\* The sibling's near child is red: it becomes the sibling.
NearIsRed(t, xp, sib, far) ==
  LET t2 == Rotate(Paint(Paint(t, Of(t, sib, Other(far)), BLACK), sib, RED), sib, far)
  IN FarIsRed(t2, xp, Of(t2, xp, far), far)
\* A red sibling changes places with the parent.
SiblingBlack(t, xp, far) ==
  IF Of(t, Of(t, xp, far), "c") = RED
  THEN Rotate(Paint(Paint(t, Of(t, xp, far), BLACK), xp, RED), xp, Other(far)) ELSE t
\* The paths through x are one black node short: make it up from the sibling's
\* side, or make the sibling's paths short too and go on at the parent.
RECURSIVE RepairDeletion(_, _), MakeUp(_, _, _, _)
RepairDeletion(t, x) ==
  IF x = t.root \/ Of(t, x, "c") # BLACK THEN Paint(t, x, BLACK)
  ELSE LET far == Other(SideOf(t, x))
           xp == Of(t, x, "p")
           t1 == SiblingBlack(t, xp, far)
       IN MakeUp(t1, xp, Of(t1, xp, far), far)
MakeUp(t, xp, sib, far) ==
  LET Color(side) == Of(t, Of(t, sib, side), "c")
  IN IF Color("l") = BLACK /\ Color("r") = BLACK THEN RepairDeletion(Paint(t, sib, RED), xp)
     ELSE IF Color(far) = BLACK THEN NearIsRed(t, xp, sib, far)
     ELSE FarIsRed(t, xp, sib, far)

FixAfterDeletion(t, x) == RepairDeletion(t, x)

\* The node that leaves the tree for d: d's own, or that of its successor,
\* whose element moves to d.
Leaving(t, d) ==
  IF Of(t, d, "l") # NULL /\ Of(t, d, "r") # NULL THEN Successor(t, d) ELSE d

DeleteNode(t, d) ==
  LET p == Leaving(t, d)
      copied == Put(Put(t, d, "k", Of(t, p, "k")), d, "v", Of(t, p, "v"))
      replacement == IF Of(t, p, "l") # NULL THEN Of(t, p, "l") ELSE Of(t, p, "r")
      Fixed(u, x) == IF Of(u, p, "c") = BLACK THEN FixAfterDeletion(u, x) ELSE u
      Unlinked(u) == IF Of(u, p, "p") = NULL THEN u ELSE Put(Replace(u, p, NULL), p, "p", NULL)
  IN IF replacement # NULL
     THEN LET linked == Replace(Put(copied, replacement, "p", Of(t, p, "p")), p, replacement)
          IN Fixed([linked EXCEPT !.node[p] = [@ EXCEPT !.l = NULL, !.r = NULL, !.p = NULL]],
                   replacement)
     ELSE IF Of(t, p, "p") = NULL THEN [copied EXCEPT !.root = NULL]
     ELSE Unlinked(Fixed(copied, p))

----------------------------------------------------------------------------
(* The operations *)

Init == /\ tree = [root |-> NULL, node |-> [n \in Node |-> Garbage]]
        /\ allocated = {} /\ ret = <<>>

\* getNode; which free node malloc gives out does not matter.
GetNode == Min(Node \ allocated)
Truth(P) == IF P THEN 1 ELSE 0

\* rbtree_insert, with the answer turned round by set_add.
SetAdd(k, v) ==
  /\ Node \ allocated # {}
  /\ LET ex == Existing(tree, k)
     IN /\ tree' = IF ex = NULL THEN Insert(tree, k, v, GetNode) ELSE tree
        /\ allocated' = IF ex = NULL THEN allocated \cup {GetNode} ELSE allocated
        /\ ret' = <<"add", k, 1 - Truth(ex # NULL)>>

Update(k, v) ==
  /\ Node \ allocated # {}
  /\ LET ex == Existing(tree, k)
     IN /\ tree' = IF ex = NULL THEN Insert(tree, k, v, GetNode) ELSE Put(tree, ex, "v", v)
        /\ allocated' = IF ex = NULL THEN allocated \cup {GetNode} ELSE allocated
        /\ ret' = <<"update", k, Truth(ex = NULL)>>

DeleteKeepsValue(k) ==  \* fault: the successor's key is copied without its value
  LET d == Lookup(tree, k)
      p == Leaving(tree, d)
  IN /\ tree' = IF d = NULL THEN tree
                ELSE [DeleteNode(tree, d) EXCEPT !.node[d].v = Of(tree, d, "v"), !.node[p] = Garbage]
     /\ allocated' = IF d = NULL THEN allocated ELSE allocated \ {p}
     /\ ret' = <<"remove", k, Truth(d # NULL)>>

\* rbtree_delete; free leaves garbage behind.
Delete(k) ==
  LET d == Lookup(tree, k)
      p == Leaving(tree, d)
  IN /\ tree' = IF d = NULL THEN tree ELSE [DeleteNode(tree, d) EXCEPT !.node[p] = Garbage]
     /\ allocated' = IF d = NULL THEN allocated ELSE allocated \ {p}
     /\ ret' = <<"remove", k, Truth(d # NULL)>>

\* rbtree_get and rbtree_contains change nothing.
Get(k) == LET n == Lookup(tree, k) IN IF n = NULL THEN 0 ELSE Of(tree, n, "v")
Contains(k) == Lookup(tree, k) # NULL

Next == \/ \E <<k, v>> \in Pairs : SetAdd(k, v) \/ Update(k, v)
        \/ \E k \in Keys : Delete(k)
Spec == Init /\ [][Next]_rbvars

----------------------------------------------------------------------------
(* Properties *)

\* verifyRedBlack and rbtree_verify, without the messages.
RECURSIVE VerifyRedBlack(_, _)
VerifyRedBlack(t, n) ==
  LET left == VerifyRedBlack(t, Of(t, n, "l"))
      right == VerifyRedBlack(t, Of(t, n, "r"))
      redChild == \E side \in {"l", "r"} : Of(t, Of(t, n, side), "c") # BLACK
  IN IF n = NULL THEN 1
     ELSE IF left = 0 \/ right = 0 THEN 0
     ELSE IF Of(t, n, "c") = RED THEN (IF redChild THEN 0 ELSE left)
     ELSE IF Of(t, n, "c") # BLACK THEN 0 ELSE left + 1

RECURSIVE InOrder(_, _)
InOrder(t, n) ==
  LET next == Successor(t, n)
  IN n = NULL \/ next = NULL \/ (Of(t, n, "k") < Of(t, next, "k") /\ InOrder(t, next))
RbtreeVerify(t) ==
  IF t.root = NULL THEN 1
  ELSE IF Of(t, t.root, "p") # NULL THEN -1
  ELSE IF ~ InOrder(t, Leftmost(t, t.root)) THEN -3
  ELSE VerifyRedBlack(t, t.root)

\* The nodes in the tree, and the black nodes on a path down to each.
RECURSIVE Under(_, _)
Under(t, n) ==
  IF n = NULL THEN {} ELSE {n} \cup Under(t, Of(t, n, "l")) \cup Under(t, Of(t, n, "r"))
InTree == Under(tree, tree.root)
RECURSIVE BlackAbove(_, _)
BlackAbove(t, n) == IF n = NULL THEN 0 ELSE Of(t, n, "c") + BlackAbove(t, Of(t, n, "p"))

\* Insertions and deletions keep a tree that rbtree_verify accepts, and what
\* it only prints a message about is in order too: a child knows its parent,
\* the root is black, and all the places for a new leaf are under as many
\* black nodes.  The tree's nodes are those that were not freed.
RedBlack ==
  /\ RbtreeVerify(tree) > 0
  /\ InTree = allocated
  /\ Of(tree, tree.root, "c") = BLACK
  /\ \A n \in InTree : \A side \in {"l", "r"} :
       Of(tree, n, side) # NULL => Of(tree, Of(tree, n, side), "p") = n
  /\ Cardinality({BlackAbove(tree, n) : n \in {m \in InTree : \E side \in {"l", "r"} :
                                                 Of(tree, m, side) = NULL}}) <= 1

\* The tree is the finite map it is meant to be: a key that was added is found
\* wherever rotations and the deletion of other keys have moved it, with the
\* value last stored for it, and one that was removed is not.
Contents == [k \in {Of(tree, n, "k") : n \in allocated} |->
               Of(tree, CHOOSE n \in allocated : Of(tree, n, "k") = k, "v")]
Map == INSTANCE Dictionary WITH told <- ret, dict <- Contents
FindsAll == \A k \in Keys : /\ Contains(k) <=> k \in DOMAIN Contents
                             /\ Get(k) = IF k \in DOMAIN Contents THEN Contents[k] ELSE 0
=============================================================================
