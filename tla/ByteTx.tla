------------------------------- MODULE ByteTx -------------------------------
(***************************************************************************)
(* What the byte accesses of stm/read_write.h promise: inside a            *)
(* transaction, memory is an array of bytes that stores, block fills,      *)
(* moves and sorts change exactly where they say, and that commits or is   *)
(* given up as a whole.                                                    *)
(***************************************************************************)
EXTENDS Integers, FiniteSets

CONSTANTS
  WordSize,  \* bytes in a word
  Words,     \* words of memory
  Byte,      \* values of a byte
  Sizes, Lengths, Starts, Values  \* what the program stores, how much and where

VARIABLES committed, view

Address == 0 .. WordSize * Words - 1
Fits(a, n) == a + n - 1 \in Address

\* The bytes of a value that a program stores.
Pattern(n, base) == [i \in 0 .. n - 1 |-> (base + i) % 4]
Overwrite(mem, a, n, bytes) ==
  [b \in Address |-> IF b \in a .. a + n - 1 THEN bytes[b - a] ELSE mem[b]]

BInit == /\ committed = [a \in Address |-> 0]
         /\ view = committed

BStore(size, a, base) ==
  /\ view' = Overwrite(view, a, size, Pattern(size, base)) /\ UNCHANGED committed
BFill(a, n, c) ==
  /\ view' = Overwrite(view, a, n, [i \in 0 .. n - 1 |-> c]) /\ UNCHANGED committed
BMove(dest, src, n) ==
  /\ view' = Overwrite(view, dest, n, [i \in 0 .. n - 1 |-> view[src + i]])
  /\ UNCHANGED committed
\* The bytes of the region are in order, and each is there as often as before.
BSort(a, n) ==
  LET Times(mem, v) == Cardinality({i \in 0 .. n - 1 : mem[a + i] = v})
  IN /\ view' \in [Address -> Byte]
     /\ \A b \in Address : b \notin a .. a + n - 1 => view'[b] = view[b]
     /\ \A i, j \in 0 .. n - 1 : i < j => view'[a + i] <= view'[a + j]
     /\ \A v \in Byte : Times(view', v) = Times(view, v)
     /\ UNCHANGED committed
BCommit == committed' = view /\ UNCHANGED view
BAbort == view' = committed /\ UNCHANGED committed

BNext ==
  \/ \E size \in Sizes, a \in Address, base \in Values : Fits(a, size) /\ BStore(size, a, base)
  \/ \E n \in Lengths, a \in Starts :
       Fits(a, n) /\ (BSort(a, n) \/ \E c \in Values : BStore(n, a, c) \/ BFill(a, n, c))
  \/ \E n \in Lengths, a, b \in Starts : Fits(a, n) /\ Fits(b, n) /\ BMove(a, b, n)
  \/ BCommit \/ BAbort

bvars == <<committed, view>>
BSpec == BInit /\ [][BNext]_bvars
=============================================================================
