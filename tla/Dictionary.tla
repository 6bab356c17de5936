----------------------------- MODULE Dictionary -----------------------------
(***************************************************************************)
(* What the sets of the benchmarks promise, whether they are red-black     *)
(* trees (mubench/rbtree.c) or lists (mubench/intset.c): each operation is *)
(* one step on a finite map, and tells what it found there.                *)
(***************************************************************************)
EXTENDS Integers, Functions, TLC

CONSTANTS Keys, Values

VARIABLES
  dict,  \* the map
  told   \* the last call, its key, and its answer

DInit == dict = <<>> /\ told = <<>>

DFound(k) == IF k \in DOMAIN dict THEN 1 ELSE 0

\* An add of a key that is there changes nothing.
DAdd(k, v) == told' = <<"add", k, 1 - DFound(k)>> /\ dict' = dict @@ (k :> v)
DUpdate(k, v) == told' = <<"update", k, 1 - DFound(k)>> /\ dict' = (k :> v) @@ dict
DRemove(k) == told' = <<"remove", k, DFound(k)>> /\ dict' = Restrict(dict, DOMAIN dict \ {k})
DContains(k) == told' = <<"contains", k, DFound(k)>> /\ UNCHANGED dict

DNext == \E k \in Keys : \/ \E v \in Values : DAdd(k, v) \/ DUpdate(k, v)
                         \/ DRemove(k) \/ DContains(k)
dvars == <<dict, told>>
DSpec == DInit /\ [][DNext]_dvars
=============================================================================
