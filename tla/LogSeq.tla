------------------------------- MODULE LogSeq -------------------------------
(***************************************************************************)
(* What a log of stm/common/log.h promises, whatever it is made of: a      *)
(* sequence that grows and shrinks at its end.  An element also has a      *)
(* place in memory, which it keeps until it leaves the log: write locks    *)
(* are pointers to log entries.                                            *)
(***************************************************************************)
EXTENDS SequencesExt

CONSTANTS Values, Memory

VARIABLES elements,  \* what an iterator yields
          places     \* where the elements are

LInit == elements = <<>> /\ places = <<>>
LInsert(v, p) ==
  /\ \A i \in DOMAIN places : places[i] # p
  /\ elements' = Append(elements, v) /\ places' = Append(places, p)
LDeleteLast ==
  /\ elements # <<>>
  /\ elements' = Front(elements) /\ places' = Front(places)
LClear == elements' = <<>> /\ places' = <<>>

LNext == (\E v \in Values, p \in Memory : LInsert(v, p)) \/ LDeleteLast \/ LClear
lvars == <<elements, places>>
LSpec == LInit /\ [][LNext]_lvars
=============================================================================
