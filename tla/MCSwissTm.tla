------------------------------ MODULE MCSwissTm ------------------------------
(* Instances of SwissTm for TLC, with the programs its threads run. *)
EXTENDS Programs, SwissTm

\* Every word has a stripe of its own.
OneToOne == [a \in Addr |-> a]
=============================================================================
