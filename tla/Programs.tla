------------------------------ MODULE Programs ------------------------------
(***************************************************************************)
(* The programs that Tlstm is checked with, what the tasks of each program *)
(* thread read and write by serial, and those that SwissTm is checked with.*)
(***************************************************************************)
EXTENDS Integers, Sequences, TLC

CONSTANTS p1, p2, x, y, z, w

Read(a) == [kind |-> "read", addr |-> a, when |-> 0 .. 9]
Write(a) == [kind |-> "write", addr |-> a, when |-> 0 .. 9]
WriteIf(a, v) == [kind |-> "write", addr |-> a, when |-> {v}]

\* The transactions of a thread, each a sequence of the operations of its
\* tasks, by serial; depth is the SpecDepth the program is for.
Program(depth, txs) ==
  [s \in depth .. depth * (Len(txs) + 1) - 1 |->
     txs[s \div depth][(s % depth) + 1]]

\* Three tasks that read and write each other's words.
Mixed == p1 :> Program(3, << << <<Read(y), Write(x)>>, <<Write(y), Read(x), WriteIf(y, 0)>>,
                             <<Read(x), Write(y), Write(y)>> >> >>)
\* Two transactions of two tasks that all write the same word.
Successive == p1 :> Program(2, << << <<Read(x), Write(x)>>, <<Read(x), Write(x)>> >>,
                               << <<Read(x)>>, <<Write(x), Write(x)>> >> >>)
\* Two tasks of a thread and another thread want the same word; the second task
\* writes it only over what the first one, or the other thread, has left.
Stacked == (p1 :> Program(2, << << <<Write(x)>>, <<Read(x), WriteIf(x, 1)>> >> >>))
        @@ (p2 :> Program(2, << << <<Read(x), Write(x)>>, <<>> >> >>))
\* Each of two threads writes a word that depends on the word the other writes.
WriteSkew == (p1 :> Program(2, << << <<>>, <<Read(x), Write(y)>> >> >>))
          @@ (p2 :> Program(2, << << <<Read(y), Write(x)>>, <<>> >> >>))
\* Two threads read and lock the same two words in opposite orders.
Crossing == (p1 :> Program(1, << << <<Read(x), Write(x), Write(y)>> >> >>))
         @@ (p2 :> Program(1, << << <<Read(y), Write(y), WriteIf(x, 0)>> >> >>))
\* A task writes a word only if it finds another word in its first state.
Conditional == p1 :> Program(3, << << <<Write(y)>>, <<Read(y), WriteIf(x, 0)>>,
                                   <<Read(x), Write(x)>> >> >>)
\* The tasks of one thread read two words another thread updates together.
Snapshot == (p1 :> Program(2, << << <<Read(x), Write(z)>>, <<Read(y), Write(w)>> >> >>))
         @@ (p2 :> Program(2, << << <<Write(x)>>, <<Write(y)>> >> >>))
\* A task writes two words, an earlier one and another thread one of them each.
Contended == (p1 :> Program(2, << << <<Write(x)>>, <<Write(x), Write(y)>> >> >>))
          @@ (p2 :> Program(2, << << <<>>, <<Write(y)>> >> >>))

----------------------------------------------------------------------------
(* The transactions of each thread of SwissTm *)

Lock(a) == [kind |-> "lock", addr |-> a, when |-> 0 .. 9]
Abort == [kind |-> "abort", addr |-> x, when |-> {1}]

\* x and y share a stripe, z has one of its own.
Shared == (x :> "xy") @@ (y :> "xy") @@ (z :> "z")

\* The clock overflows while the threads read what the other writes.
Restarting == << << <<Read(x), Write(z)>>, <<Read(z)>> >>,
                 << <<Read(z), Write(y)>>, <<Read(x), Lock(x), Write(z)>> >>, <<>> >>
\* Reads beside writes of the same stripe, a transaction that gives up, two
\* that want each other's locks.
Conflicting == << << <<Read(x), Write(z), Read(y)>> >>, << <<Read(z), Abort, Write(y)>> >>,
                  << <<Write(x), Read(y), Write(z)>> >> >>
\* The clock passes what an unsigned can hold.
Wrapping == << << <<Write(x)>>, <<Read(x), Write(x), Read(x), Write(z)>> >>,
               << <<Read(z)>>, <<Read(z), Read(x)>> >>, <<>> >>
\* A reader, and a writer whose third transaction can overflow the clock beside
\* the reader's own commit.
Late == << << <<Read(x), Read(y), Write(z)>> >>,
           << <<Write(x)>>, <<Write(y)>>, <<Read(x), Write(x), Write(y)>> >> >>
\* Writers that take their locks in opposite orders.
Blocking == << << <<Write(x), Write(z)>> >>, << <<Write(z), Write(y)>>, <<Write(z)>> >>, <<>> >>
=============================================================================
