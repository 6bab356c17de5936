----------------------------- MODULE ChunkedLog -----------------------------
(***************************************************************************)
(* The log of a transaction as it is built (CHUNKED_LOG in                 *)
(* stm/common/log.h): a list of chunks that is never given back, of which  *)
(* the elements before nextElement of lastChunk are in the log.            *)
(***************************************************************************)
EXTENDS Integers, SequencesExt

CONSTANTS
  Values,        \* what is logged
  CHUNK_LENGTH,
  MaxChunks,     \* bound: chunks of a log
  Garbage        \* an element that was never written

VARIABLES
  chunks,       \* the list from head on; next and prev are the neighbours
  lastChunk,    \* number of the logically last chunk
  nextElement   \* from 0

clvars == <<chunks, lastChunk, nextElement>>

LogChunk == [i \in 0 .. CHUNK_LENGTH - 1 |-> Garbage]
Init == chunks = <<LogChunk>> /\ lastChunk = 1 /\ nextElement = 0

\* An iterator is at a chunk and an element of it.
Begin == <<1, 0>>
NextPlace(p) == IF p[2] + 1 = CHUNK_LENGTH THEN <<p[1] + 1, 0>> ELSE <<p[1], p[2] + 1>>
\* The places an iterator passes: from begin to end, while hasNext.
Places ==
  LET size == (lastChunk - 1) * CHUNK_LENGTH + nextElement
      place[i \in Nat] == IF i = 0 THEN Begin ELSE NextPlace(place[i - 1])
  IN [i \in 1 .. size |-> place[i - 1]]
Elements == [i \in DOMAIN Places |-> chunks[Places[i][1]][Places[i][2]]]

\* get_next and an assignment to what it returns; insert.
GetNext(v) ==
  LET full == nextElement + 1 = CHUNK_LENGTH
      written == [chunks EXCEPT ![lastChunk][nextElement] = v]
  IN /\ full => lastChunk < MaxChunks
     /\ chunks' = IF full /\ lastChunk = Len(chunks) THEN Append(written, LogChunk) ELSE written
     /\ lastChunk' = IF full THEN lastChunk + 1 ELSE lastChunk
     /\ nextElement' = IF full THEN 0 ELSE nextElement + 1

Empty == nextElement = 0 /\ lastChunk = 1

DeleteInChunk ==  \* fault: the first element of a chunk stays
  /\ ~ Empty
  /\ nextElement' = IF nextElement = 0 THEN 0 ELSE nextElement - 1
  /\ lastChunk' = IF nextElement = 0 THEN lastChunk - 1 ELSE lastChunk
  /\ UNCHANGED chunks

\* delete_last, remove; the log is not empty.
DeleteLast ==
  /\ ~ Empty
  /\ nextElement' = IF nextElement = 0 THEN CHUNK_LENGTH - 1 ELSE nextElement - 1
  /\ lastChunk' = IF nextElement = 0 THEN lastChunk - 1 ELSE lastChunk
  /\ UNCHANGED chunks
Removed == chunks'[lastChunk'][nextElement']

Clear == lastChunk' = 1 /\ nextElement' = 0 /\ UNCHANGED chunks

Next == (\E v \in Values : GetNext(v)) \/ DeleteLast \/ Clear
Spec == Init /\ [][Next]_clvars

----------------------------------------------------------------------------
\* Whatever chunks it was cut into, a log is the sequence of what was put into
\* it, and an entry that is in it stays where it is in memory: the write locks
\* that point to entries stay good when the log grows.
Log == INSTANCE LogSeq WITH
  elements <- Elements, places <- Places, Memory <- (1 .. MaxChunks) \X (0 .. CHUNK_LENGTH - 1)

\* CHUNK_LENGTH is a template argument of Log, 2048 unless another is given.
ChunkAssumption == CHUNK_LENGTH \in Nat \ {0} /\ MaxChunks \in Nat \ {0}

\* What remove returns is the last element.
RemovesLast == DeleteLast => Removed = Last(Elements)
=============================================================================
