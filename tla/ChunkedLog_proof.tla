-------------------------- MODULE ChunkedLog_proof --------------------------
(***************************************************************************)
(* The log of chunks implements LogSeq, for every length of a chunk and    *)
(* every number of chunks.                                                 *)
(*                                                                         *)
(* An iterator counts its way through the chunks (Places, a recursive      *)
(* function); where it is after i steps is i divided by the length of a    *)
(* chunk (PlaceAt).  So elements and places are functions of the size of   *)
(* the log, and a step changes that by one.                                *)
(***************************************************************************)
EXTENDS ChunkedLog, WellFoundedInduction, TLAPS

----------------------------------------------------------------------------
(* Iterators *)

\* A set of numbers has a least one.
LEMMA LeastOf == ASSUME NEW S, S \subseteq Nat, S # {} PROVE \E m \in S : \A n \in S : m <= n
<1> DEFINE R == {p \in Nat \X Nat : p[1] < p[2]}
<1>1. IsWellFoundedOn(R, Nat)
  BY NatLessThanWellFounded DEF OpToRel
<1>2. PICK m \in S : \A n \in S : <<n, m>> \notin R
  <2> HIDE DEF R
  <2>1. QED BY <1>1, WFMin
<1>3. ASSUME NEW n \in S PROVE m <= n
  <2>1. <<n, m>> \in Nat \X Nat => ~ (n < m)
    BY <1>2
  <2>2. m \in Nat /\ n \in Nat
    OBVIOUS
  <2>3. QED BY <2>1, <2>2
<1>4. QED BY <1>3

\* How many elements are in the log, and where element i is, from 0.
Size == (lastChunk - 1) * CHUNK_LENGTH + nextElement
PlaceAt(i) == <<1 + i \div CHUNK_LENGTH, i % CHUNK_LENGTH>>

\* The element of number k of chunk number q, from 0.
LEMMA AtChunk ==
  ASSUME NEW d \in Nat \ {0}, NEW q \in Nat, NEW k \in 0 .. d - 1, NEW i \in Nat, i = q * d + k
  PROVE  i \div d = q /\ i % d = k
<1>1. PICK p \in Int : p = i \div d
  OBVIOUS
<1>2. i = p * d + (i % d) /\ 0 <= i % d /\ i % d < d
  BY <1>1, SMTT(20)
<1>3. p >= q + 1 => (p - q) * d >= d
  BY <1>1, SMTT(20)
<1>4. p <= q - 1 => (p - q) * d <= - d
  BY <1>1, SMTT(20)
<1>5. (p - q) * d = k - (i % d)
  BY <1>2
<1>6. p = q
  BY <1>2, <1>3, <1>4, <1>5
<1>7. i % d = k
  BY <1>2, <1>6
<1>8. QED BY <1>1, <1>6, <1>7

\* The place an iterator is at after i steps is PlaceAt(i): the least i where it
\* is not would have one before it where it is.
LEMMA PlacesAre ==
  ASSUME CHUNK_LENGTH \in Nat \ {0} PROVE Places = [i \in 1 .. Size |-> PlaceAt(i - 1)]
<1> DEFINE P(f) == f = [i \in Nat |-> IF i = 0 THEN Begin ELSE NextPlace(f[i - 1])]
           g == [i \in Nat |-> PlaceAt(i)]
           c == CHOOSE f : P(f)
<1>1. Places = [i \in 1 .. Size |-> c[i - 1]]
  BY Zenon DEF Places, Size
<1>2. P(g)
  <2>1. g[0] = Begin
    BY SMT DEF Begin, PlaceAt
  <2>2. ASSUME NEW i \in Nat, i # 0 PROVE g[i] = NextPlace(g[i - 1])
    <3>1. PICK q \in Int, k \in Int : q = (i - 1) \div CHUNK_LENGTH /\ k = (i - 1) % CHUNK_LENGTH
      OBVIOUS
    <3>2. i - 1 = q * CHUNK_LENGTH + k /\ 0 <= k /\ k < CHUNK_LENGTH
      BY <2>2, <3>1, SMTT(20)
    <3>3. q >= 0
      <4>1. q <= -1 => q * CHUNK_LENGTH <= - CHUNK_LENGTH
        BY SMTT(20)
      <4>2. QED BY <2>2, <3>2, <4>1
    <3>4. CASE k + 1 = CHUNK_LENGTH
      <4>1. (q + 1) * CHUNK_LENGTH = q * CHUNK_LENGTH + CHUNK_LENGTH
        BY SMTT(20)
      <4>2. i = (q + 1) * CHUNK_LENGTH + 0
        BY <3>2, <3>4, <4>1
      <4>3. i \div CHUNK_LENGTH = q + 1 /\ i % CHUNK_LENGTH = 0
        BY <3>3, <4>2, AtChunk
      <4>4. PlaceAt(i - 1) = <<1 + q, k>> /\ PlaceAt(i) = <<q + 2, 0>>
        BY <3>1, <4>3 DEF PlaceAt
      <4>5. QED BY <2>2, <3>4, <4>4 DEF NextPlace
    <3>5. CASE k + 1 # CHUNK_LENGTH
      <4>1. i = q * CHUNK_LENGTH + (k + 1) /\ k + 1 \in 0 .. CHUNK_LENGTH - 1
        BY <3>2, <3>5
      <4>2. i \div CHUNK_LENGTH = q /\ i % CHUNK_LENGTH = k + 1
        BY <3>3, <4>1, AtChunk
      <4>3. PlaceAt(i - 1) = <<1 + q, k>> /\ PlaceAt(i) = <<1 + q, k + 1>>
        BY <3>1, <4>2 DEF PlaceAt
      <4>4. QED BY <2>2, <3>5, <4>3 DEF NextPlace
    <3>6. QED BY <3>4, <3>5
  <2>3. QED BY <2>1, <2>2
<1>3. P(c)
  <2> HIDE DEF P, g
  <2>1. QED BY <1>2
<1>4. \A i \in Nat : c[i] = PlaceAt(i)
  <2> DEFINE S == {i \in Nat : c[i] # g[i]}
  <2>1. SUFFICES ASSUME S # {} PROVE FALSE
    OBVIOUS
  <2>2. PICK m \in S : \A n \in S : m <= n
    BY <2>1, LeastOf
  <2>3. m # 0 /\ m \in Nat
    BY <1>2, <1>3, <2>2
  <2>4. m - 1 \in Nat /\ m - 1 \notin S
    BY <2>2, <2>3
  <2>5. c[m - 1] = g[m - 1]
    BY <2>4
  <2>6. c[m] = g[m]
    BY <1>2, <1>3, <2>3, <2>5
  <2>7. QED BY <2>2, <2>6
<1>5. QED BY <1>1, <1>4

----------------------------------------------------------------------------
(* The chunks *)

\* There is a last chunk, and its element nextElement is free.
Chunk == [0 .. CHUNK_LENGTH - 1 -> Values \cup {Garbage}]
ChunksInv ==
  /\ chunks \in Seq(Chunk)
  /\ lastChunk \in 1 .. Len(chunks) /\ lastChunk <= MaxChunks
  /\ nextElement \in 0 .. CHUNK_LENGTH - 1

\* The place of an element of the log is one that was made, and before the one
\* that the next element will have.
LEMMA InChunks ==
  ASSUME ChunkAssumption, ChunksInv
  PROVE  /\ Size \in Nat /\ PlaceAt(Size) = <<lastChunk, nextElement>>
         /\ \A i \in Nat : i < Size =>
              /\ PlaceAt(i)[1] \in 1 .. lastChunk /\ PlaceAt(i)[2] \in 0 .. CHUNK_LENGTH - 1
              /\ PlaceAt(i) # PlaceAt(Size)
<1> DEFINE L == CHUNK_LENGTH
<1>1. L \in Nat \ {0} /\ lastChunk \in Nat \ {0} /\ nextElement \in 0 .. L - 1
  BY DEF ChunkAssumption, ChunksInv
<1>2. PICK n \in Nat : n = lastChunk - 1
  BY <1>1
<1>3. Size = n * L + nextElement /\ Size \in Nat
  BY <1>1, <1>2 DEF Size
<1>4. PlaceAt(Size) = <<lastChunk, nextElement>>
  <2>1. Size \div L = n /\ Size % L = nextElement
    BY <1>1, <1>3, AtChunk
  <2>2. QED BY <1>1, <1>2, <2>1 DEF PlaceAt
<1>5. ASSUME NEW i \in Nat, i < Size
      PROVE  /\ PlaceAt(i)[1] \in 1 .. lastChunk /\ PlaceAt(i)[2] \in 0 .. L - 1
             /\ PlaceAt(i) # PlaceAt(Size)
  <2>1. PICK q \in Int, k \in Int : q = i \div L /\ k = i % L
    BY <1>1
  <2>2. i = q * L + k /\ 0 <= k /\ k < L
    BY <1>1, <2>1, SMTT(20)
  <2>3. q >= 0
    <3>1. q <= -1 => q * L <= - L
      BY <1>1, SMTT(20)
    <3>2. QED BY <1>1, <2>2, <3>1
  <2>4. q <= n
    <3>1. q >= n + 1 => (q - n) * L >= L
      BY <1>1, SMTT(20)
    <3>2. (q - n) * L = q * L - n * L
      BY <1>1, SMTT(20)
    <3>3. QED BY <1>1, <1>3, <1>5, <2>2, <3>1, <3>2
  <2>5. PlaceAt(i) = <<1 + q, k>>
    BY <2>1 DEF PlaceAt
  <2>6. PlaceAt(i) # PlaceAt(Size)
    <3> SUFFICES ASSUME 1 + q = lastChunk, k = nextElement PROVE FALSE
      BY <1>4, <2>5
    <3>1. q = n
      BY <1>1, <1>2, <2>1
    <3>2. QED BY <1>3, <1>5, <2>2, <3>1
  <2>7. QED BY <1>1, <1>2, <2>2, <2>3, <2>4, <2>5, <2>6
<1>6. QED BY <1>3, <1>4, <1>5

\* The log as a sequence.
LEMMA ElementsAre ==
  ASSUME ChunkAssumption, ChunksInv
  PROVE  /\ Places = [i \in 1 .. Size |-> PlaceAt(i - 1)]
         /\ Elements = [i \in 1 .. Size |-> chunks[PlaceAt(i - 1)[1]][PlaceAt(i - 1)[2]]]
         /\ Len(Places) = Size /\ Len(Elements) = Size /\ Size \in Nat
<1>1. Places = [i \in 1 .. Size |-> PlaceAt(i - 1)]
  BY PlacesAre DEF ChunkAssumption
<1>2. Size \in Nat
  BY InChunks
<1>3. DOMAIN Places = 1 .. Size
  BY <1>1
<1>4. Elements = [i \in 1 .. Size |-> chunks[PlaceAt(i - 1)[1]][PlaceAt(i - 1)[2]]]
  <2>1. Elements = [i \in 1 .. Size |-> chunks[Places[i][1]][Places[i][2]]]
    BY <1>3 DEF Elements
  <2>2. \A i \in 1 .. Size : Places[i] = PlaceAt(i - 1)
    BY <1>1
  <2>3. QED BY <2>1, <2>2
<1>5. Len(Places) = Size /\ Len(Elements) = Size
  BY <1>1, <1>2, <1>4
<1>6. QED BY <1>1, <1>2, <1>4, <1>5

\* A store into a chunk.
LEMMA Written ==
  ASSUME ChunksInv, NEW v \in Values
  PROVE  /\ [chunks EXCEPT ![lastChunk][nextElement] = v] \in Seq(Chunk)
         /\ Len([chunks EXCEPT ![lastChunk][nextElement] = v]) = Len(chunks)
<1>1. \A c \in Chunk : [c EXCEPT ![nextElement] = v] \in Chunk
  BY DEF Chunk
<1>2. chunks[lastChunk] \in Chunk /\ lastChunk \in DOMAIN chunks
  BY DEF ChunksInv
<1>3. [chunks[lastChunk] EXCEPT ![nextElement] = v] \in Chunk
  BY <1>1, <1>2
<1>4. [chunks EXCEPT ![lastChunk][nextElement] = v]
      = [chunks EXCEPT ![lastChunk] = [chunks[lastChunk] EXCEPT ![nextElement] = v]]
  OBVIOUS
<1>5. QED BY <1>2, <1>3, <1>4 DEF ChunksInv

\* Appending a chunk, going back to the one before and starting again keep
\* nextElement inside a chunk that exists.
LEMMA ChunksKept ==
  ASSUME ChunkAssumption, ChunksInv, [Next]_clvars PROVE ChunksInv'
<1>1. CASE UNCHANGED clvars
  BY <1>1 DEF ChunksInv, clvars
<1>2. ASSUME NEW v \in Values, GetNext(v) PROVE ChunksInv'
  <2> DEFINE written == [chunks EXCEPT ![lastChunk][nextElement] = v]
  <2>1. written \in Seq(Chunk) /\ Len(written) = Len(chunks)
    BY Written
  <2>2. LogChunk \in Chunk
    BY DEF LogChunk, Chunk
  <2> HIDE DEF written
  <2>3. Append(written, LogChunk) \in Seq(Chunk) /\ Len(Append(written, LogChunk)) = Len(chunks) + 1
    BY <2>1, <2>2
  <2>4. /\ chunks' = IF nextElement + 1 = CHUNK_LENGTH /\ lastChunk = Len(chunks)
                     THEN Append(written, LogChunk) ELSE written
        /\ lastChunk' = IF nextElement + 1 = CHUNK_LENGTH THEN lastChunk + 1 ELSE lastChunk
        /\ nextElement' = IF nextElement + 1 = CHUNK_LENGTH THEN 0 ELSE nextElement + 1
        /\ nextElement + 1 = CHUNK_LENGTH => lastChunk < MaxChunks
    BY <1>2 DEF GetNext, written
  <2>5. /\ lastChunk \in 1 .. Len(chunks) /\ lastChunk <= MaxChunks /\ nextElement \in 0 .. CHUNK_LENGTH - 1
        /\ CHUNK_LENGTH \in Nat \ {0} /\ MaxChunks \in Nat /\ Len(chunks) \in Nat
    BY DEF ChunksInv, ChunkAssumption
  <2>6. chunks' \in Seq(Chunk)
    BY <2>1, <2>3, <2>4
  <2>7. lastChunk' \in 1 .. Len(chunks') /\ lastChunk' <= MaxChunks
    BY <2>1, <2>3, <2>4, <2>5
  <2>8. nextElement' \in 0 .. CHUNK_LENGTH - 1
    BY <2>4, <2>5
  <2>9. QED BY <2>6, <2>7, <2>8 DEF ChunksInv
<1>3. CASE DeleteLast
  BY <1>3 DEF ChunksInv, ChunkAssumption, DeleteLast, Empty
<1>4. CASE Clear
  BY <1>4 DEF ChunksInv, ChunkAssumption, Clear
<1>5. QED BY <1>1, <1>2, <1>3, <1>4 DEF Next

----------------------------------------------------------------------------
(* The log is the sequence *)

\* What an iterator yields, in terms of Size.
ElementAt(i) == chunks[PlaceAt(i)[1]][PlaceAt(i)[2]]
AsSequence ==
  /\ Size \in Nat
  /\ Places = [i \in 1 .. Size |-> PlaceAt(i - 1)]
  /\ Elements = [i \in 1 .. Size |-> ElementAt(i - 1)]
  /\ Len(Places) = Size /\ Len(Elements) = Size

\* The log is such a sequence in every state of the invariant.
LEMMA IsSequence == ChunkAssumption /\ ChunksInv => AsSequence
BY ElementsAre DEF AsSequence, ElementAt

\* And it is one before and after every step.
LEMMA BothSequences == ASSUME ChunkAssumption, ChunksInv, [Next]_clvars PROVE AsSequence /\ AsSequence'
<1>1. ChunksInv'
  BY ChunksKept
<1>2. AsSequence
  BY IsSequence
<1>3. ChunkAssumption /\ ChunksInv' => AsSequence'
  BY IsSequence, PTL
<1>4. QED BY <1>1, <1>2, <1>3

\* get_next adds one element at a place where none is, and moves no other:
\* also when it goes on to a chunk that is new, or left from before a rollback.
LEMMA Inserts ==
  ASSUME ChunkAssumption, ChunksInv, NEW v \in Values, GetNext(v)
  PROVE  \E p \in (1 .. MaxChunks) \X (0 .. CHUNK_LENGTH - 1) : Log!LInsert(v, p)
<1>1. [Next]_clvars
  BY DEF Next
<1>2. AsSequence /\ AsSequence'
  BY <1>1, BothSequences
<1>3. /\ lastChunk \in 1 .. Len(chunks) /\ lastChunk <= MaxChunks /\ nextElement \in 0 .. CHUNK_LENGTH - 1
      /\ CHUNK_LENGTH \in Nat \ {0} /\ MaxChunks \in Nat /\ Len(chunks) \in Nat /\ chunks \in Seq(Chunk)
  BY DEF ChunksInv, ChunkAssumption
<1>4. Size' = Size + 1
  <2>1. CASE nextElement + 1 = CHUNK_LENGTH
    <3>1. lastChunk' = lastChunk + 1 /\ nextElement' = 0
      BY <2>1 DEF GetNext
    <3>2. lastChunk * CHUNK_LENGTH = (lastChunk - 1) * CHUNK_LENGTH + CHUNK_LENGTH
      BY <1>3, SMTT(20)
    <3>3. QED BY <1>3, <2>1, <3>1, <3>2 DEF Size
  <2>2. CASE nextElement + 1 # CHUNK_LENGTH
    <3>1. lastChunk' = lastChunk /\ nextElement' = nextElement + 1
      BY <2>2 DEF GetNext
    <3>2. QED BY <1>3, <3>1 DEF Size
  <2>3. QED BY <2>1, <2>2
<1>5. PICK n \in Nat : n = Size
  BY <1>2 DEF AsSequence
<1>6. PICK p \in (1 .. MaxChunks) \X (0 .. CHUNK_LENGTH - 1) : p = <<lastChunk, nextElement>>
  <2>1. lastChunk \in 1 .. MaxChunks
    BY <1>3
  <2>2. QED BY <1>3, <2>1
<1>7. /\ PlaceAt(n) = p
      /\ \A i \in Nat : i < n => /\ PlaceAt(i)[1] \in 1 .. lastChunk /\ PlaceAt(i)[2] \in 0 .. CHUNK_LENGTH - 1
                                 /\ PlaceAt(i) # p
  BY <1>5, <1>6, InChunks
<1>8. \A k \in 1 .. lastChunk, e \in 0 .. CHUNK_LENGTH - 1 :
        chunks'[k][e] = IF k = lastChunk /\ e = nextElement THEN v ELSE chunks[k][e]
  <2> DEFINE written == [chunks EXCEPT ![lastChunk][nextElement] = v]
  <2>1. ASSUME NEW k \in 1 .. Len(chunks), NEW e \in 0 .. CHUNK_LENGTH - 1
        PROVE  written[k][e] = IF k = lastChunk /\ e = nextElement THEN v ELSE chunks[k][e]
    <3>1. chunks[k] \in Chunk /\ chunks[lastChunk] \in Chunk
      BY <1>3
    <3>2. CASE k = lastChunk
      BY <1>3, <3>1, <3>2 DEF Chunk
    <3>3. CASE k # lastChunk
      BY <1>3, <3>3
    <3>4. QED BY <3>2, <3>3
  <2>2. DOMAIN written = 1 .. Len(chunks) /\ Len(written) = Len(chunks)
    BY <1>3
  <2>3. chunks' = written \/ chunks' = Append(written, LogChunk)
    BY DEF GetNext
  <2>4. \A k \in 1 .. Len(chunks) : Append(written, LogChunk)[k] = written[k]
    <3>1. written \in Seq(Chunk)
      BY Written
    <3> HIDE DEF written
    <3>2. QED BY <2>2, <3>1
  <2> HIDE DEF written
  <2>5. ASSUME NEW k \in 1 .. lastChunk, NEW e \in 0 .. CHUNK_LENGTH - 1
        PROVE  chunks'[k][e] = IF k = lastChunk /\ e = nextElement THEN v ELSE chunks[k][e]
    <3>1. k \in 1 .. Len(chunks)
      BY <1>3
    <3>2. chunks'[k] = written[k]
      BY <2>3, <2>4, <3>1
    <3>3. QED BY <2>1, <3>1, <3>2
  <2>6. QED BY <2>5
<1>9. ElementAt(n)' = v
  <2>1. chunks'[p[1]][p[2]] = v
    BY <1>3, <1>6, <1>8
  <2>2. PlaceAt(n)' = PlaceAt(n)
    BY DEF PlaceAt
  <2>3. QED BY <1>7, <2>1, <2>2 DEF ElementAt
<1>10. ASSUME NEW i \in Nat, i < n PROVE ElementAt(i)' = ElementAt(i)
  <2>1. PlaceAt(i) = <<PlaceAt(i)[1], PlaceAt(i)[2]>>
    BY DEF PlaceAt
  <2>2. ~ (PlaceAt(i)[1] = lastChunk /\ PlaceAt(i)[2] = nextElement)
    BY <1>6, <1>7, <1>10, <2>1
  <2>3. chunks'[PlaceAt(i)[1]][PlaceAt(i)[2]] = chunks[PlaceAt(i)[1]][PlaceAt(i)[2]]
    BY <1>7, <1>8, <1>10, <2>2
  <2>4. QED BY <2>3 DEF ElementAt, PlaceAt
<1>11. /\ Places = [i \in 1 .. n |-> PlaceAt(i - 1)] /\ Places' = [i \in 1 .. n + 1 |-> PlaceAt(i - 1)]
       /\ Elements = [i \in 1 .. n |-> ElementAt(i - 1)]
       /\ Elements' = [i \in 1 .. n + 1 |-> ElementAt(i - 1)']
       /\ Len(Places) = n /\ Len(Elements) = n
  BY <1>2, <1>4, <1>5 DEF AsSequence, PlaceAt
<1>12. \A i \in DOMAIN Places : Places[i] # p
  BY <1>7, <1>11
<1>13. Places' = Append(Places, p)
  BY <1>7, <1>11
<1>14. Elements' = Append(Elements, v)
  <2>1. \A i \in 1 .. n : ElementAt(i - 1)' = Elements[i]
    BY <1>10, <1>11
  <2>2. QED BY <1>9, <1>11, <2>1
<1>15. QED BY <1>12, <1>13, <1>14 DEF Log!LInsert

\* delete_last takes the last element, also from the chunk before, and remove
\* returns it.
LEMMA Deletes ==
  ASSUME ChunkAssumption, ChunksInv, DeleteLast PROVE Log!LDeleteLast /\ Removed = Last(Elements)
<1>1. [Next]_clvars
  BY DEF Next
<1>2. AsSequence /\ AsSequence'
  BY <1>1, BothSequences
<1>3. /\ lastChunk \in Nat \ {0} /\ nextElement \in 0 .. CHUNK_LENGTH - 1
      /\ CHUNK_LENGTH \in Nat \ {0}
  BY DEF ChunksInv, ChunkAssumption
<1>4. Size' = Size - 1
  <2>1. CASE nextElement = 0
    <3>1. lastChunk' = lastChunk - 1 /\ nextElement' = CHUNK_LENGTH - 1
      BY <2>1 DEF DeleteLast
    <3>2. (lastChunk - 1) * CHUNK_LENGTH = (lastChunk - 2) * CHUNK_LENGTH + CHUNK_LENGTH
      BY <1>3, SMTT(20)
    <3>3. Size' = (lastChunk - 2) * CHUNK_LENGTH + (CHUNK_LENGTH - 1)
      BY <1>3, <3>1 DEF Size
    <3>4. QED BY <1>3, <2>1, <3>2, <3>3 DEF Size
  <2>2. CASE nextElement # 0
    <3>1. lastChunk' = lastChunk /\ nextElement' = nextElement - 1
      BY <2>2 DEF DeleteLast
    <3>2. QED BY <1>3, <3>1 DEF Size
  <2>3. QED BY <2>1, <2>2
<1>5. PICK n \in Nat : n = Size'
  BY <1>2 DEF AsSequence
<1>6. Size = n + 1
  BY <1>2, <1>4, <1>5 DEF AsSequence
<1>7. \A i \in Nat : ElementAt(i)' = ElementAt(i)
  BY DEF ElementAt, PlaceAt, DeleteLast
<1>8. /\ Places = [i \in 1 .. n + 1 |-> PlaceAt(i - 1)] /\ Places' = [i \in 1 .. n |-> PlaceAt(i - 1)]
      /\ Elements = [i \in 1 .. n + 1 |-> ElementAt(i - 1)]
      /\ Elements' = [i \in 1 .. n |-> ElementAt(i - 1)']
      /\ Len(Places) = n + 1 /\ Len(Elements) = n + 1
  BY <1>2, <1>5, <1>6 DEF AsSequence, PlaceAt
<1>9. Places' = Front(Places)
  BY <1>8 DEF Front
<1>10. Elements' = Front(Elements)
  BY <1>7, <1>8 DEF Front
<1>11. Elements # <<>>
  <2>1. Len(Elements) # 0 /\ Len(<<>>) = 0
    BY <1>8
  <2>2. QED BY <2>1
<1>12. Removed = Last(Elements)
  <2>1. PlaceAt(n) = <<lastChunk', nextElement'>>
    <3>1. ChunksInv'
      BY <1>1, ChunksKept
    <3>2. PICK k \in Nat, e \in 0 .. CHUNK_LENGTH - 1 : lastChunk' = 1 + k /\ nextElement' = e
      <4>1. PICK l \in Int, k \in Int : lastChunk' = l /\ k = l - 1 /\ l >= 1
        BY <3>1 DEF ChunksInv
      <4>2. k \in Nat /\ lastChunk' = 1 + k
        BY <4>1
      <4>3. nextElement' \in 0 .. CHUNK_LENGTH - 1
        BY <3>1 DEF ChunksInv
      <4>4. QED BY <4>2, <4>3
    <3>3. n = k * CHUNK_LENGTH + e
      BY <1>5, <3>2 DEF Size
    <3>4. n \div CHUNK_LENGTH = k /\ n % CHUNK_LENGTH = e
      BY <1>3, <3>3, AtChunk
    <3>5. QED BY <3>2, <3>4 DEF PlaceAt
  <2>2. Last(Elements) = ElementAt(n)
    BY <1>8 DEF Last
  <2>3. QED BY <2>1, <2>2 DEF Removed, ElementAt, DeleteLast
<1>13. QED BY <1>9, <1>10, <1>11, <1>12 DEF Log!LDeleteLast, Log!Front, Front

\* clear leaves nothing, whatever is in the chunks it keeps.
LEMMA Clears ==
  ASSUME ChunkAssumption, ChunksInv, Clear PROVE Log!LClear
<1>1. [Next]_clvars
  BY DEF Next
<1>2. AsSequence'
  BY <1>1, BothSequences
<1>3. Size' = 0
  BY DEF Size, Clear, ChunkAssumption
<1>4. Places' = <<>> /\ Elements' = <<>>
  BY <1>2, <1>3 DEF AsSequence
<1>5. QED BY <1>4 DEF Log!LClear

\* The log starts empty, with one chunk.
LEMMA ChunksInit == ChunkAssumption /\ Init => ChunksInv /\ Log!LInit
<1> SUFFICES ASSUME ChunkAssumption, Init PROVE ChunksInv /\ Log!LInit
  OBVIOUS
<1>1. ChunksInv
  <2>1. LogChunk \in Chunk
    BY DEF LogChunk, Chunk
  <2>2. QED BY <2>1 DEF ChunksInv, Init, ChunkAssumption
<1>2. AsSequence
  BY <1>1, IsSequence
<1>3. Size = 0
  BY DEF Size, Init, ChunkAssumption
<1>4. QED BY <1>1, <1>2, <1>3 DEF AsSequence, Log!LInit

\* Every step keeps the invariant and is one of the sequence.
LEMMA ChunksStep ==
  ChunkAssumption /\ ChunksInv /\ [Next]_clvars =>
    ChunksInv' /\ [Log!LNext]_(Log!lvars) /\ [RemovesLast]_clvars
<1> SUFFICES ASSUME ChunkAssumption, ChunksInv, [Next]_clvars
             PROVE  ChunksInv' /\ [Log!LNext]_(Log!lvars) /\ [RemovesLast]_clvars
  OBVIOUS
<1>1. ChunksInv'
  BY ChunksKept
<1>2. CASE UNCHANGED clvars
  <2>1. AsSequence /\ AsSequence'
    BY BothSequences
  <2>2. Places' = Places /\ Elements' = Elements
    BY <1>2, <2>1 DEF AsSequence, Size, PlaceAt, ElementAt, clvars
  <2>3. QED BY <1>1, <1>2, <2>2 DEF Log!lvars
<1>3. ASSUME NEW v \in Values, GetNext(v) PROVE Log!LNext
  BY <1>3, Inserts DEF Log!LNext
<1>4. ASSUME DeleteLast PROVE Log!LNext
  BY <1>4, Deletes DEF Log!LNext
<1>5. ASSUME Clear PROVE Log!LNext
  BY <1>5, Clears DEF Log!LNext
<1>6. RemovesLast
  BY Deletes DEF RemovesLast
<1>7. QED BY <1>1, <1>2, <1>3, <1>4, <1>5, <1>6 DEF Next

\* Whatever the length of its chunks, CHUNKED_LOG is a sequence that grows and
\* shrinks at its end, of which an element keeps its place in memory as long as
\* it is in the log: the write locks point to such places.
THEOREM ChunksImplementLog == ASSUME ChunkAssumption PROVE Spec => Log!LSpec
<1>1. Init => ChunksInv /\ Log!LInit
  BY ChunksInit
<1>2. ChunksInv /\ [Next]_clvars => ChunksInv' /\ [Log!LNext]_(Log!lvars)
  BY ChunksStep
<1>3. QED BY <1>1, <1>2, PTL DEF Spec, Log!LSpec

\* What remove returns is the last element of the log.
THEOREM RemovedIsLast == ASSUME ChunkAssumption PROVE Spec => [][RemovesLast]_clvars
<1>1. Init => ChunksInv
  BY ChunksInit
<1>2. ChunksInv /\ [Next]_clvars => ChunksInv' /\ [RemovesLast]_clvars
  BY ChunksStep
<1>3. QED BY <1>1, <1>2, PTL DEF Spec
=============================================================================
