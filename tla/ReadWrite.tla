----------------------------- MODULE ReadWrite -----------------------------
(***************************************************************************)
(* Accesses to parts of words (stm/read_write.h) on top of the word log    *)
(* (WriteWord, InsertWordLogEntry, MaskWord): one transaction that stores  *)
(* values of 1 to 8 bytes, aligned or not, regions and fills, reads them   *)
(* back, and commits or gives up.  Bytes are in little-endian order.       *)
(***************************************************************************)
EXTENDS Integers, FiniteSets

CONSTANTS
  WordSize,  \* sizeof(Word): 4 (TLSTM_32) or 8 (TLSTM_64)
  Words,     \* words of memory
  Sizes,     \* sizes of the values the program accesses
  Lengths, Starts,  \* lengths of regions, and where they start
  Values,    \* the first byte of what the program stores
  Junk,      \* what an uninitialized byte may hold
  Calls,     \* the stores the program makes: "aligned", "value", "unaligned", "region",
             \* "memset", "memset inside" a word, "memmove", "qsort"
  MaxStores  \* bound: stores of the transaction

Byte == 0 .. 3  \* the lowest bit, and another one
Word == 0 .. Words - 1
Index == 0 .. WordSize - 1
Address == 0 .. WordSize * Words - 1

VARIABLES
  memory,  \* the bytes
  log,     \* per word, the WriteWordLogEntry of the transaction: values and mask
  stores   \* stores so far; MaxStores + 1 when the transaction is over

rwvars == <<memory, log, stores>>

----------------------------------------------------------------------------
(* The word log *)

\* A mask of a byte: no bits, all but the lowest, all.
None == 0
High == 1
All == 2

NoLog == [val |-> [i \in Index |-> 0], mask |-> [i \in Index |-> None]]

MaskWord(old, val, mask) ==
  [i \in Index |-> IF mask[i] = None THEN old[i]
                   ELSE IF mask[i] = All THEN val[i]
                   ELSE 2 * (val[i] \div 2) + (old[i] % 2)]

InsertReplaces(entry, val, mask) == [val |-> val, mask |-> mask]  \* fault
\* InsertWordLogEntry; a word that is not in the log has an empty mask.
InsertWordLogEntry(entry, val, mask) ==
  [val |-> MaskWord(entry.val, val, mask),
   mask |-> [i \in Index |-> IF entry.mask[i] > mask[i] THEN entry.mask[i] ELSE mask[i]]]

InMemory(w) == [i \in Index |-> memory[w * WordSize + i]]
ReadWord(w) == MaskWord(InMemory(w), log[w].val, log[w].mask)

\* WriteWord on each of count words from word first, with the words of the
\* read_write_conv_t buffers val and mask.
WriteWords(first, count, val, mask) ==
  log' = [w \in Word |->
    IF w \in first .. first + count - 1
    THEN InsertWordLogEntry(log[w], [i \in Index |-> val[(w - first) * WordSize + i]],
                                    [i \in Index |-> mask[(w - first) * WordSize + i]])
    ELSE log[w]]

----------------------------------------------------------------------------
(* Values *)

WordOf(a) == a \div WordSize
PosOf(a) == a % WordSize
Largest(m, n) == IF m > n THEN m ELSE n

\* The members of read_write_conv_t are laid out with their natural alignment:
\* after pad bytes of padding a member starts at a multiple of its alignment.
AlignOf(size) == IF size > WordSize THEN WordSize ELSE size
MemberOffset(pad, size) == ((pad + AlignOf(size) - 1) \div AlignOf(size)) * AlignOf(size)

\* b16, b32, b64, or element pos \div size of mask_<size>_<pos % size>.
Offset(pos, size) == MemberOffset(pos % size, size) + size * (pos \div size)

\* The words a value at pos reaches into.
Count(pos, size) == (pos + size - 1) \div WordSize + 1

\* A value of the union, after the words it reaches into were read.
Buffer(first) == [i \in 0 .. 3 * WordSize - 1 |->
  IF first + i \div WordSize \in Word THEN ReadWord(first + i \div WordSize)[i % WordSize] ELSE 0]

\* read8aligned .. read64aligned, read_float_aligned, read_double_aligned.
ReadAligned(a, size) ==
  LET at == IF size >= WordSize THEN 0 ELSE (PosOf(a) \div size) * size
      value == Buffer(WordOf(a))
  IN [i \in 0 .. size - 1 |-> value[at + i]]

\* read8 .. read64, read_float, read_double.
ReadValue(a, size) ==
  LET at == Offset(PosOf(a), size)
      value == Buffer(WordOf(a))
  IN [i \in 0 .. size - 1 |-> value[at + i]]

\* The two buffers of a store: the value at an offset, and its mask.
Val(offset, size, bytes, junk) ==
  [i \in 0 .. 3 * WordSize - 1 |->
     IF i \in offset .. offset + size - 1 THEN bytes[i - offset] ELSE junk]
Mask(offset, size, lowest) ==
  [i \in 0 .. 3 * WordSize - 1 |->
     IF i = offset THEN lowest ELSE IF i \in offset .. offset + size - 1 THEN All ELSE None]

Pattern(n, base) == [i \in 0 .. n - 1 |-> (base + i) % 4]
Fits(a, n) == a + n - 1 \in Address
Stores == stores < MaxStores /\ stores' = stores + 1 /\ UNCHANGED memory

\* write8aligned .. write64aligned, write_float_aligned, write_double_aligned.
WriteAligned(a, size, base, junk) ==
  LET at == IF size >= WordSize THEN 0 ELSE (PosOf(a) \div size) * size
  IN WriteWords(WordOf(a), Largest(1, size \div WordSize),
                Val(at, size, Pattern(size, base), junk), Mask(at, size, All))

\* write16, write32, write64, write_float, write_double; the mask of a 64-bit
\* word's 16 and 32 bit values is ~1 (except for unaligned 16 bit values).
LowestBit(pos, size) ==
  IF WordSize = 8 /\ (size = 4 \/ (size = 2 /\ pos % 2 = 0)) THEN High ELSE All
WriteValue(a, size, base, junk) ==
  LET pos == PosOf(a)
      at == Offset(pos, size)
  IN WriteWords(WordOf(a), Count(pos, size), Val(at, size, Pattern(size, base), junk),
                Mask(at, size, LowestBit(pos, size)))

StoreAligned ==
  /\ "aligned" \in Calls /\ Stores
  /\ \E size \in Sizes, a \in Address, base \in Values, junk \in Junk :
       /\ Fits(a, size) /\ a % size = 0
       /\ WriteAligned(a, size, base, junk)

\* For callers that do not know whether a value is aligned.
StoreValue ==
  /\ Stores
  /\ \E size \in Sizes \ {1}, a \in Address, base \in Values, junk \in Junk :
       /\ Fits(a, size) /\ WordOf(a) + Count(PosOf(a), size) - 1 \in Word
       /\ IF a % size = 0 THEN "value" \in Calls ELSE "unaligned" \in Calls
       /\ WriteValue(a, size, base, junk)

----------------------------------------------------------------------------
(* Regions *)

RegionPast(start, n) == start .. start + n  \* fault: one byte more
\* The bytes from start on that read_region and write_region reach: the rest of
\* the first word unless it starts the region, the words before the last, and
\* the last word up to the end of the region.
RegionOf(start, n) ==
  LET first == WordOf(start)
      last == WordOf(start + n - 1)
      headed == PosOf(start) # 0 \/ first = last
      head == start .. (IF n < WordSize - PosOf(start) THEN start + n
                        ELSE (first + 1) * WordSize) - 1
      next == IF headed THEN first + 1 ELSE first
      tail == Largest(next, last)  \* next_word_addr after the loop
  IN IF first = last THEN head
     ELSE (IF headed THEN head ELSE {})
          \cup (next * WordSize .. tail * WordSize + PosOf(start + n - 1))

\* memset_tx: the first word, if the region starts inside it, up to its end.
FillOf(start, n) ==
  LET first == WordOf(start)
      last == WordOf(start + n - 1)
  IN IF PosOf(start) # 0 /\ first = last THEN start .. (first + 1) * WordSize - 1
     ELSE start .. last * WordSize + PosOf(start + n - 1)

ReadRegion(start, n) ==
  [i \in 0 .. n - 1 |-> ReadWord(WordOf(start + i))[PosOf(start + i)]]

\* The stores to the words of a region; bytes[i] is the i-th byte.
WriteBytes(start, reached, bytes, junk) ==
  log' = [w \in Word |->
    LET mask == [i \in Index |-> IF w * WordSize + i \in reached THEN All ELSE None]
        val == [i \in Index |-> IF mask[i] = All THEN bytes[w * WordSize + i - start] ELSE junk]
    IN IF \E i \in Index : mask[i] = All THEN InsertWordLogEntry(log[w], val, mask)
       ELSE log[w]]

StoreRegion ==
  /\ "region" \in Calls /\ Stores
  /\ \E n \in Lengths, a \in Starts, base \in Values, junk \in Junk :
       /\ Fits(a, n)
       /\ WriteBytes(a, RegionOf(a, n), Pattern(n, base), junk)

Memset ==
  /\ Stores
  /\ \E n \in Lengths, a \in Starts, c \in Values, junk \in Junk :
       /\ Fits(a, n)
       /\ IF PosOf(a) # 0 /\ PosOf(a) + n < WordSize THEN "memset inside" \in Calls
          ELSE "memset" \in Calls
       /\ WriteBytes(a, FillOf(a, n), [i \in 0 .. Largest(n, WordSize) - 1 |-> c], junk)

\* memmove_tx, memcpy_tx: through a buffer.
Memmove ==
  /\ "memmove" \in Calls /\ Stores
  /\ \E n \in Lengths, dest \in Starts, src \in Starts, junk \in Junk :
       /\ Fits(dest, n) /\ Fits(src, n)
       /\ WriteBytes(dest, RegionOf(dest, n), ReadRegion(src, n), junk)

\* The k-th byte of n when they are in order.
Sorted(bytes, n) ==
  [k \in 0 .. n - 1 |-> CHOOSE v \in Byte :
     /\ Cardinality({i \in 0 .. n - 1 : bytes[i] < v}) <= k
     /\ Cardinality({i \in 0 .. n - 1 : bytes[i] <= v}) > k]

\* qsort_tx, for elements of one byte.
Qsort ==
  /\ "qsort" \in Calls /\ Stores
  /\ \E n \in Lengths, a \in Starts, junk \in Junk :
       /\ Fits(a, n)
       /\ WriteBytes(a, RegionOf(a, n), Sorted(ReadRegion(a, n), n), junk)

\* strncmp_tx: byte after byte, a word of each string at a time; strcmp_tx for
\* n = Address's size.  The strings end inside memory.
StrNCmp(a, b, n) ==
  LET char(s, k) == ReadWord(WordOf(s) + (PosOf(s) + k) \div WordSize)[(PosOf(s) + k) % WordSize]
      stops(k) == char(a, k) # char(b, k) \/ char(a, k) = 0 \/ k = n - 1
      last == CHOOSE k \in 0 .. n - 1 : stops(k) /\ \A j \in 0 .. k - 1 : ~ stops(j)
  IN IF n = 0 THEN 0 ELSE char(a, last) - char(b, last)

----------------------------------------------------------------------------
Init == /\ memory = [a \in Address |-> 0]
        /\ log = [w \in Word |-> NoLog]
        /\ stores = 0

\* The write-back: MaskWord(word_log_entry) into each word.
Commit ==
  /\ memory' = [a \in Address |-> ReadWord(WordOf(a))[PosOf(a)]]
  /\ log' = [w \in Word |-> NoLog] /\ stores <= MaxStores /\ stores' = MaxStores + 1

Rollback ==
  /\ log' = [w \in Word |-> NoLog] /\ stores <= MaxStores /\ stores' = MaxStores + 1
  /\ UNCHANGED memory

Next == StoreAligned \/ StoreValue \/ StoreRegion \/ Memset \/ Memmove \/ Qsort
        \/ Commit \/ Rollback

Spec == Init /\ [][Next]_rwvars

----------------------------------------------------------------------------
(* Properties *)

\* What they rely on: the calls of read_write.h that do as they say.  Values of
\* 16 and 32 bits lose their lowest bit in words of eight bytes, unaligned ones
\* land beside their place, memset_tx inside a word fills the rest of it, and a
\* region or fill of no bytes at the start of a word takes the whole word for its last.
ReadWriteAssumption ==
  /\ WordSize \in {4, 8} /\ Words \in Nat \ {0}
  /\ Sizes \subseteq {1, 2, 4, 8} /\ Lengths \subseteq Nat \ {0} /\ Starts \subseteq Nat
  /\ Values \subseteq Byte /\ Junk \subseteq Byte
  /\ "unaligned" \notin Calls /\ "memset inside" \notin Calls
  /\ WordSize = 8 => "value" \notin Calls

View == [a \in Address |-> ReadWord(WordOf(a))[PosOf(a)]]
Bytes == INSTANCE ByteTx WITH committed <- memory, view <- View

\* Stores of aligned values, and regions, fills, moves and sorts of at least one
\* byte, change the bytes they name, whatever was written to other parts of their
\* words before, and no others; a commit makes memory what the transaction saw,
\* and a rollback leaves it alone.  (A call named in Calls that ReadWriteAssumption
\* excludes does not: run bytes.)
StoresBytes == Bytes!BSpec

\* A transaction's reads, of aligned values and of regions of at least one byte, and
\* its string comparisons see the bytes it has written on top of memory.
ReadsBytes ==
  /\ \A size \in Sizes : \A a \in Address : a % size = 0 /\ Fits(a, size) =>
       \A i \in 0 .. size - 1 : /\ ReadAligned(a, size)[i] = View[a + i]
                               /\ ReadValue(a, size)[i] = View[a + i]
  /\ \A n \in Lengths : \A a, b \in Starts : Fits(a, n) /\ Fits(b, n) =>
       /\ RegionOf(a, n) = a .. a + n - 1
       /\ (StrNCmp(a, b, n) = 0) <=>
            \A k \in 0 .. n - 1 : \/ View[a + k] = View[b + k]
                                 \/ \E j \in 0 .. k - 1 : View[a + j] = 0 /\ View[b + j] = 0
=============================================================================
