-------------------------- MODULE ReadWrite_proof --------------------------
(***************************************************************************)
(* The accesses of ReadWrite implement ByteTx, an array of bytes, for any  *)
(* number of words of four or eight bytes and regions of at least a byte.  *)
(*                                                                         *)
(* A store puts bytes into the entries of a set of addresses (Puts), and   *)
(* then the transaction sees these there and what it saw before elsewhere  *)
(* (Sees).  What is left of each access is to show which set that is.      *)
(***************************************************************************)
EXTENDS ReadWrite, FiniteSetTheorems, WellFoundedInduction, TLAPS

\* With the calls of ReadWriteAssumption, all bits of a byte are in the log or none.
Masks == {None, All}
Entry == [val : [Index -> Byte], mask : [Index -> Masks]]
LogInv == memory \in [Address -> Byte] /\ log \in [Word -> Entry]

----------------------------------------------------------------------------
(* Words and bytes *)

\* An address is one word and position.
LEMMA Locate ==
  ASSUME ReadWriteAssumption, NEW a \in Address
  PROVE  WordOf(a) \in Word /\ PosOf(a) \in Index /\ WordOf(a) * WordSize + PosOf(a) = a
<1>1. PICK n \in Nat : n = Words
  BY DEF ReadWriteAssumption
<1>2. CASE WordSize = 4
  BY <1>1, <1>2 DEF Address, WordOf, PosOf, Word, Index
<1>3. CASE WordSize = 8
  BY <1>1, <1>3 DEF Address, WordOf, PosOf, Word, Index
<1>4. QED BY <1>2, <1>3 DEF ReadWriteAssumption

\* And a word and a position are one address.
LEMMA Unique ==
  ASSUME ReadWriteAssumption, NEW w \in Word, NEW i \in Index
  PROVE  /\ w * WordSize + i \in Address
         /\ WordOf(w * WordSize + i) = w /\ PosOf(w * WordSize + i) = i
<1>1. PICK n \in Nat : n = Words
  BY DEF ReadWriteAssumption
<1>2. CASE WordSize = 4
  BY <1>1, <1>2 DEF Address, WordOf, PosOf, Word, Index
<1>3. CASE WordSize = 8
  BY <1>1, <1>3 DEF Address, WordOf, PosOf, Word, Index
<1>4. QED BY <1>2, <1>3 DEF ReadWriteAssumption

\* Words, positions and addresses are numbers.
LEMMA Numbers ==
  ASSUME ReadWriteAssumption
  PROVE  Word \subseteq Nat /\ Index \subseteq Nat /\ Address \subseteq Nat /\ WordSize \in Nat \ {0}
<1>1. WordSize \in Nat \ {0}
  <2>1. WordSize = 4 \/ WordSize = 8
    BY DEF ReadWriteAssumption
  <2>2. QED BY <2>1
<1>2. Word \subseteq Nat /\ Index \subseteq Nat /\ Address \subseteq Nat
  BY DEF Word, Index, Address
<1>3. QED BY <1>1, <1>2

\* What the transaction sees at an address.
LEMMA ViewIs ==
  ASSUME ReadWriteAssumption, LogInv, NEW w \in Word, NEW i \in Index
  PROVE  /\ View[w * WordSize + i] = ReadWord(w)[i]
         /\ ReadWord(w)[i] = IF log[w].mask[i] = All THEN log[w].val[i] ELSE memory[w * WordSize + i]
<1>1. log[w].mask[i] \in {0, 2}
  BY DEF LogInv, Entry, Masks, None, All
<1>2. ReadWord(w)[i] = IF log[w].mask[i] = All THEN log[w].val[i] ELSE memory[w * WordSize + i]
  BY <1>1 DEF ReadWord, MaskWord, InMemory, None, All
<1>3. View[w * WordSize + i] = ReadWord(w)[i]
  BY Unique DEF View
<1>4. QED BY <1>2, <1>3

\* It sees bytes.
LEMMA ViewType ==
  ASSUME ReadWriteAssumption, LogInv PROVE View \in [Address -> Byte]
<1> SUFFICES ASSUME NEW a \in Address PROVE View[a] \in Byte
  BY DEF View
<1>1. WordOf(a) \in Word /\ PosOf(a) \in Index /\ WordOf(a) * WordSize + PosOf(a) = a
  BY Locate
<1>2. View[a] = IF log[WordOf(a)].mask[PosOf(a)] = All THEN log[WordOf(a)].val[PosOf(a)] ELSE memory[a]
  BY <1>1, ViewIs
<1>3. QED BY <1>1, <1>2 DEF LogInv, Entry

\* The same of every state, for the next one.
ViewTyping == View \in [Address -> Byte]
LEMMA ViewTyped == ReadWriteAssumption /\ LogInv => ViewTyping
BY ViewType DEF ViewTyping

\* InsertWordLogEntry: the bytes under the mask are new, the others stay.
LEMMA Inserted ==
  ASSUME NEW entry \in Entry, NEW val \in [Index -> Byte], NEW mask \in [Index -> Masks]
  PROVE  /\ InsertWordLogEntry(entry, val, mask) \in Entry
         /\ \A i \in Index :
              /\ InsertWordLogEntry(entry, val, mask).mask[i] = IF mask[i] = All THEN All ELSE entry.mask[i]
              /\ InsertWordLogEntry(entry, val, mask).val[i] = IF mask[i] = All THEN val[i] ELSE entry.val[i]
<1> DEFINE e == InsertWordLogEntry(entry, val, mask)
<1>1. \A i \in Index : mask[i] \in {0, 2} /\ entry.mask[i] \in {0, 2}
  BY DEF Entry, Masks, None, All
<1>2. e = [val |-> MaskWord(entry.val, val, mask),
           mask |-> [i \in Index |-> IF entry.mask[i] > mask[i] THEN entry.mask[i] ELSE mask[i]]]
  BY DEF InsertWordLogEntry
<1>3. \A i \in Index : e.mask[i] = IF mask[i] = All THEN All ELSE entry.mask[i]
  BY <1>1, <1>2 DEF All
<1>4. MaskWord(entry.val, val, mask) = [i \in Index |-> IF mask[i] = All THEN val[i] ELSE entry.val[i]]
  BY <1>1 DEF MaskWord, All, None
<1>5. e.mask \in [Index -> Masks]
  BY <1>1, <1>2 DEF Masks, None, All
<1>6. e.val \in [Index -> Byte]
  BY <1>2, <1>4 DEF Entry
<1>7. e \in Entry
  BY <1>2, <1>5, <1>6 DEF Entry
<1>8. QED BY <1>2, <1>3, <1>4, <1>7

----------------------------------------------------------------------------
(* What a store changes *)

\* Every entry of the log has the bytes of R that are in its word, as f says.
Puts(R, f) ==
  log' \in [Word -> Entry] /\
  \A w \in Word : \A i \in Index :
     LET b == w * WordSize + i
     IN /\ log'[w].mask[i] = IF b \in R THEN All ELSE log[w].mask[i]
        /\ log'[w].val[i] = IF b \in R THEN f[b] ELSE log[w].val[i]
\* The transaction sees the bytes of R as f says, and the others as before.
Sees(R, f) == View' = [b \in Address |-> IF b \in R THEN f[b] ELSE View[b]]

\* ViewIs of every state.
Viewed == \A w \in Word, i \in Index :
  View[w * WordSize + i] = IF log[w].mask[i] = All THEN log[w].val[i] ELSE memory[w * WordSize + i]
LEMMA IsViewed == ReadWriteAssumption /\ LogInv => Viewed
BY ViewIs DEF Viewed

\* What is put into the log is what is seen.
LEMMA PutsSees ==
  ASSUME ReadWriteAssumption, LogInv, NEW R, NEW f, Puts(R, f), UNCHANGED memory
  PROVE  LogInv' /\ Sees(R, f)
<1>1. LogInv'
  BY DEF Puts, LogInv
<1>2. Viewed /\ Viewed'
  <2>1. ReadWriteAssumption /\ LogInv' => Viewed'
    BY IsViewed, PTL
  <2>2. QED BY <1>1, <2>1, IsViewed
<1>3. ASSUME NEW b \in Address PROVE View'[b] = IF b \in R THEN f[b] ELSE View[b]
  <2>1. WordOf(b) \in Word /\ PosOf(b) \in Index /\ WordOf(b) * WordSize + PosOf(b) = b
    BY Locate
  <2>2. PICK w \in Word, i \in Index : w * WordSize + i = b
    BY <2>1
  <2>3. View[b] = IF log[w].mask[i] = All THEN log[w].val[i] ELSE memory[b]
    BY <1>2, <2>2 DEF Viewed
  <2>4. View'[b] = IF log'[w].mask[i] = All THEN log'[w].val[i] ELSE memory[b]
    BY <1>2, <2>2 DEF Viewed
  <2>5. QED BY <2>2, <2>3, <2>4 DEF Puts
<1>4. View' = [b \in Address |-> View'[b]]
  BY DEF View
<1>5. QED BY <1>1, <1>3, <1>4 DEF Sees

\* The bytes of R are those of words first to first + count - 1 that have a mask.
Matches(first, count, val, mask, R, f) ==
  \A w \in Word, i \in Index :
    IF w \in first .. first + count - 1 /\ mask[(w - first) * WordSize + i] = All
    THEN w * WordSize + i \in R /\ f[w * WordSize + i] = val[(w - first) * WordSize + i]
    ELSE w * WordSize + i \notin R

\* WriteWords: words first to first + count - 1, where the mask is set.
LEMMA WordsPut ==
  ASSUME ReadWriteAssumption, LogInv, NEW first \in Nat, NEW count \in 1 .. 3,
         NEW val \in [0 .. 3 * WordSize - 1 -> Byte], NEW mask \in [0 .. 3 * WordSize - 1 -> Masks],
         WriteWords(first, count, val, mask), UNCHANGED memory,
         NEW R, NEW f,
         Matches(first, count, val, mask, R, f)
  PROVE  LogInv' /\ Sees(R, f)
<1>1. WordSize = 4 \/ WordSize = 8
  BY DEF ReadWriteAssumption
<1> DEFINE v(w) == [i \in Index |-> val[(w - first) * WordSize + i]]
           m(w) == [i \in Index |-> mask[(w - first) * WordSize + i]]
<1>2. log' = [w \in Word |-> IF w \in first .. first + count - 1
                            THEN InsertWordLogEntry(log[w], v(w), m(w)) ELSE log[w]]
  BY Zenon DEF WriteWords
<1>3. ASSUME NEW w \in Word
      PROVE  /\ log'[w] \in Entry
             /\ \A i \in Index :
                  LET b == w * WordSize + i
                  IN /\ log'[w].mask[i] = IF b \in R THEN All ELSE log[w].mask[i]
                     /\ log'[w].val[i] = IF b \in R THEN f[b] ELSE log[w].val[i]
  <2>1. log[w] \in Entry
    BY DEF LogInv
  <2>2. CASE w \in first .. first + count - 1
    <3>1. w \in Int /\ w - first \in 0 .. 2
      BY <2>2 DEF Word
    <3>2. \A i \in Index : (w - first) * WordSize + i \in 0 .. 3 * WordSize - 1
      <4>1. CASE WordSize = 4
        BY <3>1, <4>1 DEF Index
      <4>2. CASE WordSize = 8
        BY <3>1, <4>2 DEF Index
      <4>3. QED BY <1>1, <4>1, <4>2
    <3>3. v(w) \in [Index -> Byte] /\ m(w) \in [Index -> Masks]
      BY <3>2
    <3>4. log'[w] = InsertWordLogEntry(log[w], v(w), m(w))
      BY <1>2, <2>2
    <3>5. \A i \in Index : v(w)[i] = val[(w - first) * WordSize + i]
                         /\ m(w)[i] = mask[(w - first) * WordSize + i]
      OBVIOUS
    <3> HIDE DEF v, m
    <3>6. /\ log'[w] \in Entry
          /\ \A i \in Index : log'[w].mask[i] = (IF m(w)[i] = All THEN All ELSE log[w].mask[i])
          /\ \A i \in Index : log'[w].val[i] = (IF m(w)[i] = All THEN v(w)[i] ELSE log[w].val[i])
      BY <2>1, <3>3, <3>4, Inserted
    <3>7. QED BY <2>2, <3>5, <3>6 DEF Matches
  <2>3. CASE w \notin first .. first + count - 1
    <3>1. log'[w] = log[w]
      BY <1>2, <2>3
    <3>2. \A i \in Index : w * WordSize + i \notin R
      BY <2>3 DEF Matches
    <3>3. QED BY <2>1, <3>1, <3>2
  <2>4. QED BY <2>2, <2>3
<1>4. Puts(R, f)
  BY <1>2, <1>3 DEF Puts
<1>5. QED BY <1>4, PutsSees

\* WriteBytes: the bytes reached.
LEMMA BytesPut ==
  ASSUME ReadWriteAssumption, LogInv, NEW start \in Nat, NEW reached, NEW bytes, NEW junk \in Byte,
         \A b \in reached : bytes[b - start] \in Byte,
         WriteBytes(start, reached, bytes, junk), UNCHANGED memory
  PROVE  LogInv' /\ View' = [b \in Address |-> IF b \in reached THEN bytes[b - start] ELSE View[b]]
<1> DEFINE f == [b \in reached |-> bytes[b - start]]
           m(w) == [i \in Index |-> IF w * WordSize + i \in reached THEN All ELSE None]
           v(w) == [i \in Index |-> IF m(w)[i] = All THEN bytes[w * WordSize + i - start] ELSE junk]
<1>1. log' = [w \in Word |-> IF \E i \in Index : m(w)[i] = All
                            THEN InsertWordLogEntry(log[w], v(w), m(w)) ELSE log[w]]
  BY Zenon DEF WriteBytes
<1>2. ASSUME NEW w \in Word
      PROVE  /\ log'[w] \in Entry
             /\ \A i \in Index :
                  LET b == w * WordSize + i
                  IN /\ log'[w].mask[i] = IF b \in reached THEN All ELSE log[w].mask[i]
                     /\ log'[w].val[i] = IF b \in reached THEN f[b] ELSE log[w].val[i]
  <2>1. log[w] \in Entry
    BY DEF LogInv
  <2>2. \A i \in Index : (m(w)[i] = All) <=> (w * WordSize + i \in reached)
    BY DEF All, None
  <2>3. m(w) \in [Index -> Masks]
    BY DEF Masks
  <2>4. ASSUME NEW i \in Index, m(w)[i] = All PROVE v(w)[i] \in Byte /\ v(w)[i] = f[w * WordSize + i]
    <3>1. PICK b \in reached : b = w * WordSize + i
      BY <2>2, <2>4
    <3>2. v(w)[i] = bytes[w * WordSize + i - start]
      BY <2>4
    <3>4. w * WordSize + i - start = b - start
      <4>1. w \in Int /\ i \in Int /\ WordSize \in Int
        BY Numbers
      <4>2. QED BY <3>1, <4>1
    <3>3. QED BY <3>1, <3>2, <3>4
  <2>5. v(w) \in [Index -> Byte]
    <3>1. \A i \in Index : m(w)[i] # All => v(w)[i] = junk
      BY Zenon
    <3>2. \A i \in Index : v(w)[i] \in Byte
      BY <2>4, <3>1
    <3>3. v(w) = [i \in Index |-> v(w)[i]]
      BY Zenon
    <3> HIDE DEF v
    <3>4. QED BY <3>2, <3>3
  <2>6. log'[w] = IF \E i \in Index : m(w)[i] = All THEN InsertWordLogEntry(log[w], v(w), m(w)) ELSE log[w]
    BY <1>1
  <2> HIDE DEF m, v, f
  <2>7. CASE \E i \in Index : m(w)[i] = All
    <3>1. /\ log'[w] \in Entry
          /\ \A i \in Index : log'[w].mask[i] = (IF m(w)[i] = All THEN All ELSE log[w].mask[i])
          /\ \A i \in Index : log'[w].val[i] = (IF m(w)[i] = All THEN v(w)[i] ELSE log[w].val[i])
      BY <2>1, <2>3, <2>5, <2>6, <2>7, Inserted
    <3>2. QED BY <2>2, <2>4, <3>1
  <2>8. CASE ~ \E i \in Index : m(w)[i] = All
    BY <2>1, <2>2, <2>6, <2>8
  <2>9. QED BY <2>7, <2>8
<1>3. Puts(reached, f)
  BY <1>1, <1>2 DEF Puts
<1>4. LogInv' /\ Sees(reached, f)
  BY <1>3, PutsSees
<1>5. QED BY <1>4 DEF Sees

----------------------------------------------------------------------------
(* Values *)

\* The transaction sees n new bytes from a on.
Overwritten(a, n, bytes) ==
  View' = [b \in Address |-> IF b \in a .. a + n - 1 THEN bytes[b - a] ELSE View[b]]

\* What the program stores are bytes.
LEMMA PatternType ==
  ASSUME NEW n \in Nat, NEW base \in Nat PROVE Pattern(n, base) \in [0 .. n - 1 -> Byte]
<1> SUFFICES ASSUME NEW i \in 0 .. n - 1 PROVE (base + i) % 4 \in Byte
  BY DEF Pattern
<1>1. QED BY DEF Byte

\* A value whose place in the buffer is that in the words it is written to.
LEMMA ValuePut ==
  ASSUME ReadWriteAssumption, LogInv, NEW size \in {1, 2, 4, 8}, NEW a \in Address, NEW base \in Nat,
         NEW junk \in Byte, NEW at \in Nat, NEW count \in 1 .. 3,
         WordOf(a) * WordSize + at = a, at + size <= count * WordSize,
         WriteWords(WordOf(a), count, Val(at, size, Pattern(size, base), junk), Mask(at, size, All)),
         UNCHANGED memory
  PROVE  LogInv' /\ Overwritten(a, size, Pattern(size, base))
<1> DEFINE val == Val(at, size, Pattern(size, base), junk)
           mask == Mask(at, size, All)
           R == a .. a + size - 1
           f == [b \in R |-> Pattern(size, base)[b - a]]
<1>1. WordOf(a) \in Word /\ WordOf(a) \in Nat
  BY Locate, Numbers
<1>2. PICK first \in Word : first = WordOf(a) /\ first \in Nat /\ first * WordSize + at = a
  BY <1>1
<1>3. WordSize = 4 \/ WordSize = 8
  BY DEF ReadWriteAssumption
<1>4. Pattern(size, base) \in [0 .. size - 1 -> Byte]
  BY PatternType
<1>5. \A j \in 0 .. 3 * WordSize - 1 :
        /\ mask[j] = IF j \in at .. at + size - 1 THEN All ELSE None
        /\ val[j] = IF j \in at .. at + size - 1 THEN Pattern(size, base)[j - at] ELSE junk
  BY DEF Mask, Val
<1>6. mask \in [0 .. 3 * WordSize - 1 -> Masks]
  BY DEF Mask, Masks
<1>7. val \in [0 .. 3 * WordSize - 1 -> Byte]
  <2>1. \A j \in at .. at + size - 1 : j - at \in 0 .. size - 1
    OBVIOUS
  <2>2. QED BY <1>4, <2>1 DEF Val
<1>8. WriteWords(first, count, val, mask)
  BY <1>2
<1> HIDE DEF val, mask
<1>9. ASSUME NEW w \in Word, NEW i \in Index
      PROVE  IF w \in first .. first + count - 1 /\ mask[(w - first) * WordSize + i] = All
             THEN w * WordSize + i \in R /\ f[w * WordSize + i] = val[(w - first) * WordSize + i]
             ELSE w * WordSize + i \notin R
  <2>1. w \in Nat /\ i \in 0 .. WordSize - 1 /\ a \in Nat
    BY Numbers DEF Index
  <2>2. PICK b \in Nat : b = w * WordSize + i
    BY <1>3, <2>1
  <2>3. PICK j \in Int : j = (w - first) * WordSize + i
    BY <1>2, <1>3, <2>1
  <2>4. b - a = j - at
    BY <1>2, <1>3, <2>1, <2>2, <2>3
  <2>5. w \in first .. first + count - 1 => j \in 0 .. 3 * WordSize - 1
    <3> SUFFICES ASSUME w \in first .. first + count - 1 PROVE j \in 0 .. 3 * WordSize - 1
      OBVIOUS
    <3>1. PICK d \in 0 .. 2 : d = w - first
      BY <1>2, <2>1
    <3>2. j = d * WordSize + i
      BY <2>3, <3>1
    <3>3. PICK k \in Nat : k = d * WordSize /\ k <= 2 * WordSize
      <4>1. CASE WordSize = 4
        BY <4>1
      <4>2. CASE WordSize = 8
        BY <4>2
      <4>3. QED BY <1>3, <4>1, <4>2
    <3>4. j = k + i
      BY <3>2, <3>3
    <3>5. QED BY <1>3, <2>1, <3>3, <3>4
  <2>6. w \notin first .. first + count - 1 => j < 0 \/ j >= count * WordSize
    BY <1>2, <1>3, <2>1, <2>3
  <2>7. CASE j \in at .. at + size - 1
    <3>1. w \in first .. first + count - 1
      BY <2>6, <2>7, <1>3
    <3>2. b \in R
      BY <2>1, <2>4, <2>7
    <3>3. mask[j] = All /\ val[j] = Pattern(size, base)[j - at]
      BY <1>5, <2>5, <2>7, <3>1
    <3>4. f[b] = Pattern(size, base)[b - a]
      BY <3>2
    <3>5. f[b] = val[j]
      BY <2>4, <3>3, <3>4
    <3>6. QED BY <2>2, <2>3, <3>1, <3>2, <3>3, <3>5
  <2>8. CASE j \notin at .. at + size - 1
    <3>1. b \notin R
      BY <2>1, <2>4, <2>8
    <3>2. w \in first .. first + count - 1 => mask[j] # All
      BY <1>5, <2>5, <2>8 DEF None, All
    <3>3. QED BY <2>2, <2>3, <3>1, <3>2
  <2>9. QED BY <2>7, <2>8
<1>10. LogInv' /\ Sees(R, f)
  <2>1. Matches(first, count, val, mask, R, f)
    BY <1>9 DEF Matches
  <2>2. first \in Nat
    BY <1>2
  <2> HIDE DEF R, f
  <2>3. QED BY <1>6, <1>7, <1>8, <2>1, <2>2, WordsPut
<1>11. QED BY <1>10 DEF Sees, Overwritten

\* An aligned value is where the union has it: at its position in the word.
LEMMA PlaceOf ==
  ASSUME ReadWriteAssumption, NEW size \in {1, 2, 4, 8}, NEW a \in Address, a % size = 0
  PROVE  /\ (IF size >= WordSize THEN 0 ELSE (PosOf(a) \div size) * size) = PosOf(a)
         /\ Offset(PosOf(a), size) = PosOf(a)
         /\ size < WordSize => PosOf(a) + size <= WordSize
         /\ size >= WordSize => PosOf(a) = 0
<1>1. WordSize = 4 \/ WordSize = 8
  BY DEF ReadWriteAssumption
<1>2. a \in Nat
  BY Numbers
<1>3. PICK p \in 0 .. WordSize - 1 : p = PosOf(a) /\ p = a % WordSize
  <2>1. a % WordSize \in 0 .. WordSize - 1
    BY <1>1, <1>2
  <2>2. QED BY <2>1 DEF PosOf
<1>4. size = 2 => p \in {0, 2, 4, 6}
  BY <1>1, <1>2, <1>3
<1>5. size = 4 => p \in {0, 4}
  BY <1>1, <1>2, <1>3
<1>6. size >= WordSize => p = 0
  BY <1>1, <1>2, <1>3
<1>7. size < WordSize => p + size <= WordSize
  BY <1>1, <1>3, <1>4, <1>5, <1>6
<1>8. size < WordSize => (p \div size) * size = p
  <2>1. CASE size = 1
    BY <1>3, <2>1
  <2>2. CASE size = 2
    BY <1>3, <1>4, <2>2
  <2>3. CASE size = 4
    BY <1>3, <1>5, <2>3
  <2>4. CASE size = 8
    BY <1>1, <2>4
  <2>5. QED BY <2>1, <2>2, <2>3, <2>4
<1>9. Offset(p, size) = p
  <2>1. CASE size = 1
    <3>1. AlignOf(1) = 1 /\ MemberOffset(0, 1) = 0 /\ p % 1 = 0 /\ p \div 1 = p
      BY <1>1, <1>3 DEF AlignOf, MemberOffset
    <3>2. QED BY <1>3, <2>1, <3>1 DEF Offset
  <2>2. CASE size = 2
    <3>1. AlignOf(2) = 2 /\ MemberOffset(0, 2) = 0 /\ p % 2 = 0 /\ 2 * (p \div 2) = p
      BY <1>1, <1>4, <2>2 DEF AlignOf, MemberOffset
    <3>2. QED BY <1>3, <2>2, <3>1 DEF Offset
  <2>3. CASE size = 4
    <3>1. AlignOf(4) = 4 /\ MemberOffset(0, 4) = 0 /\ p % 4 = 0 /\ 4 * (p \div 4) = p
      BY <1>1, <1>5, <2>3 DEF AlignOf, MemberOffset
    <3>2. QED BY <1>3, <2>3, <3>1 DEF Offset
  <2>4. CASE size = 8
    <3>1. p = 0 /\ AlignOf(8) \in {4, 8} /\ MemberOffset(0, 8) = 0
      BY <1>1, <1>6, <2>4 DEF AlignOf, MemberOffset
    <3>2. QED BY <2>4, <3>1 DEF Offset
  <2>5. QED BY <2>1, <2>2, <2>3, <2>4
<1>10. size >= WordSize => (IF size >= WordSize THEN 0 ELSE (PosOf(a) \div size) * size) = 0
  OBVIOUS
<1>11. QED BY <1>1, <1>3, <1>6, <1>7, <1>8, <1>9, <1>10

\* write8aligned to write64aligned.
LEMMA AlignedPut ==
  ASSUME ReadWriteAssumption, LogInv, NEW size \in {1, 2, 4, 8}, NEW a \in Address, NEW base \in Nat,
         NEW junk \in Byte, a % size = 0, WriteAligned(a, size, base, junk), UNCHANGED memory
  PROVE  LogInv' /\ Overwritten(a, size, Pattern(size, base))
<1> DEFINE at == IF size >= WordSize THEN 0 ELSE (PosOf(a) \div size) * size
           count == Largest(1, size \div WordSize)
<1>1. WordSize = 4 \/ WordSize = 8
  BY DEF ReadWriteAssumption
<1>2. WordOf(a) \in Nat /\ PosOf(a) \in Nat /\ WordOf(a) * WordSize + PosOf(a) = a
  BY Locate, Numbers
<1>3. at = PosOf(a)
  BY PlaceOf
<1>4. count \in 1 .. 3 /\ PosOf(a) + size <= count * WordSize
  <2>1. size < WordSize => PosOf(a) + size <= WordSize
    BY PlaceOf
  <2>2. size >= WordSize => PosOf(a) = 0
    BY PlaceOf
  <2>3. size < WordSize => count = 1
    BY <1>1 DEF Largest
  <2>4. size >= WordSize => count * WordSize = size /\ count \in 1 .. 2
    BY <1>1 DEF Largest
  <2>5. QED BY <1>1, <1>2, <2>1, <2>2, <2>3, <2>4
<1>5. WriteWords(WordOf(a), count, Val(at, size, Pattern(size, base), junk), Mask(at, size, All))
  BY DEF WriteAligned
<1> HIDE DEF at, count
<1>6. QED BY <1>2, <1>3, <1>4, <1>5, ValuePut

\* write16, write32 and write64 of values that are aligned, in words of four.
LEMMA UnionPut ==
  ASSUME ReadWriteAssumption, LogInv, NEW size \in {2, 4, 8}, NEW a \in Address, NEW base \in Nat,
         NEW junk \in Byte, a % size = 0, WordSize = 4, WriteValue(a, size, base, junk), UNCHANGED memory
  PROVE  LogInv' /\ Overwritten(a, size, Pattern(size, base))
<1> DEFINE at == Offset(PosOf(a), size)
           count == Count(PosOf(a), size)
<1>1. WordOf(a) \in Nat /\ PosOf(a) \in 0 .. 3 /\ WordOf(a) * WordSize + PosOf(a) = a
  BY Locate, Numbers DEF Index
<1>2. at = PosOf(a) /\ (size < WordSize => PosOf(a) + size <= WordSize) /\ (size >= WordSize => PosOf(a) = 0)
  BY PlaceOf
<1>3. count \in 1 .. 3 /\ PosOf(a) + size <= count * WordSize
  <2>1. PICK p \in 0 .. 3 : p = PosOf(a)
    BY <1>1
  <2>2. count = (p + size - 1) \div 4 + 1
    BY <2>1 DEF Count
  <2>3. CASE size = 2
    <3>1. p + 2 <= 4 /\ (p + 2 - 1) \div 4 = 0
      BY <1>2, <2>1, <2>3
    <3>2. QED BY <2>1, <2>2, <2>3, <3>1
  <2>4. CASE size \in {4, 8}
    <3>1. p = 0
      BY <1>2, <2>1, <2>4
    <3>2. QED BY <2>1, <2>2, <2>4, <3>1
  <2>5. QED BY <2>3, <2>4
<1>4. LowestBit(PosOf(a), size) = All
  BY DEF LowestBit
<1>5. WriteWords(WordOf(a), count, Val(at, size, Pattern(size, base), junk), Mask(at, size, All))
  BY <1>4 DEF WriteValue
<1> HIDE DEF at, count
<1>6. QED BY <1>1, <1>2, <1>3, <1>5, ValuePut

----------------------------------------------------------------------------
(* Regions *)

\* The head, the words and the tail of a region are the region; so are those of a
\* fill that does not end inside its first word.
LEMMA RegionIs ==
  ASSUME ReadWriteAssumption, NEW a \in Nat, NEW n \in Nat \ {0}
  PROVE  /\ RegionOf(a, n) = a .. a + n - 1
         /\ ~ (PosOf(a) # 0 /\ PosOf(a) + n < WordSize) => FillOf(a, n) = a .. a + n - 1
<1>1. WordSize = 4 \/ WordSize = 8
  BY DEF ReadWriteAssumption
<1>2. PICK first \in Nat, p \in 0 .. WordSize - 1 :
        first = WordOf(a) /\ p = PosOf(a) /\ first * WordSize + p = a
  <2>1. CASE WordSize = 4
    BY <2>1 DEF WordOf, PosOf
  <2>2. CASE WordSize = 8
    BY <2>2 DEF WordOf, PosOf
  <2>3. QED BY <1>1, <2>1, <2>2
<1>3. PICK last \in Nat, q \in 0 .. WordSize - 1 :
        last = WordOf(a + n - 1) /\ q = PosOf(a + n - 1) /\ last * WordSize + q = a + n - 1
  <2>1. CASE WordSize = 4
    BY <2>1 DEF WordOf, PosOf
  <2>2. CASE WordSize = 8
    BY <2>2 DEF WordOf, PosOf
  <2>3. QED BY <1>1, <2>1, <2>2
<1>4. first <= last
  BY <1>1, <1>2, <1>3
<1> DEFINE headed == p # 0 \/ first = last
           head == a .. (IF n < WordSize - p THEN a + n ELSE (first + 1) * WordSize) - 1
           next == IF headed THEN first + 1 ELSE first
           tail == Largest(next, last)
<1>5. RegionOf(a, n) = IF first = last THEN head
                       ELSE (IF headed THEN head ELSE {}) \cup (next * WordSize .. tail * WordSize + q)
  BY <1>2, <1>3, Zenon DEF RegionOf
<1>6. FillOf(a, n) = IF p # 0 /\ first = last THEN a .. (first + 1) * WordSize - 1
                     ELSE a .. last * WordSize + q
  BY <1>2, <1>3, Zenon DEF FillOf
<1>7. RegionOf(a, n) = a .. a + n - 1
  <2>1. CASE first = last
    <3>1. n < WordSize - p \/ (first + 1) * WordSize = a + n
      BY <1>1, <1>2, <1>3, <2>1
    <3>2. QED BY <1>5, <2>1, <3>1
  <2>2. CASE first < last
    <3>1. ~ (n < WordSize - p)
      BY <1>1, <1>2, <1>3, <2>2
    <3>2. tail = last
      BY <1>2, <1>3, <2>2 DEF Largest
    <3>3. headed => RegionOf(a, n) = (a .. (first + 1) * WordSize - 1)
                                     \cup ((first + 1) * WordSize .. a + n - 1)
      BY <1>3, <1>5, <2>2, <3>1, <3>2
    <3>4. ~ headed => RegionOf(a, n) = first * WordSize .. a + n - 1
      BY <1>3, <1>5, <2>2, <3>2
    <3>5. a <= (first + 1) * WordSize /\ (first + 1) * WordSize <= a + n - 1
      BY <1>1, <1>2, <1>3, <2>2
    <3>6. CASE headed
      <4>1. PICK m \in Nat : m = (first + 1) * WordSize
        BY <1>1
      <4>2. (a .. m - 1) \cup (m .. a + n - 1) = a .. a + n - 1
        BY <3>5, <4>1
      <4>3. QED BY <3>3, <3>6, <4>1, <4>2
    <3>7. CASE ~ headed
      <4>1. p = 0
        BY <3>7
      <4>2. first * WordSize = a
        BY <1>1, <1>2, <4>1
      <4>3. QED BY <3>4, <3>7, <4>2
    <3>8. QED BY <3>6, <3>7
  <2>3. QED BY <1>4, <2>1, <2>2
<1>8. ~ (p # 0 /\ p + n < WordSize) => FillOf(a, n) = a .. a + n - 1
  <2>1. p # 0 /\ first = last /\ ~ (p + n < WordSize) => (first + 1) * WordSize - 1 = a + n - 1
    <3>1. CASE WordSize = 4
      BY <1>2, <1>3, <3>1
    <3>2. CASE WordSize = 8
      BY <1>2, <1>3, <3>2
    <3>3. QED BY <1>1, <3>1, <3>2
  <2>2. QED BY <1>3, <1>6, <2>1
<1>9. QED BY <1>2, <1>7, <1>8

\* A region that is written with bytes.
LEMMA RegionPut ==
  ASSUME ReadWriteAssumption, LogInv, NEW a \in Nat, NEW n \in Nat \ {0}, NEW bytes, NEW junk \in Byte,
         \A i \in 0 .. n - 1 : bytes[i] \in Byte,
         WriteBytes(a, a .. a + n - 1, bytes, junk), UNCHANGED memory
  PROVE  LogInv' /\ Overwritten(a, n, bytes)
<1>1. \A b \in a .. a + n - 1 : b - a \in 0 .. n - 1
  OBVIOUS
<1>2. \A b \in a .. a + n - 1 : bytes[b - a] \in Byte
  BY <1>1
<1>3. QED BY <1>2, BytesPut DEF Overwritten

\* What read_region reads.
LEMMA RegionRead ==
  ASSUME ReadWriteAssumption, LogInv, NEW a \in Nat, NEW n \in Nat \ {0}, Fits(a, n)
  PROVE  /\ ReadRegion(a, n) = [i \in 0 .. n - 1 |-> View[a + i]]
         /\ ReadRegion(a, n) \in [0 .. n - 1 -> Byte]
         /\ \A i \in 0 .. n - 1 : a + i \in Address
<1>1. \A i \in 0 .. n - 1 : a + i \in Address
  <2>1. PICK m \in Int : m = WordSize * Words
    <3>1. WordSize = 4 \/ WordSize = 8
      BY DEF ReadWriteAssumption
    <3>2. PICK k \in Nat : k = Words
      BY DEF ReadWriteAssumption
    <3>3. QED BY <3>1, <3>2
  <2>2. QED BY <2>1 DEF Fits, Address
<1>2. ReadRegion(a, n) = [i \in 0 .. n - 1 |-> View[a + i]]
  BY <1>1 DEF ReadRegion, View
<1>3. QED BY <1>1, <1>2, ViewType

----------------------------------------------------------------------------
(* Sorting *)

\* A set of numbers has a least one.
LEMMA LeastOf == ASSUME NEW S, S \subseteq Nat, S # {} PROVE \E m \in S : \A n \in S : m <= n
<1> DEFINE R == {p \in Nat \X Nat : p[1] < p[2]}
<1>1. IsWellFoundedOn(R, Nat)
  BY NatLessThanWellFounded DEF OpToRel
<1>2. PICK m \in S : \A n \in S : <<n, m>> \notin R
  <2> HIDE DEF R
  <2>1. QED BY <1>1, WFMin
<1>3. ASSUME NEW n \in S PROVE m <= n
  <2>1. <<n, m>> \in Nat \X Nat => ~ (n < m)
    BY <1>2
  <2>2. m \in Nat /\ n \in Nat
    OBVIOUS
  <2>3. QED BY <2>1, <2>2
<1>4. QED BY <1>3

\* Those of n bytes that are less than v, not greater than v, and v.
Below(f, n, v) == {i \in 0 .. n - 1 : f[i] < v}
UpTo(f, n, v) == {i \in 0 .. n - 1 : f[i] <= v}
Equal(f, n, v) == {i \in 0 .. n - 1 : f[i] = v}

\* How many they are, for greater and greater v.
LEMMA Shares ==
  ASSUME NEW n \in Nat, NEW f \in [0 .. n - 1 -> Byte], NEW v \in Byte
  PROVE  /\ Cardinality(Below(f, n, v)) \in Nat /\ Cardinality(UpTo(f, n, v)) \in Nat
         /\ Cardinality(Equal(f, n, v)) \in Nat
         /\ Cardinality(UpTo(f, n, v)) = Cardinality(Below(f, n, v)) + Cardinality(Equal(f, n, v))
         /\ Cardinality(UpTo(f, n, v)) <= n
         /\ v = 0 => Cardinality(Below(f, n, v)) = 0
         /\ v = 3 => Cardinality(UpTo(f, n, v)) = n
         /\ \A u \in Byte : u < v => Cardinality(UpTo(f, n, u)) <= Cardinality(Below(f, n, v))
         /\ v # 0 => v - 1 \in Byte /\ Below(f, n, v) = UpTo(f, n, v - 1)
<1> DEFINE D == 0 .. n - 1
<1>1. IsFiniteSet(D) /\ Cardinality(D) = n
  BY FS_Interval
<1>2. Below(f, n, v) \in SUBSET D /\ UpTo(f, n, v) \in SUBSET D /\ Equal(f, n, v) \in SUBSET D
  BY DEF Below, UpTo, Equal
<1>3. IsFiniteSet(Below(f, n, v)) /\ IsFiniteSet(UpTo(f, n, v)) /\ IsFiniteSet(Equal(f, n, v))
      /\ Cardinality(UpTo(f, n, v)) <= n
  <2> HIDE DEF D
  <2>1. QED BY <1>1, <1>2, FS_Subset
<1>4. /\ Cardinality(Below(f, n, v)) \in Nat /\ Cardinality(UpTo(f, n, v)) \in Nat
      /\ Cardinality(Equal(f, n, v)) \in Nat
  BY <1>3, FS_CardinalityType
<1>5. \A i \in 0 .. n - 1 : f[i] \in 0 .. 3
  BY DEF Byte
<1>6. v \in 0 .. 3
  BY DEF Byte
<1>7. Cardinality(UpTo(f, n, v)) = Cardinality(Below(f, n, v)) + Cardinality(Equal(f, n, v))
  <2>1. UpTo(f, n, v) = Below(f, n, v) \cup Equal(f, n, v) /\ Below(f, n, v) \cap Equal(f, n, v) = {}
    BY <1>5, <1>6 DEF Below, UpTo, Equal
  <2>2. Cardinality({}) = 0
    BY FS_EmptySet
  <2>3. Cardinality(Below(f, n, v) \cup Equal(f, n, v))
        = Cardinality(Below(f, n, v)) + Cardinality(Equal(f, n, v))
          - Cardinality(Below(f, n, v) \cap Equal(f, n, v))
    BY <1>3, FS_Union
  <2>4. Cardinality(UpTo(f, n, v)) = Cardinality(Below(f, n, v)) + Cardinality(Equal(f, n, v)) - 0
    BY <2>1, <2>2, <2>3
  <2>5. QED BY <1>4, <2>4
<1>8. v = 0 => Cardinality(Below(f, n, v)) = 0
  <2>1. v = 0 => Below(f, n, v) = {}
    BY <1>5 DEF Below
  <2>2. QED BY <2>1, FS_EmptySet
<1>9. v = 3 => Cardinality(UpTo(f, n, v)) = n
  <2>1. v = 3 => UpTo(f, n, v) = D
    BY <1>5 DEF UpTo
  <2>2. QED BY <1>1, <2>1
<1>10. ASSUME NEW u \in Byte, u < v PROVE Cardinality(UpTo(f, n, u)) <= Cardinality(Below(f, n, v))
  <2>1. u \in 0 .. 3
    BY DEF Byte
  <2>2. UpTo(f, n, u) \in SUBSET Below(f, n, v)
    BY <1>5, <1>6, <1>10, <2>1 DEF UpTo, Below
  <2>3. QED BY <1>3, <2>2, FS_Subset
<1>11. v # 0 => v - 1 \in Byte /\ Below(f, n, v) = UpTo(f, n, v - 1)
  BY <1>5, <1>6 DEF Byte, Below, UpTo
<1>12. QED BY <1>3, <1>4, <1>7, <1>8, <1>9, <1>10, <1>11

\* Sorted is a permutation in order: for every k there is a v, the least that
\* more than k bytes are not greater than, and every v has its range of k.
LEMMA SortedIs ==
  ASSUME NEW n \in Nat, NEW f \in [0 .. n - 1 -> Byte]
  PROVE  /\ Sorted(f, n) \in [0 .. n - 1 -> Byte]
         /\ \A j, k \in 0 .. n - 1 : j < k => Sorted(f, n)[j] <= Sorted(f, n)[k]
         /\ \A v \in Byte : Cardinality(Equal(Sorted(f, n), n, v)) = Cardinality(Equal(f, n, v))
<1> DEFINE s == Sorted(f, n)
           below(v) == Cardinality(Below(f, n, v))
           upto(v) == Cardinality(UpTo(f, n, v))
<1>1. \A v \in Byte : /\ below(v) \in Nat /\ upto(v) \in Nat /\ upto(v) <= n
                      /\ v = 0 => below(v) = 0
                      /\ v = 3 => upto(v) = n
                      /\ v # 0 => v - 1 \in Byte /\ below(v) = upto(v - 1)
                      /\ \A u \in Byte : u < v => upto(u) <= below(v)
  BY Shares
<1>2. \A v \in Byte : v \in 0 .. 3
  BY DEF Byte
<1> HIDE DEF below, upto
<1>3. ASSUME NEW k \in 0 .. n - 1 PROVE \E v \in Byte : below(v) <= k /\ k < upto(v)
  <2> DEFINE S == {v \in Byte : k < upto(v)}
  <2>1. 3 \in Byte
    BY DEF Byte
  <2>2. 3 \in S /\ S \subseteq Nat
    BY <1>1, <1>2, <2>1
  <2>3. PICK v \in S : \A u \in S : v <= u
    BY <2>2, LeastOf
  <2>4. v \in Byte /\ k < upto(v) /\ v \in 0 .. 3
    BY <1>2, <2>3
  <2>5. below(v) <= k
    <3>1. CASE v = 0
      BY <1>1, <2>4, <3>1
    <3>2. CASE v # 0
      <4>1. v - 1 \in Byte /\ below(v) = upto(v - 1) /\ upto(v - 1) \in Nat
        BY <1>1, <2>4, <3>2
      <4>2. v - 1 \notin S
        BY <2>3, <2>4
      <4>3. ~ (k < upto(v - 1))
        BY <4>1, <4>2
      <4>4. QED BY <4>1, <4>3
    <3>3. QED BY <3>1, <3>2
  <2>6. QED BY <2>4, <2>5
<1>4. s = [k \in 0 .. n - 1 |-> CHOOSE v \in Byte : below(v) <= k /\ upto(v) > k]
  BY Zenon DEF Sorted, below, upto, Below, UpTo
<1>5. ASSUME NEW k \in 0 .. n - 1 PROVE s[k] \in Byte /\ below(s[k]) <= k /\ k < upto(s[k])
  <2>1. s[k] = CHOOSE v \in Byte : below(v) <= k /\ upto(v) > k
    BY <1>4
  <2>2. \E v \in Byte : below(v) <= k /\ upto(v) > k
    <3>1. PICK v \in Byte : below(v) <= k /\ k < upto(v)
      BY <1>3
    <3>2. upto(v) > k
      BY <1>1, <3>1
    <3>3. QED BY <3>1, <3>2
  <2>3. s[k] \in Byte /\ below(s[k]) <= k /\ upto(s[k]) > k
    <3> HIDE DEF s
    <3>1. QED BY <2>1, <2>2
  <2>4. upto(s[k]) \in Nat
    BY <1>1, <2>3
  <2>5. QED BY <2>3, <2>4
<1>6. s \in [0 .. n - 1 -> Byte]
  BY <1>4, <1>5
<1> HIDE DEF s
<1>7. ASSUME NEW j \in 0 .. n - 1, NEW k \in 0 .. n - 1, j < k PROVE s[j] <= s[k]
  <2>1. s[j] \in Byte /\ s[k] \in Byte /\ s[j] \in 0 .. 3 /\ s[k] \in 0 .. 3
    BY <1>2, <1>5
  <2>2. s[k] < s[j] => upto(s[k]) <= below(s[j])
    BY <1>1, <2>1
  <2>3. below(s[j]) <= j /\ k < upto(s[k]) /\ upto(s[k]) \in Nat /\ below(s[j]) \in Nat
    BY <1>1, <1>5
  <2>4. QED BY <1>7, <2>1, <2>2, <2>3
<1>8. ASSUME NEW v \in Byte PROVE Cardinality(Equal(s, n, v)) = Cardinality(Equal(f, n, v))
  <2>1. below(v) \in Nat /\ upto(v) \in Nat /\ upto(v) <= n /\ v \in 0 .. 3
    BY <1>1, <1>2
  <2>2. ASSUME NEW k \in 0 .. n - 1 PROVE s[k] = v <=> below(v) <= k /\ k < upto(v)
    <3>1. s[k] \in Byte /\ s[k] \in 0 .. 3 /\ below(s[k]) <= k /\ k < upto(s[k])
      BY <1>2, <1>5
    <3>2. below(s[k]) \in Nat /\ upto(s[k]) \in Nat
      BY <1>1, <3>1
    <3>3. s[k] < v => upto(s[k]) <= below(v)
      BY <1>1, <3>1
    <3>4. v < s[k] => upto(v) <= below(s[k])
      BY <1>1, <3>1
    <3>5. s[k] = v \/ s[k] < v \/ v < s[k]
      BY <2>1, <3>1
    <3>6. QED BY <2>1, <3>1, <3>2, <3>3, <3>4, <3>5
  <2>3. Equal(s, n, v) = below(v) .. upto(v) - 1
    BY <2>1, <2>2 DEF Equal
  <2>4. upto(v) = below(v) + Cardinality(Equal(f, n, v)) /\ Cardinality(Equal(f, n, v)) \in Nat
    BY Shares DEF below, upto
  <2>5. PICK p \in Int, q \in Int : p = below(v) /\ q = upto(v) - 1
    BY <2>1
  <2>6. Cardinality(p .. q) = IF p > q THEN 0 ELSE q - p + 1
    BY FS_Interval
  <2>7. Equal(s, n, v) = p .. q
    BY <2>3, <2>5
  <2>8. QED BY <2>1, <2>4, <2>5, <2>6, <2>7
<1>9. QED BY <1>6, <1>7, <1>8 DEF s

----------------------------------------------------------------------------
(* The transaction implements an array of bytes *)

\* Overwritten, as ByteTx says it.
LEMMA Overwrites ==
  ASSUME NEW a, NEW n, NEW bytes, Overwritten(a, n, bytes)
  PROVE  View' = Bytes!Overwrite(View, a, n, bytes)
BY DEF Overwritten, Bytes!Overwrite, Bytes!Address, Address

\* What the program passes, one by one.
LEMMA SizesAre ==
  ASSUME ReadWriteAssumption
  PROVE  /\ \A size \in Sizes : size \in {1, 2, 4, 8}
         /\ \A n \in Lengths : n \in Nat \ {0}
         /\ \A a \in Starts : a \in Nat
         /\ \A c \in Values : c \in Byte /\ c \in Nat
         /\ \A junk \in Junk : junk \in Byte
<1>1. /\ \A size \in Sizes : size \in {1, 2, 4, 8}
      /\ \A n \in Lengths : n \in Nat \ {0}
      /\ \A a \in Starts : a \in Nat
      /\ \A c \in Values : c \in Byte
      /\ \A junk \in Junk : junk \in Byte
  BY Zenon DEF ReadWriteAssumption
<1>2. \A c \in Byte : c \in Nat
  BY DEF Byte
<1>3. QED BY <1>1, <1>2

\* Every action keeps the log typed and is a step of ByteTx: aligned values,
LEMMA AlignedStep ==
  ASSUME ReadWriteAssumption, LogInv, StoreAligned PROVE LogInv' /\ Bytes!BNext
<1>1. PICK size \in Sizes, a \in Address, base \in Values, junk \in Junk :
        Fits(a, size) /\ a % size = 0 /\ WriteAligned(a, size, base, junk)
  BY DEF StoreAligned
<1>2. UNCHANGED memory
  BY DEF StoreAligned, Stores
<1>3. size \in {1, 2, 4, 8} /\ base \in Nat /\ junk \in Byte
  BY SizesAre
<1>4. LogInv' /\ Overwritten(a, size, Pattern(size, base))
  BY <1>1, <1>2, <1>3, AlignedPut
<1>5. Bytes!BStore(size, a, base)
  BY <1>2, <1>4, Overwrites DEF Bytes!BStore, Bytes!Pattern, Pattern
<1>6. a \in Bytes!Address /\ Bytes!Fits(a, size)
  BY <1>1 DEF Bytes!Fits, Fits, Bytes!Address, Address
<1>7. QED BY <1>4, <1>5, <1>6 DEF Bytes!BNext

\* values of which the caller does not know that they are aligned,
LEMMA ValueStep ==
  ASSUME ReadWriteAssumption, LogInv, StoreValue PROVE LogInv' /\ Bytes!BNext
<1>1. PICK size \in Sizes \ {1}, a \in Address, base \in Values, junk \in Junk :
        /\ Fits(a, size) /\ WriteValue(a, size, base, junk)
        /\ IF a % size = 0 THEN "value" \in Calls ELSE "unaligned" \in Calls
  BY DEF StoreValue
<1>2. UNCHANGED memory
  BY DEF StoreValue, Stores
<1>3. size \in {2, 4, 8} /\ base \in Nat /\ junk \in Byte
  BY SizesAre
<1>4. a % size = 0 /\ WordSize = 4
  BY <1>1 DEF ReadWriteAssumption
<1>5. LogInv' /\ Overwritten(a, size, Pattern(size, base))
  BY <1>1, <1>2, <1>3, <1>4, UnionPut
<1>6. Bytes!BStore(size, a, base)
  BY <1>2, <1>5, Overwrites DEF Bytes!BStore, Bytes!Pattern, Pattern
<1>7. a \in Bytes!Address /\ Bytes!Fits(a, size)
  BY <1>1 DEF Bytes!Fits, Fits, Bytes!Address, Address
<1>8. QED BY <1>5, <1>6, <1>7 DEF Bytes!BNext

\* regions,
LEMMA RegionStep ==
  ASSUME ReadWriteAssumption, LogInv, StoreRegion PROVE LogInv' /\ Bytes!BNext
<1>1. PICK n \in Lengths, a \in Starts, base \in Values, junk \in Junk :
        Fits(a, n) /\ WriteBytes(a, RegionOf(a, n), Pattern(n, base), junk)
  BY DEF StoreRegion
<1>2. UNCHANGED memory
  BY DEF StoreRegion, Stores
<1>3. n \in Nat \ {0} /\ a \in Nat /\ base \in Nat /\ junk \in Byte
  BY SizesAre
<1>4. WriteBytes(a, a .. a + n - 1, Pattern(n, base), junk)
  BY <1>1, <1>3, RegionIs
<1>5. \A i \in 0 .. n - 1 : Pattern(n, base)[i] \in Byte
  BY <1>3, PatternType
<1>6. LogInv' /\ Overwritten(a, n, Pattern(n, base))
  BY <1>2, <1>3, <1>4, <1>5, RegionPut
<1>7. Bytes!BStore(n, a, base)
  BY <1>2, <1>6, Overwrites DEF Bytes!BStore, Bytes!Pattern, Pattern
<1>8. Bytes!Fits(a, n)
  BY <1>1 DEF Bytes!Fits, Fits, Bytes!Address, Address
<1>9. QED BY <1>6, <1>7, <1>8 DEF Bytes!BNext

\* fills,
LEMMA MemsetStep ==
  ASSUME ReadWriteAssumption, LogInv, Memset PROVE LogInv' /\ Bytes!BNext
<1>1. PICK n \in Lengths, a \in Starts, c \in Values, junk \in Junk :
        /\ Fits(a, n)
        /\ IF PosOf(a) # 0 /\ PosOf(a) + n < WordSize THEN "memset inside" \in Calls
           ELSE "memset" \in Calls
        /\ WriteBytes(a, FillOf(a, n), [i \in 0 .. Largest(n, WordSize) - 1 |-> c], junk)
  BY DEF Memset
<1>2. UNCHANGED memory
  BY DEF Memset, Stores
<1>3. n \in Nat \ {0} /\ a \in Nat /\ c \in Byte /\ junk \in Byte
  BY SizesAre
<1>4. ~ (PosOf(a) # 0 /\ PosOf(a) + n < WordSize)
  BY <1>1 DEF ReadWriteAssumption
<1> DEFINE bytes == [i \in 0 .. Largest(n, WordSize) - 1 |-> c]
<1>5. WriteBytes(a, a .. a + n - 1, bytes, junk)
  BY <1>1, <1>3, <1>4, RegionIs
<1>6. \A i \in 0 .. n - 1 : i \in 0 .. Largest(n, WordSize) - 1
  BY <1>3, Numbers DEF Largest
<1>7. \A i \in 0 .. n - 1 : bytes[i] = c
  BY <1>6
<1> HIDE DEF bytes
<1>8. LogInv' /\ Overwritten(a, n, bytes)
  BY <1>2, <1>3, <1>5, <1>7, RegionPut
<1>9. Overwritten(a, n, [i \in 0 .. n - 1 |-> c])
  <2>1. \A b \in a .. a + n - 1 : b - a \in 0 .. n - 1
    BY <1>3
  <2>2. \A b \in a .. a + n - 1 : bytes[b - a] = [i \in 0 .. n - 1 |-> c][b - a]
    BY <1>7, <2>1
  <2>3. QED BY <1>8, <2>2 DEF Overwritten
<1>10. Bytes!BFill(a, n, c)
  BY <1>2, <1>9, Overwrites DEF Bytes!BFill
<1>11. Bytes!Fits(a, n)
  BY <1>1 DEF Bytes!Fits, Fits, Bytes!Address, Address
<1>12. QED BY <1>8, <1>10, <1>11 DEF Bytes!BNext

\* moves, also of regions that overlap,
LEMMA MoveStep ==
  ASSUME ReadWriteAssumption, LogInv, Memmove PROVE LogInv' /\ Bytes!BNext
<1>1. PICK n \in Lengths, dest \in Starts, src \in Starts, junk \in Junk :
        /\ Fits(dest, n) /\ Fits(src, n)
        /\ WriteBytes(dest, RegionOf(dest, n), ReadRegion(src, n), junk)
  BY DEF Memmove
<1>2. UNCHANGED memory
  BY DEF Memmove, Stores
<1>3. n \in Nat \ {0} /\ dest \in Nat /\ src \in Nat /\ junk \in Byte
  BY SizesAre
<1>4. /\ ReadRegion(src, n) = [i \in 0 .. n - 1 |-> View[src + i]]
      /\ \A i \in 0 .. n - 1 : ReadRegion(src, n)[i] \in Byte
  BY <1>1, <1>3, RegionRead
<1>5. WriteBytes(dest, dest .. dest + n - 1, ReadRegion(src, n), junk)
  BY <1>1, <1>3, RegionIs
<1>6. LogInv' /\ Overwritten(dest, n, ReadRegion(src, n))
  BY <1>2, <1>3, <1>4, <1>5, RegionPut
<1>7. Bytes!BMove(dest, src, n)
  BY <1>2, <1>4, <1>6, Overwrites DEF Bytes!BMove
<1>8. Bytes!Fits(dest, n) /\ Bytes!Fits(src, n)
  BY <1>1 DEF Bytes!Fits, Fits, Bytes!Address, Address
<1>9. QED BY <1>6, <1>7, <1>8 DEF Bytes!BNext

\* sorts,
LEMMA SortStep ==
  ASSUME ReadWriteAssumption, LogInv, Qsort PROVE LogInv' /\ Bytes!BNext
<1>1. PICK n \in Lengths, a \in Starts, junk \in Junk :
        Fits(a, n) /\ WriteBytes(a, RegionOf(a, n), Sorted(ReadRegion(a, n), n), junk)
  BY DEF Qsort
<1>2. UNCHANGED memory
  BY DEF Qsort, Stores
<1>3. n \in Nat \ {0} /\ a \in Nat /\ junk \in Byte
  BY SizesAre
<1>4. PICK f \in [0 .. n - 1 -> Byte] : f = ReadRegion(a, n) /\ \A i \in 0 .. n - 1 : f[i] = View[a + i]
  BY <1>1, <1>3, RegionRead
<1>5. \A i \in 0 .. n - 1 : a + i \in Address
  BY <1>1, <1>3, RegionRead
<1> DEFINE s == Sorted(f, n)
<1>6. /\ s \in [0 .. n - 1 -> Byte]
      /\ \A j, k \in 0 .. n - 1 : j < k => s[j] <= s[k]
      /\ \A v \in Byte : Cardinality(Equal(s, n, v)) = Cardinality(Equal(f, n, v))
  BY <1>3, SortedIs
<1> HIDE DEF s
<1>7. WriteBytes(a, a .. a + n - 1, s, junk)
  BY <1>1, <1>3, <1>4, RegionIs DEF s
<1>8. LogInv' /\ Overwritten(a, n, s)
  BY <1>2, <1>3, <1>6, <1>7, RegionPut
<1>9. \A i \in 0 .. n - 1 : View'[a + i] = s[i]
  <2> SUFFICES ASSUME NEW i \in 0 .. n - 1 PROVE View'[a + i] = s[i]
    OBVIOUS
  <2>1. PICK b \in Address : b = a + i
    BY <1>5
  <2>2. b \in a .. a + n - 1 /\ b - a = i
    BY <1>3, <2>1
  <2>3. View'[b] = s[b - a]
    BY <1>8, <2>2 DEF Overwritten
  <2>4. QED BY <2>1, <2>2, <2>3
<1>10. Bytes!BSort(a, n)
  <2>1. View' \in [Address -> Byte]
    <3>1. ReadWriteAssumption /\ LogInv' => ViewTyping'
      BY ViewTyped, PTL
    <3>2. QED BY <1>8, <3>1 DEF ViewTyping
  <2>2. \A b \in Address : b \notin a .. a + n - 1 => View'[b] = View[b]
    BY <1>8 DEF Overwritten
  <2>3. \A i, j \in 0 .. n - 1 : i < j => View'[a + i] <= View'[a + j]
    BY <1>6, <1>9
  <2>4. ASSUME NEW v \in Byte
        PROVE  Cardinality({i \in 0 .. n - 1 : View'[a + i] = v}) = Cardinality({i \in 0 .. n - 1 : View[a + i] = v})
    <3>1. {i \in 0 .. n - 1 : View'[a + i] = v} = Equal(s, n, v)
      BY <1>9 DEF Equal
    <3>2. {i \in 0 .. n - 1 : View[a + i] = v} = Equal(f, n, v)
      BY <1>4 DEF Equal
    <3>3. QED BY <1>6, <3>1, <3>2
  <2>5. QED BY <1>2, <2>1, <2>2, <2>3, <2>4 DEF Bytes!BSort, Bytes!Address, Address, Bytes!Cardinality, Cardinality
<1>11. Bytes!Fits(a, n)
  BY <1>1 DEF Bytes!Fits, Fits, Bytes!Address, Address
<1>12. QED BY <1>8, <1>10, <1>11 DEF Bytes!BNext

\* With an empty log the transaction sees memory.
NothingLogged == log = [w \in Word |-> NoLog]
MemoryTyping == memory \in [Address -> Byte]
SeesMemory == View = memory
\* And what it sees are bytes.
LEMMA NoLogView == ReadWriteAssumption /\ MemoryTyping /\ NothingLogged => LogInv /\ SeesMemory
<1> SUFFICES ASSUME ReadWriteAssumption, memory \in [Address -> Byte], NothingLogged
             PROVE  LogInv /\ View = memory
  BY DEF MemoryTyping, SeesMemory
<1>1. NoLog \in Entry /\ \A i \in Index : NoLog.mask[i] # All
  BY DEF NoLog, Entry, Masks, Byte, None, All
<1>2. LogInv
  BY <1>1 DEF LogInv, NothingLogged
<1>3. ASSUME NEW b \in Address PROVE View[b] = memory[b]
  <2>1. WordOf(b) \in Word /\ PosOf(b) \in Index /\ WordOf(b) * WordSize + PosOf(b) = b
    BY Locate
  <2>2. PICK w \in Word, i \in Index : w * WordSize + i = b
    BY <2>1
  <2>3. log[w].mask[i] # All
    BY <1>1 DEF NothingLogged
  <2>4. QED BY <1>2, <2>2, <2>3, ViewIs
<1>4. View = [b \in Address |-> View[b]] /\ memory = [b \in Address |-> memory[b]]
  BY DEF View
<1>5. QED BY <1>2, <1>3, <1>4

\* and the two ends.
LEMMA EndStep ==
  ASSUME ReadWriteAssumption, LogInv, Commit \/ Rollback PROVE LogInv' /\ Bytes!BNext
<1>1. ReadWriteAssumption /\ memory' \in [Address -> Byte] /\ NothingLogged' => LogInv' /\ View' = memory'
  <2>1. ReadWriteAssumption /\ MemoryTyping' /\ NothingLogged' => LogInv' /\ SeesMemory'
    BY NoLogView, PTL
  <2>2. QED BY <2>1 DEF MemoryTyping, SeesMemory
<1>2. CASE Commit
  <2>1. memory' = View /\ NothingLogged'
    BY <1>2 DEF Commit, View, NothingLogged
  <2>2. memory' \in [Address -> Byte]
    BY <2>1, ViewType
  <2>3. QED BY <1>1, <2>1, <2>2 DEF Bytes!BNext, Bytes!BCommit
<1>3. CASE Rollback
  <2>1. memory' = memory /\ NothingLogged' /\ memory' \in [Address -> Byte]
    BY <1>3 DEF Rollback, NothingLogged, LogInv
  <2>2. QED BY <1>1, <2>1 DEF Bytes!BNext, Bytes!BAbort
<1>4. QED BY <1>2, <1>3

\* Memory is zero, and nothing is logged.
LEMMA BytesInit == ReadWriteAssumption /\ Init => LogInv /\ Bytes!BInit
<1> SUFFICES ASSUME ReadWriteAssumption, Init PROVE LogInv /\ Bytes!BInit
  OBVIOUS
<1>1. memory \in [Address -> Byte] /\ NothingLogged
  BY DEF Init, Byte, NothingLogged
<1>2. LogInv /\ View = memory
  BY <1>1, NoLogView DEF MemoryTyping, SeesMemory
<1>3. QED BY <1>2 DEF Bytes!BInit, Init, Bytes!Address, Address

\* All steps.
LEMMA BytesStep ==
  ReadWriteAssumption /\ LogInv /\ [Next]_rwvars => LogInv' /\ [Bytes!BNext]_(Bytes!bvars)
<1> SUFFICES ASSUME ReadWriteAssumption, LogInv, [Next]_rwvars
             PROVE  LogInv' /\ [Bytes!BNext]_(Bytes!bvars)
  OBVIOUS
<1>1. CASE UNCHANGED rwvars
  <2>1. LogInv'
    BY <1>1 DEF LogInv, rwvars
  <2>2. View' = View
    BY <1>1 DEF View, ReadWord, InMemory, rwvars
  <2>3. QED BY <1>1, <2>1, <2>2 DEF Bytes!bvars, rwvars
<1>2. CASE Next
  BY <1>2, AlignedStep, ValueStep, RegionStep, MemsetStep, MoveStep, SortStep, EndStep DEF Next
<1>3. QED BY <1>1, <1>2

\* Stores of aligned values (of eight-byte words, through the interface for aligned
\* ones), regions, moves and sorts of at least one byte, and fills that do not start
\* and end inside one word, change exactly the bytes they name, whatever was written
\* to other parts of their words before; a commit makes memory what the transaction
\* saw, and a rollback leaves it alone.
THEOREM BytesAreStored == ASSUME ReadWriteAssumption PROVE Spec => StoresBytes
<1>1. Init => LogInv /\ Bytes!BInit
  BY BytesInit
<1>2. LogInv /\ [Next]_rwvars => LogInv' /\ [Bytes!BNext]_(Bytes!bvars)
  BY BytesStep
<1>3. QED BY <1>1, <1>2, PTL DEF Spec, StoresBytes, Bytes!BSpec

----------------------------------------------------------------------------
(* Reads *)

\* A byte that is k past an address, found by its word.
LEMMA BytePast ==
  ASSUME ReadWriteAssumption, LogInv, NEW first \in Nat, NEW k \in Nat, first * WordSize + k \in Address
  PROVE  /\ first + k \div WordSize \in Word /\ k % WordSize \in Index
         /\ ReadWord(first + k \div WordSize)[k % WordSize] = View[first * WordSize + k]
<1>1. WordSize = 4 \/ WordSize = 8
  BY DEF ReadWriteAssumption
<1>2. PICK d \in Nat, r \in 0 .. WordSize - 1 : d = k \div WordSize /\ r = k % WordSize /\ d * WordSize + r = k
  <2>1. CASE WordSize = 4
    BY <2>1
  <2>2. CASE WordSize = 8
    BY <2>2
  <2>3. QED BY <1>1, <2>1, <2>2
<1>3. (first + d) * WordSize + r = first * WordSize + k
  <2>1. CASE WordSize = 4
    BY <1>2, <2>1
  <2>2. CASE WordSize = 8
    BY <1>2, <2>2
  <2>3. QED BY <1>1, <2>1, <2>2
<1>4. PICK m \in Nat : m = Words
  BY DEF ReadWriteAssumption
<1>5. first + d < m
  <2>1. first * WordSize + k < WordSize * m
    <3>1. first * WordSize + k <= WordSize * m - 1
      BY <1>4 DEF Address
    <3>2. CASE WordSize = 4
      BY <3>1, <3>2
    <3>3. CASE WordSize = 8
      BY <3>1, <3>3
    <3>4. QED BY <1>1, <3>2, <3>3
  <2>2. CASE WordSize = 4
    BY <1>2, <1>3, <2>1, <2>2
  <2>3. CASE WordSize = 8
    BY <1>2, <1>3, <2>1, <2>3
  <2>4. QED BY <1>1, <2>2, <2>3
<1>6. first + d \in Word /\ r \in Index
  BY <1>2, <1>4, <1>5 DEF Word, Index
<1>7. PICK w \in Word : w = first + d
  BY <1>6
<1>8. View[w * WordSize + r] = ReadWord(w)[r]
  BY <1>6, ViewIs
<1>9. QED BY <1>2, <1>3, <1>6, <1>7, <1>8

\* An address is its word and position.
LEMMA Split ==
  ASSUME ReadWriteAssumption, NEW a \in Nat
  PROVE  WordOf(a) \in Nat /\ PosOf(a) \in 0 .. WordSize - 1 /\ WordOf(a) * WordSize + PosOf(a) = a
<1>1. WordSize = 4 \/ WordSize = 8
  BY DEF ReadWriteAssumption
<1>2. CASE WordSize = 4
  BY <1>2 DEF WordOf, PosOf
<1>3. CASE WordSize = 8
  BY <1>3 DEF WordOf, PosOf
<1>4. QED BY <1>1, <1>2, <1>3

\* read8 to read64, aligned or not known to be.
LEMMA ValueRead ==
  ASSUME ReadWriteAssumption, LogInv, NEW size \in {1, 2, 4, 8}, NEW a \in Address,
         a % size = 0, Fits(a, size), NEW i \in 0 .. size - 1
  PROVE  ReadAligned(a, size)[i] = View[a + i] /\ ReadValue(a, size)[i] = View[a + i]
<1>1. a \in Nat /\ WordSize \in {4, 8}
  BY Numbers DEF ReadWriteAssumption
<1>2. PICK first \in Nat, p \in 0 .. WordSize - 1 : first = WordOf(a) /\ p = PosOf(a) /\ first * WordSize + p = a
  BY <1>1, Split
<1>3. /\ (IF size >= WordSize THEN 0 ELSE (p \div size) * size) = p
      /\ Offset(p, size) = p
      /\ size < WordSize => p + size <= WordSize
      /\ size >= WordSize => p = 0
  BY <1>2, PlaceOf
<1>4. PICK k \in Nat : k = p + i
  BY <1>2
<1>5. k \in 0 .. 3 * WordSize - 1
  BY <1>1, <1>2, <1>3, <1>4
<1>6. first * WordSize + k = a + i /\ a + i \in Address
  <2>1. PICK f \in Nat : f = first * WordSize /\ f + p = a
    BY <1>1, <1>2
  <2>2. f + k = a + i
    BY <1>4, <2>1
  <2>3. PICK m \in Int : m = WordSize * Words
    <3>1. PICK n \in Nat : n = Words
      BY DEF ReadWriteAssumption
    <3>2. QED BY <1>1, <3>1
  <2>4. a + i \in Address
    BY <1>1, <2>3 DEF Fits, Address
  <2>5. QED BY <2>1, <2>2, <2>4
<1>7. /\ first + k \div WordSize \in Word
      /\ ReadWord(first + k \div WordSize)[k % WordSize] = View[a + i]
  BY <1>6, BytePast
<1>8. Buffer(first)[k] = View[a + i]
  BY <1>5, <1>7 DEF Buffer
<1>9. ReadAligned(a, size)[i] = Buffer(first)[p + i]
  BY <1>2, <1>3 DEF ReadAligned
<1>10. ReadValue(a, size)[i] = Buffer(first)[p + i]
  BY <1>2, <1>3 DEF ReadValue
<1>11. QED BY <1>4, <1>8, <1>9, <1>10

\* strncmp_tx: two strings are equal when their bytes are, up to where both end.
LEMMA Compared ==
  ASSUME ReadWriteAssumption, LogInv, NEW n \in Nat \ {0}, NEW a \in Nat, NEW b \in Nat, Fits(a, n), Fits(b, n)
  PROVE  (StrNCmp(a, b, n) = 0) <=>
            \A k \in 0 .. n - 1 : \/ View[a + k] = View[b + k]
                                 \/ \E j \in 0 .. k - 1 : View[a + j] = 0 /\ View[b + j] = 0
<1> DEFINE char(s, k) == ReadWord(WordOf(s) + (PosOf(s) + k) \div WordSize)[(PosOf(s) + k) % WordSize]
           stops(k) == char(a, k) # char(b, k) \/ char(a, k) = 0 \/ k = n - 1
           last == CHOOSE k \in 0 .. n - 1 : stops(k) /\ \A j \in 0 .. k - 1 : ~ stops(j)
<1>1. StrNCmp(a, b, n) = char(a, last) - char(b, last)
  BY Zenon DEF StrNCmp
<1>2. ASSUME NEW s \in {a, b}, NEW k \in 0 .. n - 1 PROVE char(s, k) = View[s + k] /\ View[s + k] \in Byte
  <2>1. s + k \in Address
    BY <1>2, RegionRead
  <2>2. WordSize \in {4, 8}
    BY DEF ReadWriteAssumption
  <2>3. PICK first \in Nat, p \in 0 .. WordSize - 1 : first = WordOf(s) /\ p = PosOf(s) /\ first * WordSize + p = s
    BY Split
  <2>4. PICK q \in Nat : q = p + k
    BY <2>2, <2>3
  <2>5. first * WordSize + q = s + k
    <3>1. PICK f \in Nat : f = first * WordSize /\ f + p = s
      BY <2>2, <2>3
    <3>2. QED BY <2>4, <3>1
  <2>6. ReadWord(first + q \div WordSize)[q % WordSize] = View[s + k]
    BY <2>1, <2>5, BytePast
  <2>7. View[s + k] \in Byte
    BY <2>1, ViewType
  <2>8. QED BY <2>3, <2>4, <2>6, <2>7
<1> HIDE DEF char
<1>3. \E k \in 0 .. n - 1 : stops(k) /\ \A j \in 0 .. k - 1 : ~ stops(j)
  <2> DEFINE S == {k \in 0 .. n - 1 : stops(k)}
  <2>1. n - 1 \in S /\ S \subseteq Nat
    OBVIOUS
  <2>2. PICK m \in S : \A k \in S : m <= k
    BY <2>1, LeastOf
  <2>3. \A j \in 0 .. m - 1 : j \notin S /\ j \in 0 .. n - 1
    BY <2>1, <2>2
  <2>4. QED BY <2>2, <2>3
<1>4. PICK m \in 0 .. n - 1 : m = last /\ stops(m) /\ \A j \in 0 .. m - 1 : ~ stops(j)
  <2> HIDE DEF stops
  <2>1. QED BY <1>3
<1>5. (StrNCmp(a, b, n) = 0) <=> View[a + m] = View[b + m]
  <2>1. StrNCmp(a, b, n) = char(a, m) - char(b, m)
    BY <1>1, <1>4
  <2>2. char(a, m) = View[a + m] /\ char(b, m) = View[b + m] /\ View[a + m] \in 0 .. 3 /\ View[b + m] \in 0 .. 3
    BY <1>2 DEF Byte
  <2>3. QED BY <2>1, <2>2
<1>6. ASSUME NEW k \in 0 .. n - 1
      PROVE  stops(k) <=> View[a + k] # View[b + k] \/ View[a + k] = 0 \/ k = n - 1
  BY <1>2
<1> HIDE DEF stops
<1>7. ASSUME View[a + m] = View[b + m], NEW k \in 0 .. n - 1
      PROVE  \/ View[a + k] = View[b + k]
             \/ \E j \in 0 .. k - 1 : View[a + j] = 0 /\ View[b + j] = 0
  <2>1. CASE k <= m
    <3>1. k = m \/ (k \in 0 .. m - 1 /\ ~ stops(k))
      BY <1>4, <2>1
    <3>2. QED BY <1>6, <1>7, <3>1
  <2>2. CASE k > m
    <3>1. m # n - 1 /\ m \in 0 .. k - 1
      BY <2>2
    <3>2. View[a + m] = 0
      BY <1>4, <1>6, <1>7, <3>1
    <3>3. QED BY <1>7, <3>1, <3>2
  <2>3. QED BY <2>1, <2>2
<1>8. ASSUME \A k \in 0 .. n - 1 : \/ View[a + k] = View[b + k]
                                 \/ \E j \in 0 .. k - 1 : View[a + j] = 0 /\ View[b + j] = 0
      PROVE  View[a + m] = View[b + m]
  <2>1. SUFFICES ASSUME NEW j \in 0 .. m - 1, View[a + j] = 0, View[b + j] = 0 PROVE FALSE
    BY <1>8
  <2>2. j \in 0 .. n - 1 /\ stops(j)
    BY <1>6, <2>1
  <2>3. QED BY <1>4, <2>2
<1>9. QED BY <1>5, <1>7, <1>8

\* All reads.
LEMMA Reads == ReadWriteAssumption /\ LogInv => ReadsBytes
<1> SUFFICES ASSUME ReadWriteAssumption, LogInv PROVE ReadsBytes
  OBVIOUS
<1>1. ASSUME NEW size \in Sizes, NEW a \in Address, a % size = 0, Fits(a, size), NEW i \in 0 .. size - 1
      PROVE  ReadAligned(a, size)[i] = View[a + i] /\ ReadValue(a, size)[i] = View[a + i]
  <2>1. size \in {1, 2, 4, 8}
    BY SizesAre
  <2>2. QED BY <1>1, <2>1, ValueRead
<1>2. ASSUME NEW n \in Lengths, NEW a \in Starts, NEW b \in Starts, Fits(a, n), Fits(b, n)
      PROVE  /\ RegionOf(a, n) = a .. a + n - 1
             /\ (StrNCmp(a, b, n) = 0) <=>
                  \A k \in 0 .. n - 1 : \/ View[a + k] = View[b + k]
                                       \/ \E j \in 0 .. k - 1 : View[a + j] = 0 /\ View[b + j] = 0
  <2>1. n \in Nat \ {0} /\ a \in Nat /\ b \in Nat
    BY SizesAre
  <2>2. QED BY <1>2, <2>1, RegionIs, Compared
<1>3. QED BY <1>1, <1>2 DEF ReadsBytes

\* Reads of aligned values and comparisons of strings see the bytes the transaction
\* has written on top of memory, and a region of at least one byte is the bytes it
\* names.
THEOREM BytesAreRead == ASSUME ReadWriteAssumption PROVE Spec => []ReadsBytes
<1>1. Init => LogInv
  BY BytesInit
<1>2. LogInv /\ [Next]_rwvars => LogInv'
  BY BytesStep
<1>3. LogInv => ReadsBytes
  BY Reads
<1>4. QED BY <1>1, <1>2, <1>3, PTL DEF Spec
=============================================================================
