------------------------------ MODULE BitpckProofs ------------------------------
(***************************************************************************)
(* What module Bitpck says of a block, for every width of a word and every *)
(* number of bits that are packed.                                         *)
(*                                                                         *)
(* The two words of a block are a row of 2 * WordBits bits, and the        *)
(* integers lie in it one behind the other: bit p of a block is bit        *)
(* p % nbits of the integer p \div nbits.                                  *)
(***************************************************************************)
EXTENDS Bitpck, BasicLemmas

\* Bit p of the row that two words make.
Bit(x, y, p) == IF p < WordBits THEN p \in x ELSE (p - WordBits) \in y

\* The words x and y hold count integers of the list, from the index first on, each
\* cut to nbits bits, and nothing else.
Holds(x, y, list, first, count, nbits) ==
  \A p \in 0..(2 * WordBits - 1) :
    Bit(x, y, p) <=> p < count * nbits /\ (p % nbits) \in list[first + (p \div nbits) + 1]

-------------------------------------------------------------------------------
(* Lemmas about words and blocks.                                           *)

\* What fits into a block, and into its lower word: the next integer would begin
\* there and end in the upper word.
LEMMA CapacityFacts ==
  ASSUME NEW nbits \in 1..WordBits
  PROVE  /\ Capacity(nbits) \in 2..(2 * WordBits)
         /\ LowCount(nbits) \in 1..WordBits
         /\ LowCount(nbits) < Capacity(nbits)
         /\ LowCount(nbits) * nbits \in Nat
         /\ LowCount(nbits) * nbits <= WordBits
         /\ WordBits < LowCount(nbits) * nbits + nbits
         /\ Capacity(nbits) * nbits \in Nat
         /\ Capacity(nbits) * nbits <= 2 * WordBits
<1> DEFINE c == Capacity(nbits)
           l == LowCount(nbits)
<1>1. 2 * WordBits \in Nat /\ nbits \in Nat \ {0} /\ WordBits \in Nat \ {0}
  BY WordAssumption
<1>2. /\ c \in Nat
      /\ \E r \in 0..(nbits - 1) : 2 * WordBits = c * nbits + r
  BY <1>1, Division DEF Capacity
<1>3. l \in Nat /\ \E e \in 0..1 : c = l * 2 + e
  <2> HIDE DEF c
  <2>1. /\ c \div 2 \in Nat
        /\ c % 2 \in 0..(2 - 1)
        /\ c = (c \div 2) * 2 + (c % 2)
    BY <1>2, Division
  <2>2. l = c \div 2
    BY DEF LowCount, c
  <2> QED BY <2>1, <2>2
<1> HIDE DEF c, l
<1>4. c * nbits \in Nat /\ l * nbits \in Nat
  BY <1>1, <1>2, <1>3, ProductType
<1>5. c * nbits <= 2 * WordBits /\ 2 * WordBits < c * nbits + nbits
  BY <1>1, <1>2, <1>4
<1>6. c >= 2
  <2>1. CASE c = 0
    BY <1>1, <1>5, <2>1
  <2>2. CASE c = 1
    BY <1>1, <1>5, <2>2
  <2> QED BY <1>2, <2>1, <2>2
<1>7. \/ c = l + l /\ c * nbits = l * nbits + l * nbits
      \/ c = l + l + 1 /\ c * nbits = l * nbits + l * nbits + nbits
  <2>1. CASE c = l + l
    BY <1>1, <1>3, <2>1
  <2>2. CASE c = l + l + 1
    BY <1>1, <1>3, <2>2
  <2> QED BY <1>3, <2>1, <2>2
<1>8. l * nbits <= WordBits /\ WordBits < l * nbits + nbits
  BY <1>1, <1>4, <1>5, <1>7
<1>9. c * 1 <= c * nbits
  BY <1>1, <1>2
<1>10. l >= 1 /\ l < c /\ c <= 2 * WordBits /\ l <= WordBits
  BY <1>1, <1>2, <1>3, <1>5, <1>6, <1>7, <1>9
<1> QED BY <1>1, <1>2, <1>3, <1>4, <1>5, <1>6, <1>8, <1>10 DEF c, l

\* A block takes at least one integer.
LEMMA CapacityType ==
  ASSUME NEW nbits \in 1..WordBits
  PROVE  Capacity(nbits) \in Nat \ {0}
<1>1. PICK c \in 2..(2 * WordBits) : c = Capacity(nbits)
  BY CapacityFacts
<1> QED BY <1>1, WordAssumption

\* The bits of a word that is shifted to the left.
LEMMA ShiftLeftBit ==
  ASSUME NEW x \in SUBSET Int, NEW k \in Int, NEW p \in Int
  PROVE  p \in ShiftLeft(x, k) <=> p \in Word /\ p - k \in x
<1>1. ASSUME p - k \in x, p \in Word PROVE p \in ShiftLeft(x, k)
  <2>1. p = (p - k) + k
    OBVIOUS
  <2> QED BY <1>1, <2>1 DEF ShiftLeft
<1>2. ASSUME p \in ShiftLeft(x, k) PROVE p \in Word /\ p - k \in x
  BY <1>2 DEF ShiftLeft
<1> QED BY <1>1, <1>2

\* A word that is shifted to the right in two steps, or in one.
LEMMA ShiftRightAgain ==
  ASSUME NEW x \in SUBSET Word, NEW a \in Nat, NEW b \in Nat
  PROVE  ShiftRight(ShiftRight(x, a), b) = ShiftRight(x, a + b)
<1>1. ASSUME NEW p \in Word
      PROVE  p + b \in ShiftRight(x, a) <=> p + (a + b) \in x
  <2>1. p \in Int /\ p >= 0 /\ (p + b) + a = p + (a + b)
    BY WordAssumption DEF Word
  <2>2. p + (a + b) \in x => p + b \in Word
    BY <2>1, WordAssumption DEF Word
  <2> QED BY <2>1, <2>2 DEF ShiftRight
<1> QED BY <1>1 DEF ShiftRight

\* A word that is not shifted.
LEMMA ShiftRightNone ==
  ASSUME NEW x \in SUBSET Word
  PROVE  ShiftRight(x, 0) = x
<1>1. \A p \in Word : p + 0 = p
  BY WordAssumption DEF Word
<1> QED BY <1>1 DEF ShiftRight

\* A row that takes one more integer behind the others.
LEMMA HoldsMore ==
  ASSUME NEW nbits \in 1..WordBits, NEW first \in Nat, NEW count \in Nat, NEW list,
         NEW x, NEW y, NEW x2, NEW y2,
         Holds(x, y, list, first, count, nbits),
         \A p \in 0..(2 * WordBits - 1) :
           Bit(x2, y2, p) <=> \/ Bit(x, y, p)
                              \/ /\ count * nbits <= p
                                 /\ p < count * nbits + nbits
                                 /\ p - count * nbits \in list[first + count + 1]
  PROVE  Holds(x2, y2, list, first, count + 1, nbits)
<1> SUFFICES ASSUME NEW p \in 0..(2 * WordBits - 1)
             PROVE  Bit(x2, y2, p) <=>
                      /\ p < (count + 1) * nbits
                      /\ (p % nbits) \in list[first + (p \div nbits) + 1]
  BY DEF Holds
<1> DEFINE q == p \div nbits
           r == p % nbits
           begin == count * nbits
           row == q * nbits
<1>1. p \in Nat /\ nbits \in Nat \ {0}
  BY WordAssumption
<1>2. q \in Nat /\ r \in 0..(nbits - 1) /\ p = row + r
  BY <1>1, Division
<1>3. begin \in Nat /\ row \in Nat /\ (count + 1) * nbits = begin + nbits
  BY <1>1, <1>2, ProductType, ProductNext
<1>4. Bit(x, y, p) <=> p < begin /\ r \in list[first + q + 1]
  BY DEF Holds
<1>5. Bit(x2, y2, p) <=> \/ Bit(x, y, p)
                         \/ /\ begin <= p /\ p < begin + nbits
                            /\ p - begin \in list[first + count + 1]
  OBVIOUS
<1>6. CASE q < count
  <2>1. row + nbits <= begin
    BY <1>1, <1>2, <1>6, RowsApart
  <2> HIDE DEF q, r, begin, row
  <2>2. p < begin
    BY <1>1, <1>2, <1>3, <2>1
  <2> QED BY <1>1, <1>3, <1>4, <1>5, <2>2 DEF q, r
<1>7. CASE q = count
  <2>1. row = begin
    BY <1>7
  <2> HIDE DEF q, r, begin, row
  <2>2. begin <= p /\ p < begin + nbits /\ p - begin = r
    BY <1>1, <1>2, <1>3, <2>1
  <2> QED BY <1>1, <1>3, <1>4, <1>5, <1>7, <2>2 DEF q, r
<1>8. CASE q > count
  <2>1. begin + nbits <= row
    BY <1>1, <1>2, <1>8, RowsApart
  <2> HIDE DEF q, r, begin, row
  <2>2. begin + nbits <= p
    BY <1>1, <1>2, <1>3, <2>1
  <2> QED BY <1>1, <1>3, <1>4, <1>5, <2>2 DEF q, r
<1> QED BY <1>2, <1>6, <1>7, <1>8

\* Where the integer of index i lies in a row.
LEMMA HeldInteger ==
  ASSUME NEW nbits \in 1..WordBits, NEW first \in Nat, NEW count \in Nat, NEW list,
         NEW x, NEW y, Holds(x, y, list, first, count, nbits),
         NEW i \in Nat, i < count, count * nbits <= 2 * WordBits,
         NEW k \in 0..(nbits - 1)
  PROVE  Bit(x, y, i * nbits + k) <=> k \in list[first + i + 1]
<1>1. nbits \in Nat \ {0} /\ i * nbits \in Nat /\ count * nbits \in Nat
  BY WordAssumption, ProductType
<1>2. i * nbits + nbits <= count * nbits
  BY <1>1, RowsApart
<1>3. (i * nbits + k) \div nbits = i /\ (i * nbits + k) % nbits = k
  BY <1>1, DivisionUnique
<1>4. PICK p : p = i * nbits + k
  OBVIOUS
<1>5. p \in 0..(2 * WordBits - 1) /\ p < count * nbits
  <2> DEFINE row == i * nbits
             end == count * nbits
  <2>1. row + nbits <= end /\ row \in Nat /\ end \in Nat /\ end <= 2 * WordBits
        /\ p = row + k
    BY <1>1, <1>2, <1>4
  <2> HIDE DEF row, end
  <2>2. p \in 0..(2 * WordBits - 1) /\ p < end
    BY <1>1, <2>1, WordAssumption
  <2> QED BY <2>2 DEF end
<1>6. p \div nbits = i /\ p % nbits = k
  BY <1>3, <1>4
<1>7. Bit(x, y, p) <=> k \in list[first + i + 1]
  BY <1>5, <1>6 DEF Holds
<1> QED BY <1>4, <1>7

\* How many blocks take a number of integers: all but the last are full.
LEMMA BlocksNeeded ==
  ASSUME NEW nbits \in 1..WordBits, NEW b \in Nat, NEW rest \in 1..Capacity(nbits)
  PROVE  BlockNumber(b * Capacity(nbits) + rest, nbits) = b + 1
<1> DEFINE c == Capacity(nbits)
<1>1. c \in Nat \ {0} /\ rest - 1 \in 0..(c - 1)
  BY CapacityFacts
<1> HIDE DEF c
<1>2. (b + 1) * c = b * c + c /\ b * c \in Nat
  BY <1>1, ProductNext, ProductType
<1>3. b * c + rest + c - 1 = (b + 1) * c + (rest - 1)
  <2> DEFINE x == b * c
             y == (b + 1) * c
  <2>1. x \in Nat /\ y = x + c
    BY <1>2
  <2> HIDE DEF x, y
  <2>2. x + rest + c - 1 = y + (rest - 1)
    BY <1>1, <2>1 DEF c
  <2> QED BY <2>2 DEF x, y
<1>4. ((b + 1) * c + (rest - 1)) \div c = b + 1
  <2>1. PICK q \in Nat : q = b + 1
    OBVIOUS
  <2>2. PICK r \in 0..(c - 1) : r = rest - 1
    BY <1>1
  <2>3. (q * c + r) \div c = q
    BY <1>1, DivisionUnique
  <2> QED BY <2>1, <2>2, <2>3
<1> QED BY <1>3, <1>4 DEF BlockNumber, c

\* No integers need no block.
LEMMA NoBlocksNeeded ==
  ASSUME NEW nbits \in 1..WordBits
  PROVE  BlockNumber(0, nbits) = 0
<1>1. Capacity(nbits) \in Nat \ {0}
  BY CapacityFacts
<1>2. (0 * Capacity(nbits) + (Capacity(nbits) - 1)) \div Capacity(nbits) = 0
  BY <1>1, DivisionUnique
<1> QED BY <1>1, <1>2 DEF BlockNumber

\* A block is needed for what full blocks leave.
LEMMA OneBlockMore ==
  ASSUME NEW nbits \in 1..WordBits, NEW b \in Nat, NEW count \in Nat,
         b * Capacity(nbits) < count
  PROVE  BlockNumber(count, nbits) \in Nat /\ b < BlockNumber(count, nbits)
<1> DEFINE c == Capacity(nbits)
           k == (count + c - 1) \div c
           r == (count + c - 1) % c
<1>1. c \in Nat \ {0}
  BY CapacityFacts
<1> HIDE DEF c
<1>2. count + c - 1 \in Nat
  BY <1>1
<1>3. k \in Nat /\ r \in 0..(c - 1) /\ count + c - 1 = k * c + r
  BY <1>1, <1>2, Division
<1>4. k * c \in Nat /\ b * c \in Nat
  BY <1>1, <1>3, ProductType
<1> HIDE DEF k, r
<1>5. count <= k * c
  <2> DEFINE x == k * c
  <2>1. x \in Nat /\ count + c - 1 = x + r
    BY <1>3, <1>4
  <2> HIDE DEF x
  <2>2. count <= x
    BY <1>1, <1>3, <2>1
  <2> QED BY <2>2 DEF x
<1>6. ~(k <= b)
  <2> SUFFICES ASSUME k <= b PROVE FALSE
    OBVIOUS
  <2>1. k * c <= b * c
    BY <1>1, <1>3, ProductOrder
  <2>2. b * c < count
    BY DEF c
  <2> QED BY <1>4, <1>5, <2>1, <2>2
<1> QED BY <1>3, <1>6 DEF k, c, BlockNumber

\* Words without bits hold no integer.
LEMMA HoldsNothing ==
  ASSUME NEW nbits \in 1..WordBits, NEW list, NEW first
  PROVE  Holds({}, {}, list, first, 0, nbits)
<1>1. \A p \in 0..(2 * WordBits - 1) : ~Bit({}, {}, p) /\ ~(p < 0 * nbits)
  BY WordAssumption DEF Bit
<1> QED BY <1>1 DEF Holds
-------------------------------------------------------------------------------
(* Whole blocks.                                                            *)

\* The integer that a bit of a row belongs to, and those in front of it.
LEMMA RowOfBit ==
  ASSUME NEW nbits \in 1..WordBits, NEW j \in Nat, NEW p \in Nat
  PROVE  /\ p - j * nbits \in 0..(nbits - 1) <=> j = p \div nbits
         /\ j = p \div nbits => p - j * nbits = p % nbits
         /\ p < j * nbits <=> p \div nbits < j
         /\ p \div nbits \in Nat
         /\ p % nbits \in 0..(nbits - 1)
<1> DEFINE q == p \div nbits
           r == p % nbits
           row == q * nbits
           place == j * nbits
<1>1. nbits \in Nat \ {0}
  BY WordAssumption
<1>2. q \in Nat /\ r \in 0..(nbits - 1) /\ p = row + r
  BY <1>1, Division
<1>3. row \in Nat /\ place \in Nat
  BY <1>1, <1>2, ProductType
<1>4. j = q => place = row
  OBVIOUS
<1>5. j < q => place + nbits <= row
  BY <1>1, <1>2, RowsApart
<1>6. q < j => row + nbits <= place
  BY <1>1, <1>2, RowsApart
<1> HIDE DEF q, r, row, place
<1>7. j = q \/ j < q \/ q < j
  BY <1>2
<1>8. CASE j = q
  BY <1>1, <1>2, <1>3, <1>4, <1>8 DEF q, r, place
<1>9. CASE j < q
  <2>1. ~(p - place \in 0..(nbits - 1)) /\ ~(p < place) /\ ~(q < j) /\ j # q
    BY <1>1, <1>2, <1>3, <1>5, <1>9
  <2> QED BY <1>2, <2>1 DEF q, r, place
<1>10. CASE q < j
  <2>1. ~(p - place \in 0..(nbits - 1)) /\ p < place /\ j # q
    BY <1>1, <1>2, <1>3, <1>6, <1>10
  <2> QED BY <1>2, <1>10, <2>1 DEF q, r, place
<1> QED BY <1>7, <1>8, <1>9, <1>10

\* An integer that is shifted to its place holds the bits of that place: in the lower
\* word, and in the upper one.
LEMMA IntegerInPlace ==
  ASSUME NEW nbits \in 1..WordBits, NEW j \in Nat, NEW word \in SUBSET Word,
         NEW p \in 0..(2 * WordBits - 1)
  PROVE  /\ p < WordBits =>
              (p \in ShiftLeft(word \cap Mask(nbits), j * nbits)
                 <=> j = p \div nbits /\ p % nbits \in word)
         /\ WordBits <= p =>
              (p - WordBits \in ShiftLeft(word \cap Mask(nbits), j * nbits - WordBits)
                 <=> j = p \div nbits /\ p % nbits \in word)
<1> DEFINE cut == word \cap Mask(nbits)
           place == j * nbits
<1>1. p \in Nat /\ WordBits \in Nat \ {0} /\ place \in Int /\ cut \in SUBSET Int
  <2>1. nbits \in Nat /\ place \in Nat
    BY WordAssumption, ProductType
  <2>2. Word \subseteq Int /\ cut \subseteq word
    BY WordAssumption DEF Word
  <2> HIDE DEF cut, place
  <2> QED BY <2>1, <2>2, WordAssumption
<1>2. p - place \in cut <=> j = p \div nbits /\ p % nbits \in word
  <2>1. p - place \in Mask(nbits) <=> j = p \div nbits
    BY <1>1, RowOfBit DEF Mask
  <2>2. j = p \div nbits => p - place = p % nbits
    BY <1>1, RowOfBit
  <2> QED BY <2>1, <2>2
<1> HIDE DEF cut, place
<1>3. p < WordBits => (p \in ShiftLeft(cut, place) <=> p - place \in cut)
  BY <1>1, ShiftLeftBit DEF Word
<1>4. WordBits <= p => (p - WordBits \in ShiftLeft(cut, place - WordBits) <=> p - place \in cut)
  <2> SUFFICES ASSUME WordBits <= p
               PROVE  p - WordBits \in ShiftLeft(cut, place - WordBits) <=> p - place \in cut
    OBVIOUS
  <2>1. PICK a \in Int, b \in Int : a = p - WordBits /\ b = place - WordBits
    BY <1>1
  <2>2. a \in Word /\ a - b = p - place
    BY <1>1, <2>1 DEF Word
  <2>3. a \in ShiftLeft(cut, b) <=> a - b \in cut
    BY <1>1, <2>2, ShiftLeftBit
  <2> QED BY <2>1, <2>2, <2>3
<1> QED BY <1>2, <1>3, <1>4 DEF cut, place

\* No two blocks have the same bits.
SameBits(x, y, x2, y2) ==
  \A p \in 0..(2 * WordBits - 1) : Bit(x, y, p) <=> Bit(x2, y2, p)

LEMMA BlockOfBits ==
  ASSUME NEW x \in SUBSET Word, NEW y \in SUBSET Word,
         NEW x2 \in SUBSET Word, NEW y2 \in SUBSET Word,
         SameBits(x, y, x2, y2)
  PROVE  x = x2 /\ y = y2
<1>1. ASSUME NEW p \in Word PROVE p \in x <=> p \in x2
  <2>1. p \in 0..(2 * WordBits - 1) /\ p < WordBits
    BY WordAssumption DEF Word
  <2> QED BY <2>1 DEF Bit, SameBits
<1>2. ASSUME NEW p \in Word PROVE p \in y <=> p \in y2
  <2>1. PICK k \in Int : k = p + WordBits
    BY WordAssumption DEF Word
  <2>2. k \in 0..(2 * WordBits - 1) /\ ~(k < WordBits) /\ k - WordBits = p
    BY <2>1, WordAssumption DEF Word
  <2> QED BY <2>2 DEF Bit, SameBits
<1> QED BY <1>1, <1>2
\* Integers that begin and end in the lower word, and those that do in the upper one.
LowWord(ints, count, nbits) ==
  UNION {ShiftLeft(ints[i] \cap Mask(nbits), (i - 1) * nbits) :
           i \in 1..count \cap DOMAIN ints}

HighWord(ints, first, nbits) ==
  UNION {ShiftLeft(ints[i] \cap Mask(nbits), (i - 1) * nbits - WordBits) :
           i \in first..Len(ints)}

\* Which bits they are.
LEMMA LowIntegers ==
  ASSUME NEW nbits \in 1..WordBits, NEW ints \in Seq(SUBSET Word), NEW count \in Nat,
         NEW p \in 0..(2 * WordBits - 1), p < WordBits
  PROVE  p \in LowWord(ints, count, nbits)
           <=> /\ p \div nbits < count /\ p \div nbits < Len(ints)
               /\ p % nbits \in ints[(p \div nbits) + 1]
<1> DEFINE q == p \div nbits
           Put(i) == ShiftLeft(ints[i] \cap Mask(nbits), (i - 1) * nbits)
<1>1. q \in Nat /\ Len(ints) \in Nat
  BY RowOfBit, WordAssumption
<1>2. ASSUME NEW i \in 1..count \cap DOMAIN ints
      PROVE  p \in Put(i) <=> i = q + 1 /\ p % nbits \in ints[i]
  <2>1. PICK j \in Nat : j = i - 1
    OBVIOUS
  <2>2. ints[i] \in SUBSET Word
    OBVIOUS
  <2>3. p \in ShiftLeft(ints[i] \cap Mask(nbits), j * nbits) <=> j = q /\ p % nbits \in ints[i]
    BY <2>2, IntegerInPlace
  <2> QED BY <1>1, <2>1, <2>3
<1> HIDE DEF q, Put
<1>3. p \in UNION {Put(i) : i \in 1..count \cap DOMAIN ints}
        <=> q < count /\ q < Len(ints) /\ p % nbits \in ints[q + 1]
  <2>1. q < count /\ q < Len(ints) <=> q + 1 \in 1..count \cap DOMAIN ints
    BY <1>1
  <2> QED BY <1>2, <2>1
<1> QED BY <1>3 DEF q, Put, LowWord

LEMMA HighIntegers ==
  ASSUME NEW nbits \in 1..WordBits, NEW ints \in Seq(SUBSET Word), NEW first \in Nat \ {0},
         NEW p \in 0..(2 * WordBits - 1), WordBits <= p
  PROVE  p - WordBits \in HighWord(ints, first, nbits)
           <=> /\ first <= (p \div nbits) + 1 /\ p \div nbits < Len(ints)
               /\ p % nbits \in ints[(p \div nbits) + 1]
<1> DEFINE q == p \div nbits
           Put(i) == ShiftLeft(ints[i] \cap Mask(nbits), (i - 1) * nbits - WordBits)
<1>1. q \in Nat /\ Len(ints) \in Nat
  BY RowOfBit, WordAssumption
<1>2. ASSUME NEW i \in first..Len(ints)
      PROVE  p - WordBits \in Put(i) <=> i = q + 1 /\ p % nbits \in ints[i]
  <2>1. PICK j \in Nat : j = i - 1
    OBVIOUS
  <2>2. ints[i] \in SUBSET Word
    BY <1>1
  <2>3. p - WordBits \in ShiftLeft(ints[i] \cap Mask(nbits), j * nbits - WordBits)
          <=> j = q /\ p % nbits \in ints[i]
    BY <2>2, IntegerInPlace
  <2> QED BY <1>1, <2>1, <2>3
<1> HIDE DEF q, Put
<1>3. p - WordBits \in UNION {Put(i) : i \in first..Len(ints)}
        <=> first <= q + 1 /\ q < Len(ints) /\ p % nbits \in ints[q + 1]
  <2>1. first <= q + 1 /\ q < Len(ints) <=> q + 1 \in first..Len(ints)
    BY <1>1
  <2> QED BY <1>2, <2>1
<1> QED BY <1>3 DEF q, Put, HighWord

\* An integer of the block lies in both words.
Meets(ints, nbits) == Straddles(nbits) /\ Len(ints) > LowCount(nbits)

\* What block_encode makes of the words.
LEMMA EncodedBlock ==
  ASSUME NEW nbits \in 1..WordBits, NEW ints \in Seq(SUBSET Word), NEW m,
         m = LowCount(nbits)
  PROVE  /\ ~Meets(ints, nbits) =>
              BlockEncode(ints, nbits) =
                [u |-> LowWord(ints, m, nbits), v |-> HighWord(ints, m + 1, nbits)]
         /\ Meets(ints, nbits) =>
              BlockEncode(ints, nbits) =
                [u |-> LowWord(ints, m, nbits)
                         \cup ShiftLeft(ints[m + 1] \cap Mask(WordBits - m * nbits), m * nbits),
                 v |-> (ShiftRight(ints[m + 1], WordBits - m * nbits)
                          \cap Mask(nbits - (WordBits - m * nbits)))
                         \cup HighWord(ints, m + 2, nbits)]
<1> DEFINE end == m * nbits
           nbits1 == WordBits - end
           nbits2 == nbits - nbits1
           Put(k, place) == ShiftLeft(ints[k] \cap Mask(nbits), place)
<1>1. /\ m \in Nat /\ end \in Nat /\ WordBits \in Nat /\ Len(ints) \in Nat
      /\ nbits \in Nat
  <2>1. m \in 1..WordBits /\ end \in Nat
    BY CapacityFacts
  <2> HIDE DEF end
  <2> QED BY <2>1, WordAssumption
<1>2. ASSUME NEW i \in Nat
      PROVE  /\ end = WordBits => 0 + (i - (m + 1)) * nbits = (i - 1) * nbits - WordBits
             /\ nbits2 + (i - (m + 2)) * nbits = (i - 1) * nbits - WordBits
  <2>1. PICK k \in Int : k = i - m - 1
    BY <1>1
  <2> DEFINE x == k * nbits
  <2>2. x \in Int
    BY <1>1
  <2>3. i - 1 = m + k /\ i - (m + 1) = k /\ i - (m + 2) = k - 1
    BY <1>1, <2>1, SMTT(30)
  <2>4. (k - 1) * nbits = x - nbits /\ (m + k) * nbits = end + x
    BY <1>1
  <2> HIDE DEF end, x
  <2>5. /\ end = WordBits => 0 + x = (end + x) - WordBits
        /\ nbits2 + (x - nbits) = (end + x) - WordBits
    BY <1>1, <2>2
  <2> QED BY <2>3, <2>4, <2>5 DEF x
<1>3. ASSUME ~Meets(ints, nbits)
      PROVE  BlockEncode(ints, nbits) =
               [u |-> LowWord(ints, m, nbits), v |-> HighWord(ints, m + 1, nbits)]
  <2>1. BlockEncode(ints, nbits) =
          [u |-> LowWord(ints, m, nbits),
           v |-> UNION {Put(i, 0 + (i - (m + 1)) * nbits) : i \in (m + 1)..Len(ints)}]
    BY <1>3 DEF BlockEncode, LowWord, Meets
  <2>2. \A i \in (m + 1)..Len(ints) :
          Put(i, 0 + (i - (m + 1)) * nbits) = Put(i, (i - 1) * nbits - WordBits)
    <3> TAKE i \in (m + 1)..Len(ints)
    <3>1. i \in Nat /\ Len(ints) > m
      BY <1>1
    <3>2. end = WordBits
      BY <1>3, <3>1 DEF Meets, Straddles
    <3>3. 0 + (i - (m + 1)) * nbits = (i - 1) * nbits - WordBits
      BY <1>2, <3>1, <3>2
    <3> QED BY <3>3
  <2>3. HighWord(ints, m + 1, nbits) =
          UNION {Put(i, (i - 1) * nbits - WordBits) : i \in (m + 1)..Len(ints)}
    BY DEF HighWord
  <2> HIDE DEF Put
  <2>4. {Put(i, 0 + (i - (m + 1)) * nbits) : i \in (m + 1)..Len(ints)} =
          {Put(i, (i - 1) * nbits - WordBits) : i \in (m + 1)..Len(ints)}
    BY <2>2
  <2> QED BY <2>1, <2>3, <2>4
<1>4. ASSUME Meets(ints, nbits)
      PROVE  BlockEncode(ints, nbits) =
               [u |-> LowWord(ints, m, nbits) \cup ShiftLeft(ints[m + 1] \cap Mask(nbits1), end),
                v |-> (ShiftRight(ints[m + 1], nbits1) \cap Mask(nbits2))
                        \cup HighWord(ints, m + 2, nbits)]
  <2>1. BlockEncode(ints, nbits) =
          [u |-> LowWord(ints, m, nbits) \cup ShiftLeft(ints[m + 1] \cap Mask(nbits1), end),
           v |-> (ShiftRight(ints[m + 1], nbits1) \cap Mask(nbits2))
                   \cup UNION {Put(i, nbits2 + (i - (m + 2)) * nbits) : i \in (m + 2)..Len(ints)}]
    BY <1>4 DEF BlockEncode, LowWord, Meets
  <2>2. \A i \in (m + 2)..Len(ints) :
          Put(i, nbits2 + (i - (m + 2)) * nbits) = Put(i, (i - 1) * nbits - WordBits)
    <3> TAKE i \in (m + 2)..Len(ints)
    <3>1. i \in Nat
      BY <1>1
    <3>2. nbits2 + (i - (m + 2)) * nbits = (i - 1) * nbits - WordBits
      BY <1>2, <3>1
    <3> QED BY <3>2
  <2>3. HighWord(ints, m + 2, nbits) =
          UNION {Put(i, (i - 1) * nbits - WordBits) : i \in (m + 2)..Len(ints)}
    BY DEF HighWord
  <2> HIDE DEF Put
  <2>4. {Put(i, nbits2 + (i - (m + 2)) * nbits) : i \in (m + 2)..Len(ints)} =
          {Put(i, (i - 1) * nbits - WordBits) : i \in (m + 2)..Len(ints)}
    BY <2>2
  <2> HIDE DEF nbits1, nbits2
  <2> QED BY <2>1, <2>3, <2>4
<1> QED BY <1>3, <1>4
\* What is left of the middle integer when it is cut in two.
LEMMA MiddleInPlace ==
  ASSUME NEW nbits \in 1..WordBits, NEW word \in SUBSET Word, NEW end \in 0..WordBits,
         NEW p \in 0..(2 * WordBits - 1)
  PROVE  /\ p < WordBits =>
              (p \in ShiftLeft(word \cap Mask(WordBits - end), end)
                 <=> end <= p /\ p - end \in word)
         /\ WordBits <= p =>
              (p - WordBits \in ShiftRight(word, WordBits - end)
                                  \cap Mask(nbits - (WordBits - end))
                 <=> p < end + nbits /\ p - end \in word)
<1>1. WordBits \in Nat \ {0} /\ nbits \in Nat /\ end \in Nat /\ p \in Nat
  BY WordAssumption
<1>2. ASSUME p < WordBits
      PROVE  p \in ShiftLeft(word \cap Mask(WordBits - end), end) <=> end <= p /\ p - end \in word
  <2>1. word \cap Mask(WordBits - end) \in SUBSET Int /\ p \in Word
    BY <1>1, <1>2 DEF Word, Mask
  <2>2. p \in ShiftLeft(word \cap Mask(WordBits - end), end)
          <=> p - end \in word \cap Mask(WordBits - end)
    BY <1>1, <2>1, ShiftLeftBit
  <2>3. p - end \in Mask(WordBits - end) <=> end <= p
    BY <1>1, <1>2 DEF Mask
  <2> QED BY <2>2, <2>3
<1>3. ASSUME WordBits <= p
      PROVE  p - WordBits \in ShiftRight(word, WordBits - end)
                                \cap Mask(nbits - (WordBits - end))
               <=> p < end + nbits /\ p - end \in word
  <2>1. PICK k \in Int : k = p - WordBits
    BY <1>1
  <2>2. k \in Word /\ k + (WordBits - end) = p - end
    BY <1>1, <1>3, <2>1 DEF Word
  <2>3. k \in ShiftRight(word, WordBits - end) <=> p - end \in word
    BY <2>2 DEF ShiftRight
  <2>4. k \in Mask(nbits - (WordBits - end)) <=> p < end + nbits
    BY <1>1, <1>3, <2>1 DEF Mask
  <2> QED BY <2>1, <2>3, <2>4
<1> QED BY <1>2, <1>3

\* A block that block_encode has filled holds the integers it was given, one behind
\* the other, and nothing else.
LEMMA EncodedBits ==
  ASSUME NEW nbits \in 1..WordBits, NEW ints \in Seq(SUBSET Word),
         Len(ints) <= Capacity(nbits), NEW p \in 0..(2 * WordBits - 1)
  PROVE  Bit(BlockEncode(ints, nbits).u, BlockEncode(ints, nbits).v, p)
           <=> p < Len(ints) * nbits /\ (p % nbits) \in ints[(p \div nbits) + 1]
<1>1. PICK m \in Nat : m = LowCount(nbits)
  BY CapacityFacts
<1>2. PICK end \in 0..WordBits : end = m * nbits /\ WordBits < end + nbits
  BY <1>1, CapacityFacts
<1>3. PICK q \in Nat, r \in 0..(nbits - 1) : q = p \div nbits /\ r = p % nbits
  <2>1. p \in Nat
    BY WordAssumption
  <2>2. p \div nbits \in Nat /\ p % nbits \in 0..(nbits - 1)
    BY <2>1, RowOfBit
  <2> QED BY <2>2
<1>4. PICK k \in Nat : k = Len(ints)
  OBVIOUS
<1>5. PICK x, y : x = BlockEncode(ints, nbits).u /\ y = BlockEncode(ints, nbits).v
  OBVIOUS
<1>6. PICK low, high, upper :
        /\ low = LowWord(ints, m, nbits)
        /\ high = HighWord(ints, m + 1, nbits)
        /\ upper = HighWord(ints, m + 2, nbits)
  OBVIOUS
<1>7. /\ WordBits \in Nat \ {0} /\ nbits \in Nat \ {0} /\ p \in Nat
      /\ p < k * nbits <=> q < k
      /\ p < end <=> q < m
      /\ p - end \in 0..(nbits - 1) <=> m = q
      /\ m = q => p - end = r
  <2>1. WordBits \in Nat \ {0} /\ nbits \in Nat \ {0} /\ p \in Nat
    BY WordAssumption
  <2>2. p < k * nbits <=> q < k
    BY <1>3, <2>1, RowOfBit
  <2>3. /\ p < end <=> q < m
        /\ p - end \in 0..(nbits - 1) <=> m = q
        /\ m = q => p - end = r
    BY <1>2, <1>3, <2>1, RowOfBit
  <2> QED BY <2>1, <2>2, <2>3
<1>8. /\ p < WordBits => (p \in low <=> q < m /\ q < k /\ r \in ints[q + 1])
      /\ WordBits <= p => (p - WordBits \in high <=> m <= q /\ q < k /\ r \in ints[q + 1])
      /\ WordBits <= p => (p - WordBits \in upper <=> m < q /\ q < k /\ r \in ints[q + 1])
  <2>1. m + 1 \in Nat \ {0} /\ m + 2 \in Nat \ {0}
    OBVIOUS
  <2>2. (m + 1 <= q + 1 <=> m <= q) /\ (m + 2 <= q + 1 <=> m < q)
    OBVIOUS
  <2>3. p < WordBits => (p \in low <=> q < m /\ q < k /\ r \in ints[q + 1])
    BY <1>3, <1>4, <1>6, LowIntegers
  <2>4. WordBits <= p => (p - WordBits \in high <=> m + 1 <= q + 1 /\ q < k /\ r \in ints[q + 1])
    BY <1>3, <1>4, <1>6, <2>1, HighIntegers
  <2>5. WordBits <= p => (p - WordBits \in upper <=> m + 2 <= q + 1 /\ q < k /\ r \in ints[q + 1])
    BY <1>3, <1>4, <1>6, <2>1, HighIntegers
  <2> QED BY <2>2, <2>3, <2>4, <2>5
<1>9. CASE ~Meets(ints, nbits)
  <2>1. x = low /\ y = high
    <3>1. BlockEncode(ints, nbits) =
            [u |-> LowWord(ints, m, nbits), v |-> HighWord(ints, m + 1, nbits)]
      BY <1>1, <1>9, EncodedBlock
    <3> QED BY <1>5, <1>6, <3>1
  <2>2. end = WordBits \/ k <= m
    BY <1>1, <1>2, <1>4, <1>9 DEF Meets, Straddles
  <2>3. Bit(x, y, p) <=> q < k /\ r \in ints[q + 1]
    <3>1. CASE p < WordBits
      <4>1. q < k => q < m
        BY <1>7, <2>2, <3>1
      <4> QED BY <1>8, <2>1, <3>1, <4>1 DEF Bit
    <3>2. CASE WordBits <= p
      <4>1. m <= q /\ ~(p < WordBits)
        BY <1>7, <3>2
      <4> QED BY <1>8, <2>1, <3>2, <4>1 DEF Bit
    <3> QED BY <1>7, <3>1, <3>2
  <2> QED BY <1>3, <1>4, <1>5, <1>7, <2>3
<1>10. CASE Meets(ints, nbits)
  <2>1. m < k /\ ints[m + 1] \in SUBSET Word
    BY <1>1, <1>4, <1>10 DEF Meets
  <2>2. PICK word \in SUBSET Word : word = ints[m + 1]
    BY <2>1
  <2>3. /\ x = low \cup ShiftLeft(word \cap Mask(WordBits - end), end)
        /\ y = (ShiftRight(word, WordBits - end) \cap Mask(nbits - (WordBits - end)))
                 \cup upper
    <3>1. BlockEncode(ints, nbits) =
            [u |-> LowWord(ints, m, nbits)
                     \cup ShiftLeft(ints[m + 1] \cap Mask(WordBits - m * nbits), m * nbits),
             v |-> (ShiftRight(ints[m + 1], WordBits - m * nbits)
                      \cap Mask(nbits - (WordBits - m * nbits)))
                     \cup HighWord(ints, m + 2, nbits)]
      BY <1>1, <1>10, EncodedBlock
    <3> QED BY <1>2, <1>5, <1>6, <2>2, <3>1
  <2>4. /\ end <= p /\ p < WordBits => m = q
        /\ WordBits <= p => (p < end + nbits <=> m = q)
        /\ m = q => end <= p /\ p - end = r
        /\ WordBits <= p => m <= q
    BY <1>2, <1>7
  <2>5. Bit(x, y, p) <=> q < k /\ r \in ints[q + 1]
    <3>1. CASE p < WordBits
      <4>1. p \in x <=> p \in low \/ (end <= p /\ p - end \in word)
        BY <2>3, <3>1, MiddleInPlace
      <4>2. end <= p /\ p - end \in word <=> m = q /\ r \in ints[q + 1]
        BY <2>2, <2>4, <3>1
      <4>3. q < m \/ m = q
        BY <1>7, <2>4, <3>1
      <4> QED BY <1>8, <2>1, <3>1, <4>1, <4>2, <4>3 DEF Bit
    <3>2. CASE WordBits <= p
      <4>1. p - WordBits \in y <=> (p < end + nbits /\ p - end \in word) \/ p - WordBits \in upper
        BY <2>3, <3>2, MiddleInPlace
      <4>2. p < end + nbits /\ p - end \in word <=> m = q /\ r \in ints[q + 1]
        BY <2>2, <2>4, <3>2
      <4>3. ~(p < WordBits) /\ (m < q \/ m = q)
        BY <1>7, <2>4, <3>2
      <4> QED BY <1>8, <2>1, <3>2, <4>1, <4>2, <4>3 DEF Bit
    <3> QED BY <1>7, <3>1, <3>2
  <2> QED BY <1>3, <1>4, <1>5, <1>7, <2>5
<1> QED BY <1>9, <1>10
\* The words of such a block are words.
LEMMA EncodedType ==
  ASSUME NEW nbits \in 1..WordBits, NEW ints \in Seq(SUBSET Word)
  PROVE  BlockEncode(ints, nbits) \in [u : SUBSET Word, v : SUBSET Word]
<1>1. PICK m : m = LowCount(nbits)
  OBVIOUS
<1>2. \A x, k : ShiftLeft(x, k) \subseteq Word /\ ShiftRight(x, k) \subseteq Word
  BY DEF ShiftLeft, ShiftRight
<1>3. LowWord(ints, m, nbits) \subseteq Word
  BY <1>2, ZenonT(30) DEF LowWord
<1>4. \A first : HighWord(ints, first, nbits) \subseteq Word
  BY <1>2, ZenonT(30) DEF HighWord
<1>5. CASE Meets(ints, nbits)
  <2>1. BlockEncode(ints, nbits) =
          [u |-> LowWord(ints, m, nbits)
                   \cup ShiftLeft(ints[m + 1] \cap Mask(WordBits - m * nbits), m * nbits),
           v |-> (ShiftRight(ints[m + 1], WordBits - m * nbits)
                    \cap Mask(nbits - (WordBits - m * nbits)))
                   \cup HighWord(ints, m + 2, nbits)]
    BY <1>1, <1>5, EncodedBlock
  <2> QED BY <1>2, <1>3, <1>4, <2>1
<1>6. CASE ~Meets(ints, nbits)
  <2>1. BlockEncode(ints, nbits) =
          [u |-> LowWord(ints, m, nbits), v |-> HighWord(ints, m + 1, nbits)]
    BY <1>1, <1>6, EncodedBlock
  <2> QED BY <1>3, <1>4, <2>1
<1> QED BY <1>5, <1>6

\* The bits of an integer that begins at a place of the row: it lies in the lower
\* word, in both, or in the upper one.
LEMMA BitsFromPlace ==
  ASSUME NEW nbits \in 1..WordBits, NEW x \in SUBSET Word, NEW y \in SUBSET Word,
         NEW place \in Nat, NEW k \in 0..(nbits - 1)
  PROVE  /\ place + nbits <= WordBits =>
              (k \in ShiftRight(x, place) <=> Bit(x, y, place + k))
         /\ place <= WordBits =>
              (k \in ShiftRight(x, place) \cup ShiftLeft(y, WordBits - place)
                 <=> Bit(x, y, place + k))
         /\ WordBits <= place =>
              (k \in ShiftRight(y, place - WordBits) <=> Bit(x, y, place + k))
<1>1. WordBits \in Nat \ {0} /\ nbits \in Nat
  BY WordAssumption
<1>2. k \in Word
  BY <1>1 DEF Word
<1>3. k \in ShiftRight(x, place) <=> place + k \in x
  BY <1>2 DEF ShiftRight
<1>4. place + k \in x => place + k < WordBits
  BY <1>1 DEF Word
<1>5. ASSUME place <= WordBits
      PROVE  k \in ShiftLeft(y, WordBits - place) <=> (place + k) - WordBits \in y
  <2>1. PICK a \in Int : a = WordBits - place
    BY <1>1
  <2>2. y \in SUBSET Int
    BY <1>1 DEF Word
  <2>3. k \in ShiftLeft(y, a) <=> k - a \in y
    BY <1>2, <2>1, <2>2, ShiftLeftBit
  <2>4. k - a = (place + k) - WordBits
    BY <1>1, <2>1
  <2> QED BY <2>1, <2>3, <2>4
<1>6. (place + k) - WordBits \in y => ~(place + k < WordBits)
  BY <1>1 DEF Word
<1>7. ASSUME WordBits <= place
      PROVE  k \in ShiftRight(y, place - WordBits) <=> (place + k) - WordBits \in y
  <2>1. k + (place - WordBits) = (place + k) - WordBits
    BY <1>1, <1>7
  <2> QED BY <1>2, <2>1 DEF ShiftRight
<1>8. ASSUME place + nbits <= WordBits
      PROVE  k \in ShiftRight(x, place) <=> Bit(x, y, place + k)
  <2>1. place + k < WordBits
    BY <1>1, <1>8
  <2> QED BY <1>3, <2>1 DEF Bit
<1>9. ASSUME place <= WordBits
      PROVE  k \in ShiftRight(x, place) \cup ShiftLeft(y, WordBits - place)
               <=> Bit(x, y, place + k)
  BY <1>3, <1>4, <1>5, <1>6, <1>9 DEF Bit
<1>10. ASSUME WordBits <= place
       PROVE  k \in ShiftRight(y, place - WordBits) <=> Bit(x, y, place + k)
  <2>1. ~(place + k < WordBits)
    BY <1>1, <1>10
  <2> QED BY <1>7, <1>10, <2>1 DEF Bit
<1> QED BY <1>8, <1>9, <1>10

\* block_fetch finds an integer of a block.
LEMMA FetchedInteger ==
  ASSUME NEW nbits \in 1..WordBits, NEW block \in [u : SUBSET Word, v : SUBSET Word],
         NEW list, NEW first \in Nat, NEW count \in Nat,
         Holds(block.u, block.v, list, first, count, nbits),
         count <= Capacity(nbits), NEW i \in Nat, i < count
  PROVE  BlockFetch(block, i, nbits) = list[first + i + 1] \cap Mask(nbits)
<1>1. PICK m \in Nat : m = LowCount(nbits)
  BY CapacityFacts
<1>2. PICK end \in 0..WordBits : end = m * nbits /\ WordBits < end + nbits
  BY <1>1, CapacityFacts
<1>3. PICK place \in Nat : place = i * nbits
  BY WordAssumption
<1>4. WordBits \in Nat \ {0} /\ nbits \in Nat
  BY WordAssumption
<1>5. /\ i < m => place + nbits <= WordBits
      /\ i = m => place = end
      /\ i > m => WordBits <= place
      /\ ~Straddles(nbits) /\ i = m => WordBits <= place
  <2>1. /\ i < m => place + nbits <= end
        /\ i > m => end + nbits <= place
    BY <1>2, <1>3, <1>4, RowsApart
  <2>2. i = m => place = end
    BY <1>2, <1>3
  <2>3. ~Straddles(nbits) => end = WordBits
    BY <1>1, <1>2 DEF Straddles
  <2> QED BY <1>2, <1>4, <2>1, <2>2, <2>3
<1>6. count * nbits <= 2 * WordBits
  <2>1. PICK c \in Nat : c = Capacity(nbits) /\ c * nbits <= 2 * WordBits
    BY CapacityFacts, CapacityType
  <2>2. count * nbits <= c * nbits
    BY <1>4, <2>1, ProductOrder
  <2>3. count * nbits \in Nat /\ c * nbits \in Nat
    BY <1>4, <2>1
  <2> QED BY <1>4, <2>1, <2>2, <2>3
<1>7. block.u \in SUBSET Word /\ block.v \in SUBSET Word
  OBVIOUS
<1>8. ASSUME NEW k \in 0..(nbits - 1)
      PROVE  Bit(block.u, block.v, place + k) <=> k \in list[first + i + 1]
  BY <1>3, <1>6, HeldInteger
<1> DEFINE bits == IF i < m THEN ShiftRight(block.u, place)
                   ELSE IF Straddles(nbits) /\ i = m
                   THEN ShiftRight(block.u, place) \cup ShiftLeft(block.v, WordBits - place)
                   ELSE ShiftRight(block.v, place - WordBits)
<1>9. BlockFetch(block, i, nbits) = Mask(nbits) \cap bits
  BY <1>1, <1>2, <1>3, <1>5 DEF BlockFetch
<1>10. ASSUME NEW k \in 0..(nbits - 1)
      PROVE  k \in bits <=> Bit(block.u, block.v, place + k)
  <2>1. CASE i < m
    BY <1>5, <1>7, <2>1, BitsFromPlace
  <2>2. CASE i = m /\ Straddles(nbits)
    <3>1. place <= WordBits
      BY <1>4, <1>5, <2>2
    <3> QED BY <1>7, <2>2, <3>1, BitsFromPlace
  <2>3. CASE ~(i < m) /\ ~(Straddles(nbits) /\ i = m)
    <3>1. WordBits <= place
      BY <1>5, <2>3
    <3> QED BY <1>7, <2>3, <3>1, BitsFromPlace
  <2> QED BY <2>1, <2>2, <2>3
<1> HIDE DEF bits
<1> QED BY <1>8, <1>9, <1>10 DEF Mask

\* block_decode takes the integers as block_fetch finds them.
LEMMA DecodedInteger ==
  ASSUME NEW nbits \in 1..WordBits, NEW block, NEW count \in Nat, NEW i \in 1..count
  PROVE  BlockDecode(block, count, nbits)[i] = BlockFetch(block, i - 1, nbits)
<1>1. PICK m \in Nat : m = LowCount(nbits)
  BY CapacityFacts
<1>2. PICK end \in 0..WordBits : end = m * nbits
  BY <1>1, CapacityFacts
<1>3. PICK j \in Nat : j = i - 1
  OBVIOUS
<1>4. PICK place \in Nat : place = j * nbits
  BY WordAssumption
<1>5. WordBits \in Nat \ {0} /\ nbits \in Nat
  BY WordAssumption
<1>6. /\ i <= m <=> j < m
      /\ i = m + 1 <=> j = m
      /\ i - m - 1 = j - m
      /\ i - m - 2 = j - m - 1
  BY <1>3
<1>7. (j - m) * nbits = place - end /\ (j - m - 1) * nbits = (place - end) - nbits
  BY <1>2, <1>4, <1>5
<1>8. (i - m - 1) * nbits = place - end
  BY <1>6, <1>7
<1>9. nbits - (WordBits - end) + (i - m - 2) * nbits = place - WordBits
  <2>1. PICK a \in Int : a = (i - m - 2) * nbits /\ a = (place - end) - nbits
    BY <1>5, <1>6, <1>7
  <2>2. nbits - (WordBits - end) + a = place - WordBits
    BY <1>5, <2>1
  <2> QED BY <2>1, <2>2
<1>10. j = m => place = end
  BY <1>2, <1>4
<1>11. BlockDecode(block, count, nbits)[i] =
         Mask(nbits) \cap
           IF i <= m THEN ShiftRight(block.u, place)
           ELSE IF ~Straddles(nbits) THEN ShiftRight(block.v, place - end)
           ELSE IF i = m + 1
           THEN ShiftRight(block.u, end) \cup ShiftLeft(block.v, WordBits - end)
           ELSE ShiftRight(block.v, place - WordBits)
  BY <1>1, <1>2, <1>3, <1>4, <1>8, <1>9 DEF BlockDecode
<1>12. BlockFetch(block, j, nbits) =
         Mask(nbits) \cap
           IF j < m THEN ShiftRight(block.u, place)
           ELSE IF Straddles(nbits) /\ j = m
           THEN ShiftRight(block.u, end) \cup ShiftLeft(block.v, WordBits - end)
           ELSE ShiftRight(block.v, place - WordBits)
  BY <1>1, <1>2, <1>4 DEF BlockFetch
<1>13. ~Straddles(nbits) => end = WordBits
  BY <1>1, <1>2 DEF Straddles
<1> QED BY <1>3, <1>6, <1>11, <1>12, <1>13
\* The last of the blocks that are needed has something to take.
LEMMA BlockBegins ==
  ASSUME NEW nbits \in 1..WordBits, NEW b \in Nat, NEW count \in Nat,
         b < BlockNumber(count, nbits)
  PROVE  b * Capacity(nbits) < count
<1>1. PICK c \in Nat \ {0} : c = Capacity(nbits)
  BY CapacityType
<1>2. PICK k \in Nat, r \in 0..(c - 1) :
        k = BlockNumber(count, nbits) /\ count + c - 1 = k * c + r
  <2>1. count + c - 1 \in Nat
    BY <1>1
  <2>2. /\ (count + c - 1) \div c \in Nat
        /\ (count + c - 1) % c \in 0..(c - 1)
        /\ count + c - 1 = ((count + c - 1) \div c) * c + ((count + c - 1) % c)
    BY <1>1, <2>1, Division
  <2>3. BlockNumber(count, nbits) = (count + c - 1) \div c
    BY <1>1 DEF BlockNumber
  <2> QED BY <2>2, <2>3
<1>3. b * c + c <= k * c
  BY <1>1, <1>2, RowsApart
<1>4. PICK x \in Nat, y \in Nat : x = b * c /\ y = k * c
  BY <1>1, <1>2
<1>5. x + c <= y /\ count + c - 1 = y + r
  BY <1>2, <1>3, <1>4
<1>6. x < count
  BY <1>1, <1>2, <1>4, <1>5
<1> QED BY <1>1, <1>4, <1>6

================================================================================
