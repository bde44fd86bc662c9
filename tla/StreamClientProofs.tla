------------------------------ MODULE StreamClientProofs ------------------------------
(*************************************************************************)
(* What the loops of variable-length integers promise (VarintStream), and*)
(* what a client of all the codecs sees of them (StreamClient): its codecs*)
(* do not disturb one another, and one by one they are a channel.        *)
(*************************************************************************)
EXTENDS StreamClient, PatchedStreamProofs

(***************************************************************************)
(* varint_codec gives every integer back, for all arrays, types and sizes  *)
(* of a word, a byte and an int.  The unbounded loop of value_decode()     *)
(* ends with the byte that the loop of value_encode() has not marked, and  *)
(* has by then put each group of bits where it came from.                  *)
(*                                                                         *)
(* The argument is about where the bytes of each integer lie.              *)
(***************************************************************************)

\* For each array, the positions where its integers begin: s[a][i] is that behind
\* the first i integers of array a.
Places == [Nat -> [Nat -> Nat]]

\* The group of bits in the k-th byte from p on comes from the word.
GroupAt(p, k, word) ==
  \A b \in 0..(GroupBits - 1) : b \in bytes[k] <=> b + (k - p) * GroupBits \in word

\* The bytes from p up to q are those of the word: none but the last is marked, and
\* none is there in vain.
Written(p, q, word) ==
  /\ p \in 1..(q - 1) /\ q <= Len(bytes) + 1
  /\ \A k \in p..(q - 1) : GroupAt(p, k, word) /\ (GroupBits \in bytes[k] <=> k < q - 1)
  /\ word \subseteq Mask((q - p) * GroupBits)
  /\ p < q - 1 => word \ Mask((q - 1 - p) * GroupBits) # {}

\* The integers in front of the present one.
Passed(a, i) == a < array \/ (a = array /\ i <= item)

\* The integers that are passed are written at the places s.
Layout(s) ==
  /\ s[1][0] = 1
  /\ \A a \in DOMAIN arrays :
       /\ a < array => s[a + 1][0] = s[a][Len(arrays[a].ints)]
       /\ \A i \in DOMAIN arrays[a].ints :
            Passed(a, i) => Written(s[a][i - 1], s[a][i], arrays[a].ints[i])

\* All integers are.
WholeLayout(s) ==
  /\ s[1][0] = 1
  /\ \A a \in DOMAIN arrays :
       /\ s[a + 1][0] = s[a][Len(arrays[a].ints)]
       /\ \A i \in DOMAIN arrays[a].ints :
            Written(s[a][i - 1], s[a][i], arrays[a].ints[i])

\* The bytes from p on are the marked ones of the present integer, and value is what
\* is left of it.
PartWritten(p) ==
  /\ InArray /\ item < Len(Items)
  /\ p \in 1..(Len(bytes) + 1)
  /\ value = ShiftRight(Items[item + 1], (Len(bytes) + 1 - p) * GroupBits)
  /\ \A k \in p..Len(bytes) : GroupAt(p, k, Items[item + 1]) /\ GroupBits \in bytes[k]
  /\ p < Len(bytes) + 1 => value # {}

\* Some of the bytes from p up to q are read, not all of them, and value is what
\* they hold of the word.
PartRead(p, q, word) ==
  /\ p < at /\ at < q
  /\ place = (at - p) * GroupBits
  /\ value = word \cap Mask(place)

Writing ==
  step \in {"write", "put"} =>
    /\ got = <<>> /\ place = 0 /\ at = 1
    /\ \E s \in Places :
         /\ Layout(s)
         /\ step = "write" => value = {} /\ s[array][item] = Len(bytes) + 1
         /\ step = "put" => PartWritten(s[array][item])

\* How many integers of array a are decoded.
GotOf(a) == IF a < array THEN Len(arrays[a].ints) ELSE IF a = array THEN item ELSE 0

Reading ==
  step \in {"read", "take"} =>
    /\ Len(got) = Len(arrays)
    /\ \A a \in DOMAIN arrays : Len(got[a]) = GotOf(a)
    /\ \E s \in Places :
         /\ WholeLayout(s)
         /\ step = "read" => value = {} /\ place = 0 /\ at = s[array][item]
         /\ step = "take" =>
              /\ InArray /\ item < Len(Items)
              /\ PartRead(s[array][item], s[array][item + 1], Items[item + 1])

VInv ==
  /\ VarintTypeOK
  /\ step = "idle" => VarintInit
  /\ step # "idle" => arrays \in Messages
  /\ ~InArray => item = 0
  /\ Writing /\ Reading
  /\ DeliversInOrder

-------------------------------------------------------------------------------
(* Lemmas.                                                                  *)

\* The bits of a group are all of a byte but the mark.
LEMMA GroupFacts ==
  /\ GroupBits \in Nat \ {0}
  /\ Mask(ByteBits) = 0..GroupBits
  /\ Mark = {GroupBits}
<1>1. GroupBits = ByteBits - 1
  BY DEF GroupBits, Numbers!GroupBits
<1> QED BY <1>1, VarintAssumption DEF Mark, Mask

\* The arrays of a message.
LEMMA MessageFacts ==
  ASSUME VInv, step # "idle", InArray
  PROVE  /\ array \in DOMAIN arrays
         /\ arrays[array].bits \in 1..WordBits
         /\ Items = arrays[array].ints /\ Items \in Seq(SUBSET Word)
         /\ \A i \in DOMAIN Items : Items[i] \subseteq Mask(arrays[array].bits)
         /\ item \in 0..Len(Items)
<1>1. arrays \in Seq(ArrayType) /\ arrays \in Messages /\ item \in 0..Len(Items)
  BY DEF VInv, VarintTypeOK
<1>2. array \in DOMAIN arrays
  BY <1>1 DEF InArray, VInv, VarintTypeOK
<1>3. arrays[array] \in ArrayType
  BY <1>1, <1>2
<1>4. arrays[array].bits \in 1..WordBits /\ arrays[array].ints \in Seq(SUBSET Word)
  BY <1>3 DEF ArrayType
<1> QED BY <1>1, <1>2, <1>4, VarintAssumption DEF Items

\* The places t are those of s, but for one.
Moved(s, t, a, i, p) ==
  /\ t[a][i] = p
  /\ \A b \in Nat, j \in Nat : b # a \/ j # i => t[b][j] = s[b][j]

\* One more place.
LEMMA PlaceSet ==
  ASSUME NEW s \in Places, NEW a \in Nat, NEW i \in Nat, NEW p \in Nat
  PROVE  \E t \in Places : Moved(s, t, a, i, p)
<1> DEFINE t == [b \in Nat |-> [j \in Nat |-> IF b = a /\ j = i THEN p ELSE s[b][j]]]
<1>1. t \in Places
  BY DEF Places
<1>2. Moved(s, t, a, i, p)
  BY DEF Moved
<1> HIDE DEF t
<1> QED BY <1>1, <1>2

\* What has been written stays when another byte is.
LEMMA WrittenStays ==
  ASSUME bytes \in Seq(SUBSET Mask(ByteBits)), NEW byte, bytes' = Append(bytes, byte),
         NEW p \in Nat, NEW q \in Nat, NEW word, Written(p, q, word)
  PROVE  Written(p, q, word)'
<1>1. /\ Len(bytes') = Len(bytes) + 1 /\ Len(bytes) \in Nat
      /\ \A k \in 1..Len(bytes) : bytes'[k] = bytes[k]
  OBVIOUS
<1>2. \A k \in p..(q - 1) : k \in 1..Len(bytes)
  BY <1>1 DEF Written
<1> QED BY <1>1, <1>2 DEF Written, GroupAt

-------------------------------------------------------------------------------
(* The steps of encode().                                                   *)

\* The client has arrays to encode.
LEMMA BeginArraysInv ==
  ASSUME VInv, NEW message \in Messages, BeginArrays(message)
  PROVE  VInv'
<1>1. /\ step = "idle" /\ step' = "write" /\ arrays' = message
      /\ array' = 1 /\ item' = 0 /\ value' = {} /\ place' = 0
      /\ bytes' = <<>> /\ at' = 1 /\ got' = <<>>
  BY DEF BeginArrays, VInv, VarintInit
<1>2. message \in Seq(ArrayType)
  BY VarintAssumption
<1>3. VarintTypeOK'
  <2>1. ASSUME 1 <= Len(message) PROVE message[1].ints \in Seq(SUBSET Word)
    <3>1. message[1] \in ArrayType
      BY <1>2, <2>1
    <3> QED BY <3>1 DEF ArrayType
  <2>2. 1 <= Len(message) => 0 \in 0..Len(message[1].ints)
    BY <2>1
  <2>3. Len(bytes') = 0 /\ at' \in 1..(Len(bytes') + 1)
    BY <1>1
  <2>4. array' \in 1..(Len(arrays') + 1)
    BY <1>1, <1>2
  <2> QED BY <1>1, <1>2, <2>2, <2>3, <2>4 DEF VarintTypeOK, InArray, Items
<1>4. Writing'
  <2>1. PICK s \in Places : s[1][0] = 1
    <3>1. [a \in Nat |-> [i \in Nat |-> 1]] \in Places
      BY DEF Places
    <3> QED BY <3>1
  <2>2. Layout(s)'
    <3>1. ASSUME NEW a \in DOMAIN message, NEW i \in DOMAIN message[a].ints
          PROVE  ~Passed(a, i)'
      <4>1. message[a] \in ArrayType /\ a >= 1
        BY <1>2
      <4>2. message[a].ints \in Seq(SUBSET Word)
        BY <4>1 DEF ArrayType
      <4>3. i \in Nat \ {0} /\ a \in Nat
        BY <1>2, <4>2
      <4> QED BY <1>1, <4>1, <4>3 DEF Passed
    <3>2. \A a \in DOMAIN message : ~(a < array')
      BY <1>1, <1>2
    <3> QED BY <1>1, <2>1, <3>1, <3>2 DEF Layout
  <2>3. s[array'][item'] = Len(bytes') + 1
    BY <1>1, <2>1
  <2> QED BY <1>1, <2>1, <2>2, <2>3 DEF Writing
<1>5. Reading' /\ DeliversInOrder'
  BY <1>1 DEF Reading, DeliversInOrder
<1> QED BY <1>1, <1>3, <1>4, <1>5 DEF VInv

\* An integer is to be encoded.
LEMMA StartValueInv ==
  ASSUME VInv, StartValue
  PROVE  VInv'
<1>1. /\ step = "write" /\ step' = "put" /\ InArray /\ item < Len(Items)
      /\ value' = Items[item + 1]
      /\ arrays' = arrays /\ array' = array /\ item' = item /\ place' = place
      /\ bytes' = bytes /\ at' = at /\ got' = got
  BY DEF StartValue
<1>2. Items \in Seq(SUBSET Word) /\ item \in 0..Len(Items) /\ array \in DOMAIN arrays
  BY <1>1, MessageFacts
<1>3. Items[item + 1] \in SUBSET Word
  BY <1>1, <1>2
<1>4. PICK s \in Places : Layout(s) /\ s[array][item] = Len(bytes) + 1
  BY <1>1 DEF VInv, Writing
<1>5. Layout(s)'
  BY <1>1, <1>4 DEF Layout, Passed, Written, GroupAt
<1>6. PartWritten(s[array][item])'
  <2>1. Len(bytes) \in Nat
    BY DEF VInv, VarintTypeOK
  <2>2. (Len(bytes) + 1 - (Len(bytes) + 1)) * GroupBits = 0
    <3>1. Len(bytes) + 1 - (Len(bytes) + 1) = 0
      BY <2>1
    <3> QED BY <3>1, GroupFacts
  <2>3. value' = ShiftRight(Items[item + 1], 0)
    BY <1>1, <1>3, ShiftRightNone
  <2> QED BY <1>1, <1>4, <2>1, <2>2, <2>3 DEF PartWritten, InArray, Items
<1>7. Writing'
  BY <1>1, <1>4, <1>5, <1>6 DEF VInv, Writing
<1>8. VarintTypeOK'
  BY <1>1, <1>3 DEF VInv, VarintTypeOK, InArray, Items
<1> QED BY <1>1, <1>7, <1>8 DEF VInv, Reading, DeliversInOrder, InArray

\* The layout of what is passed does not depend on a byte that follows.
LEMMA LayoutStays ==
  ASSUME VarintTypeOK, NEW byte, bytes' = Append(bytes, byte),
         UNCHANGED <<arrays, array, item>>, NEW s \in Places, Layout(s)
  PROVE  Layout(s)'
<1>1. bytes \in Seq(SUBSET Mask(ByteBits)) /\ arrays \in Seq(ArrayType)
  BY DEF VarintTypeOK
<1>2. ASSUME NEW a \in DOMAIN arrays, NEW i \in DOMAIN arrays[a].ints, Passed(a, i)
      PROVE  Written(s[a][i - 1], s[a][i], arrays[a].ints[i])'
  <2>1. arrays[a] \in ArrayType /\ a \in Nat
    BY <1>1
  <2>2. arrays[a].ints \in Seq(SUBSET Word)
    BY <2>1 DEF ArrayType
  <2>3. i \in Nat /\ i - 1 \in Nat
    BY <2>2
  <2>4. s[a][i - 1] \in Nat /\ s[a][i] \in Nat /\ arrays[a].ints[i] \in SUBSET Word
    <3>1. s[a][i - 1] \in Nat /\ s[a][i] \in Nat
      BY <2>1, <2>3 DEF Places
    <3>2. arrays[a].ints[i] \in SUBSET Word
      BY <2>2
    <3> QED BY <3>1, <3>2
  <2>5. PICK p \in Nat, q \in Nat, word \in SUBSET Word :
          p = s[a][i - 1] /\ q = s[a][i] /\ word = arrays[a].ints[i]
    BY <2>4
  <2>6. Written(p, q, word)
    BY <1>2, <2>5 DEF Layout
  <2>7. Written(p, q, word)'
    BY <1>1, <2>6, WrittenStays
  <2> QED BY <2>5, <2>7 DEF Written, GroupAt
<1> QED BY <1>2 DEF Layout, Passed

\* What value_encode() has still to write of an integer.
LEMMA PartFacts ==
  ASSUME VInv, NEW p \in Nat, PartWritten(p)
  PROVE  /\ Len(bytes) + 1 - p \in Nat /\ Items[item + 1] \in SUBSET Word
         /\ (Len(bytes) + 1 - p) * GroupBits \in Nat
         /\ (Len(bytes) + 2 - p) * GroupBits = (Len(bytes) + 1 - p) * GroupBits + GroupBits
         /\ \A b \in Nat : b \in value <=>
              b \in Word /\ b + (Len(bytes) + 1 - p) * GroupBits \in Items[item + 1]
<1>1. bytes \in Seq(SUBSET Mask(ByteBits)) /\ Len(bytes) \in Nat
  BY DEF VInv, VarintTypeOK
<1>2. step # "idle" \/ ~InArray
  BY DEF VInv, VarintInit, InArray
<1>3. Items[item + 1] \in SUBSET Word
  <2>1. Items \in Seq(SUBSET Word) /\ item \in 0..Len(Items)
    BY <1>2, MessageFacts DEF PartWritten
  <2> QED BY <2>1 DEF PartWritten
<1>4. PICK c \in Nat : c = Len(bytes) + 1 - p
  BY <1>1 DEF PartWritten
<1>5. Len(bytes) + 2 - p = c + 1
  BY <1>1, <1>4
<1>6. (c + 1) * GroupBits = c * GroupBits + GroupBits /\ c * GroupBits \in Nat
  BY GroupFacts, ProductNext, ProductType
<1>7. \A b \in Nat : b \in value <=> b \in Word /\ b + c * GroupBits \in Items[item + 1]
  BY <1>4 DEF PartWritten, ShiftRight
<1> QED BY <1>3, <1>4, <1>5, <1>6, <1>7

\* The next byte that is written holds the next bits of the integer.
LEMMA GroupWritten ==
  ASSUME VInv, NEW p \in Nat, PartWritten(p), NEW word, word = Items[item + 1],
         NEW byte, bytes' = Append(bytes, byte),
         \A b \in 0..(GroupBits - 1) : b \in byte <=> b \in value
  PROVE  \A k \in p..(Len(bytes) + 1) : GroupAt(p, k, word)'
<1> DEFINE l == Len(bytes)
<1>1. /\ l + 1 - p \in Nat /\ word \in SUBSET Word /\ (l + 1 - p) * GroupBits \in Nat
      /\ \A b \in Nat : b \in value <=> b \in Word /\ b + (l + 1 - p) * GroupBits \in word
  BY PartFacts
<1>2. bytes \in Seq(SUBSET Mask(ByteBits)) /\ l \in Nat
  BY DEF VInv, VarintTypeOK
<1>3. bytes'[l + 1] = byte /\ \A k \in 1..l : bytes'[k] = bytes[k]
  BY <1>2
<1>4. ASSUME NEW k \in p..l, NEW b \in 0..(GroupBits - 1)
      PROVE  b \in bytes'[k] <=> b + (k - p) * GroupBits \in word
  <2>1. GroupAt(p, k, word)
    BY DEF PartWritten
  <2>2. k \in 1..l
    BY <1>2 DEF PartWritten
  <2> QED BY <1>3, <2>1, <2>2 DEF GroupAt
<1>5. ASSUME NEW b \in 0..(GroupBits - 1)
      PROVE  b \in bytes'[l + 1] <=> b + ((l + 1) - p) * GroupBits \in word
  <2>1. PICK c \in Nat : c = (l + 1 - p) * GroupBits
    BY <1>1
  <2>2. b \in Nat /\ (b + c \in word => b \in Word)
    BY <1>1, <2>1, GroupFacts, WordAssumption DEF Word
  <2>3. b \in value <=> b + c \in word
    BY <1>1, <2>1, <2>2
  <2> QED BY <1>3, <2>1, <2>3
<1>6. ASSUME NEW k \in p..(l + 1) PROVE GroupAt(p, k, word)'
  <2>1. k = l + 1 \/ k \in p..l
    BY <1>2
  <2> HIDE DEF l
  <2> QED BY <1>4, <1>5, <2>1 DEF GroupAt
<1> QED BY <1>6

\* A byte is written and marked.
LEMMA PutMarkedInv ==
  ASSUME VInv, PutMarked
  PROVE  VInv'
<1> DEFINE byte == (value \cup Mark) \cap Mask(ByteBits)
           l == Len(bytes)
<1>1. /\ step = "put" /\ step' = "put" /\ value \ Mask(GroupBits) # {}
      /\ bytes' = Append(bytes, byte) /\ value' = ShiftRight(value, GroupBits)
      /\ arrays' = arrays /\ array' = array /\ item' = item /\ place' = place
      /\ at' = at /\ got' = got
  BY DEF PutMarked, NeedsMore
<1>2. /\ VarintTypeOK /\ bytes \in Seq(SUBSET Mask(ByteBits)) /\ l \in Nat
      /\ value \in SUBSET Word
  BY DEF VInv, VarintTypeOK
<1>3. PICK s \in Places : Layout(s) /\ PartWritten(s[array][item])
  BY <1>1 DEF VInv, Writing
<1>4. array \in Nat /\ item \in Nat
  BY <1>1, <1>3, MessageFacts DEF PartWritten, VInv, VarintTypeOK
<1>5. PICK p \in Nat : p = s[array][item]
  BY <1>4 DEF Places
<1>6. PICK word \in SUBSET Word : word = Items[item + 1]
  BY <1>3, <1>5, PartFacts
<1>7. /\ PartWritten(p) /\ l + 1 - p \in Nat
      /\ (l + 1 - p) * GroupBits \in Nat
      /\ (l + 2 - p) * GroupBits = (l + 1 - p) * GroupBits + GroupBits
  BY <1>3, <1>5, <1>6, PartFacts
<1>8. byte \in SUBSET Mask(ByteBits) /\ GroupBits \in byte
      /\ \A b \in 0..(GroupBits - 1) : b \in byte <=> b \in value
  BY GroupFacts
<1> HIDE DEF byte
<1>9. Layout(s)'
  BY <1>1, <1>2, <1>3, LayoutStays
<1>10. Len(bytes') = l + 1 /\ bytes'[l + 1] = byte /\ \A k \in 1..l : bytes'[k] = bytes[k]
  BY <1>1, <1>2
<1>11. \A k \in p..(l + 1) : GroupAt(p, k, word)'
  BY <1>1, <1>7, <1>8, <1>6, GroupWritten
<1>12. \A k \in p..(l + 1) : GroupBits \in bytes'[k]
  <2>1. \A k \in p..l : GroupBits \in bytes[k]
    BY <1>7 DEF PartWritten
  <2>2. p >= 1
    BY <1>2, <1>7 DEF PartWritten
  <2> QED BY <1>2, <1>8, <1>10, <2>1, <2>2
<1>13. value' = ShiftRight(word, (l + 2 - p) * GroupBits)
  <2>1. PICK c \in Nat : c = (l + 1 - p) * GroupBits
    BY <1>7
  <2>2. value = ShiftRight(word, c)
    BY <1>6, <1>7, <2>1 DEF PartWritten
  <2>3. value' = ShiftRight(word, c + GroupBits)
    BY <1>1, <1>7, <2>2, ShiftRightAgain, GroupFacts
  <2> QED BY <1>7, <2>1, <2>3
<1>14. value' # {}
  <2>1. PICK b \in value : ~(b \in Mask(GroupBits))
    BY <1>1
  <2>2. b \in Word /\ b - GroupBits \in Word /\ (b - GroupBits) + GroupBits = b
    BY <1>2, <2>1, GroupFacts, WordAssumption DEF Word, Mask
  <2>3. b - GroupBits \in ShiftRight(value, GroupBits)
    BY <2>1, <2>2 DEF ShiftRight
  <2> QED BY <1>1, <2>3
<1>15. PartWritten(s[array][item])'
  <2>1. Len(bytes') + 1 - p = l + 2 - p
    BY <1>2, <1>10
  <2>2. p \in 1..(Len(bytes') + 1)
    BY <1>2, <1>7, <1>10 DEF PartWritten
  <2>3. InArray /\ item < Len(Items)
    BY <1>7 DEF PartWritten
  <2>4. InArray' /\ Items' = Items
    BY <1>1, <2>3 DEF InArray, Items
  <2>5. (Items[item + 1])' = word
    BY <1>1, <1>6, <2>4
  <2> QED BY <1>1, <1>5, <1>10, <1>11, <1>12, <1>13, <1>14, <2>1, <2>2, <2>3, <2>4, <2>5
          DEF PartWritten
<1>16. Writing'
  BY <1>1, <1>9, <1>15 DEF VInv, Writing
<1>17. VarintTypeOK'
  <2>1. value' \in SUBSET Word
    BY <1>1 DEF ShiftRight
  <2>2. bytes' \in Seq(SUBSET Mask(ByteBits))
    BY <1>1, <1>2, <1>8
  <2>3. at' \in 1..(Len(bytes') + 1)
    BY <1>1, <1>2, <1>10 DEF VarintTypeOK
  <2> QED BY <1>1, <1>2, <2>1, <2>2, <2>3 DEF VarintTypeOK, InArray, Items
<1> QED BY <1>1, <1>16, <1>17 DEF VInv, Reading, DeliversInOrder, InArray

\* The last byte of an integer is written.
LEMMA PutLastInv ==
  ASSUME VInv, PutLast
  PROVE  VInv'
<1> DEFINE l == Len(bytes)
<1>1. /\ step = "put" /\ step' = "write" /\ value \subseteq Mask(GroupBits)
      /\ bytes' = Append(bytes, value) /\ value' = {} /\ item' = item + 1
      /\ arrays' = arrays /\ array' = array /\ place' = place /\ at' = at /\ got' = got
  BY DEF PutLast, NeedsMore
<1>2. /\ VarintTypeOK /\ bytes \in Seq(SUBSET Mask(ByteBits)) /\ l \in Nat
      /\ value \in SUBSET Word
  BY DEF VInv, VarintTypeOK
<1>3. PICK s \in Places : Layout(s) /\ PartWritten(s[array][item])
  BY <1>1 DEF VInv, Writing
<1>4. /\ array \in DOMAIN arrays /\ array \in Nat /\ item \in Nat
      /\ InArray /\ item + 1 \in 1..Len(Items)
  BY <1>1, <1>3, MessageFacts, SMTT(30) DEF PartWritten, VInv, VarintTypeOK
<1>5. PICK p \in Nat : p = s[array][item]
  BY <1>4 DEF Places
<1>6. PICK word \in SUBSET Word : word = Items[item + 1]
  BY <1>3, <1>5, PartFacts
<1>7. /\ PartWritten(p) /\ l + 1 - p \in Nat
      /\ (l + 1 - p) * GroupBits \in Nat
      /\ (l + 2 - p) * GroupBits = (l + 1 - p) * GroupBits + GroupBits
      /\ \A b \in Nat : b \in value <=> b \in Word /\ b + (l + 1 - p) * GroupBits \in word
  BY <1>3, <1>5, <1>6, PartFacts
<1>8. value \subseteq Mask(ByteBits) /\ ~(GroupBits \in value)
  <2>1. Mask(GroupBits) = 0..(GroupBits - 1)
    BY DEF Mask
  <2> QED BY <1>1, <2>1, GroupFacts
<1>9. Len(bytes') = l + 1 /\ bytes'[l + 1] = value /\ \A k \in 1..l : bytes'[k] = bytes[k]
  BY <1>1, <1>2
<1>10. PICK t \in Places :
        /\ t[array][item + 1] = l + 2
        /\ \A b \in Nat, j \in Nat : b # array \/ j # item + 1 => t[b][j] = s[b][j]
  <2>1. l + 2 \in Nat /\ item + 1 \in Nat
    BY <1>2, <1>4
  <2>2. PICK i \in Nat, q \in Nat : i = item + 1 /\ q = l + 2
    BY <2>1
  <2>3. PICK t \in Places : Moved(s, t, array, i, q)
    BY <1>4, PlaceSet
  <2> QED BY <2>2, <2>3 DEF Moved
<1>11. \A k \in p..(l + 1) : /\ bytes'[k] = IF k = l + 1 THEN value ELSE bytes[k]
                             /\ GroupBits \in bytes'[k] <=> k < l + 1
  <2>1. \A k \in p..l : GroupBits \in bytes[k]
    BY <1>7 DEF PartWritten
  <2>2. p >= 1
    BY <1>2, <1>7 DEF PartWritten
  <2> QED BY <1>2, <1>8, <1>9, <2>1, <2>2
<1>12. word \subseteq Mask((l + 2 - p) * GroupBits)
  <2>1. PICK c \in Nat : c = (l + 1 - p) * GroupBits
    BY <1>7
  <2>2. ASSUME NEW b \in word PROVE b \in 0..(c + GroupBits - 1)
    <3>1. b \in Word /\ b \in Nat
      BY <1>7, WordAssumption DEF Word
    <3>2. CASE b < c
      BY <2>1, <3>1, <3>2, GroupFacts
    <3>3. CASE b >= c
      <4>1. b - c \in Word /\ b - c \in Nat /\ (b - c) + c = b
        BY <2>1, <3>1, <3>3, WordAssumption DEF Word
      <4>2. b - c \in value
        BY <1>7, <2>1, <4>1
      <4>3. b - c < GroupBits
        BY <1>1, <4>1, <4>2, GroupFacts DEF Mask
      <4> QED BY <2>1, <3>1, <4>1, <4>3, GroupFacts
    <3> QED BY <2>1, <3>1, <3>2, <3>3
  <2>3. (l + 2 - p) * GroupBits = c + GroupBits
    BY <1>7, <2>1
  <2>4. word \subseteq Mask(c + GroupBits)
    BY <2>1, <2>2, GroupFacts DEF Mask
  <2> QED BY <2>3, <2>4
<1>13. p < l + 1 => word \ Mask((l + 1 - p) * GroupBits) # {}
  <2> SUFFICES ASSUME p < l + 1 PROVE word \ Mask((l + 1 - p) * GroupBits) # {}
    OBVIOUS
  <2>1. PICK c \in Nat : c = (l + 1 - p) * GroupBits
    BY <1>7
  <2>2. PICK b \in value : TRUE
    BY <1>7 DEF PartWritten
  <2>3. b \in Nat /\ b + c \in word
    BY <1>2, <1>7, <2>1, <2>2, WordAssumption DEF Word
  <2>4. ~(b + c \in Mask(c))
    BY <2>1, <2>3 DEF Mask
  <2> QED BY <2>1, <2>3, <2>4
<1>14. \A q : q = l + 2 => Written(p, q, word)'
  <2>1. \A k \in p..(l + 1) : GroupAt(p, k, word)'
    BY <1>1, <1>7, <1>6, GroupWritten
  <2>2. p \in 1..(l + 1) /\ l + 2 - 1 = l + 1 /\ l + 2 <= Len(bytes') + 1
    BY <1>2, <1>7, <1>9 DEF PartWritten
  <2> QED BY <1>9, <1>11, <1>12, <1>13, <2>1, <2>2 DEF Written

<1>15. Layout(t)'
  <2>1. Layout(s)
    BY <1>3
  <2>2. ASSUME NEW a \in DOMAIN arrays, a < array
        PROVE  t[a + 1][0] = t[a][Len(arrays[a].ints)]
    <3>1. arrays[a] \in ArrayType /\ a \in Nat
      BY <1>2 DEF VarintTypeOK
    <3>2. Len(arrays[a].ints) \in Nat
      BY <3>1 DEF ArrayType
    <3>3. t[a + 1][0] = s[a + 1][0] /\ t[a][Len(arrays[a].ints)] = s[a][Len(arrays[a].ints)]
      BY <1>4, <1>10, <2>2, <3>1, <3>2
    <3> QED BY <2>1, <2>2, <3>3 DEF Layout
  <2>3. ASSUME NEW a \in DOMAIN arrays, NEW i \in DOMAIN arrays[a].ints, Passed(a, i)'
        PROVE  Written(t[a][i - 1], t[a][i], arrays[a].ints[i])'
    <3>1. arrays[a] \in ArrayType /\ a \in Nat
      BY <1>2 DEF VarintTypeOK
    <3>2. arrays[a].ints \in Seq(SUBSET Word)
      BY <3>1 DEF ArrayType
    <3>3. i \in Nat /\ i - 1 \in Nat
      BY <3>2
    <3>4. CASE a = array /\ i = item + 1
      <4>1. t[a][i - 1] = p /\ t[a][i] = l + 2 /\ arrays'[a].ints[i] = word
        BY <1>1, <1>4, <1>5, <1>6, <1>10, <3>3, <3>4 DEF Items
      <4>2. PICK q : q = l + 2
        OBVIOUS
      <4>3. Written(p, q, word)'
        BY <1>14, <4>2
      <4> QED BY <1>1, <3>4, <4>1, <4>2, <4>3 DEF Written, GroupAt
    <3>5. CASE ~(a = array /\ i = item + 1)
      <4>1. Passed(a, i)
        BY <1>1, <1>4, <2>3, <3>3, <3>5 DEF Passed
      <4>2. t[a][i - 1] = s[a][i - 1] /\ t[a][i] = s[a][i]
        BY <1>4, <1>10, <3>1, <3>3, <3>5, <4>1 DEF Passed
      <4>3. Written(s[a][i - 1], s[a][i], arrays[a].ints[i])
        BY <2>1, <4>1 DEF Layout
      <4>4. s[a][i - 1] \in Nat /\ s[a][i] \in Nat /\ arrays[a].ints[i] \in SUBSET Word
        <5>1. s[a][i - 1] \in Nat /\ s[a][i] \in Nat
          BY <3>1, <3>3 DEF Places
        <5>2. arrays[a].ints[i] \in SUBSET Word
          BY <3>2
        <5> QED BY <5>1, <5>2
      <4>5. PICK x \in Nat, y \in Nat, z \in SUBSET Word :
              x = t[a][i - 1] /\ y = t[a][i] /\ z = arrays[a].ints[i]
        BY <4>2, <4>4
      <4>6. Written(x, y, z)'
        BY <1>1, <1>2, <4>2, <4>3, <4>5, WrittenStays
      <4> QED BY <1>1, <4>5, <4>6 DEF Written, GroupAt
    <3> QED BY <3>4, <3>5
  <2>4. t[1][0] = 1
    BY <1>4, <1>10, <2>1 DEF Layout
  <2> QED BY <1>1, <2>2, <2>3, <2>4 DEF Layout
<1>16. Writing'
  <2>1. t[array'][item'] = Len(bytes') + 1
    BY <1>1, <1>2, <1>9, <1>10
  <2>2. got' = <<>> /\ place' = 0 /\ at' = 1
    BY <1>1 DEF VInv, Writing
  <2> QED BY <1>1, <1>15, <2>1, <2>2 DEF Writing
<1>17. VarintTypeOK'
  <2>1. item' \in 0..Len(Items')
    BY <1>1, <1>4 DEF Items
  <2>2. bytes' \in Seq(SUBSET Mask(ByteBits))
    BY <1>1, <1>2, <1>8
  <2>3. at' \in 1..(Len(bytes') + 1)
    BY <1>1, <1>2, <1>9 DEF VarintTypeOK
  <2> QED BY <1>1, <1>2, <2>1, <2>2, <2>3 DEF VarintTypeOK, InArray
<1> QED BY <1>1, <1>4, <1>16, <1>17 DEF VInv, Reading, DeliversInOrder, InArray

\* An array of a message, by its index.
LEMMA ArrayFacts ==
  ASSUME VarintTypeOK, NEW a \in DOMAIN arrays
  PROVE  /\ a \in Nat \ {0} /\ a <= Len(arrays) /\ Len(arrays) \in Nat
         /\ arrays[a].ints \in Seq(SUBSET Word) /\ Len(arrays[a].ints) \in Nat
         /\ \A i \in DOMAIN arrays[a].ints : i \in 1..Len(arrays[a].ints)
<1>1. arrays[a] \in ArrayType /\ arrays \in Seq(ArrayType)
  BY DEF VarintTypeOK
<1>2. arrays[a].ints \in Seq(SUBSET Word)
  BY <1>1 DEF ArrayType
<1> QED BY <1>1, <1>2

\* The call of encode() for an array, or that of decode(), returns.
LEMMA NextArrayInv ==
  ASSUME VInv, NextArray
  PROVE  VInv'
<1>1. /\ step \in {"write", "read"} /\ step' = step /\ InArray /\ item = Len(Items)
      /\ array' = array + 1 /\ item' = 0 /\ arrays' = arrays /\ value' = value
      /\ place' = place /\ bytes' = bytes /\ at' = at /\ got' = got
  BY DEF NextArray
<1>2. VarintTypeOK
  BY DEF VInv
<1>3. /\ array \in DOMAIN arrays /\ array \in Nat \ {0} /\ array \in 1..Len(arrays)
      /\ Items = arrays[array].ints /\ item \in Nat /\ Len(arrays) \in Nat
  <2>1. array \in DOMAIN arrays /\ Items = arrays[array].ints
    BY <1>1, MessageFacts
  <2> QED BY <1>1, <1>2, <2>1, ArrayFacts
<1>4. VarintTypeOK'
  <2>1. array' \in 1..(Len(arrays') + 1)
    BY <1>1, <1>3
  <2>2. InArray' => item' \in 0..Len(Items')
    <3> SUFFICES ASSUME InArray' PROVE item' \in 0..Len(Items')
      OBVIOUS
    <3>1. array + 1 \in DOMAIN arrays
      BY <1>1, <1>2, <1>3 DEF InArray, VarintTypeOK
    <3>2. Len(arrays[array + 1].ints) \in Nat
      BY <1>2, <3>1, ArrayFacts
    <3> QED BY <1>1, <3>2 DEF Items
  <2> QED BY <1>1, <1>2, <2>1, <2>2 DEF VarintTypeOK
<1>5. Writing'
  <2> SUFFICES ASSUME step = "write" PROVE Writing'
    BY <1>1 DEF Writing
  <2>1. PICK s \in Places : Layout(s) /\ s[array][item] = Len(bytes) + 1
    BY DEF VInv, Writing
  <2>2. s[array][item] \in Nat /\ array + 1 \in Nat
    <3>1. array \in Nat /\ item \in Nat
      BY <1>3
    <3>2. s[array] \in [Nat -> Nat]
      BY <3>1 DEF Places
    <3> QED BY <3>1, <3>2
  <2>3. PICK t \in Places : Moved(s, t, array + 1, 0, s[array][item])
    <3>1. PICK b \in Nat, p \in Nat : b = array + 1 /\ p = s[array][item]
      BY <2>2
    <3>2. PICK t \in Places : Moved(s, t, b, 0, p)
      BY PlaceSet
    <3> QED BY <3>1, <3>2
  <2>4. /\ t[array + 1][0] = s[array][item]
        /\ \A b \in Nat, j \in Nat : b # array + 1 => t[b][j] = s[b][j]
    BY <2>3 DEF Moved
  <2>5. t[1][0] = 1
    BY <1>3, <2>1, <2>4 DEF Layout
  <2>6. ASSUME NEW a \in DOMAIN arrays, a < array + 1
        PROVE  t[a + 1][0] = t[a][Len(arrays[a].ints)]
    <3>1. a \in Nat \ {0} /\ Len(arrays[a].ints) \in Nat
      BY <1>2, ArrayFacts
    <3>2. t[a][Len(arrays[a].ints)] = s[a][Len(arrays[a].ints)]
      BY <1>3, <2>4, <2>6, <3>1
    <3>3. CASE a < array
      <4>1. t[a + 1][0] = s[a + 1][0]
        BY <1>3, <2>4, <3>1, <3>3
      <4> QED BY <2>1, <3>2, <3>3, <4>1 DEF Layout
    <3>4. CASE a = array
      BY <1>1, <1>3, <2>4, <3>2, <3>4
    <3> QED BY <1>3, <2>6, <3>1, <3>3, <3>4
  <2>7. ASSUME NEW a \in DOMAIN arrays, NEW i \in DOMAIN arrays[a].ints, Passed(a, i)'
        PROVE  Written(t[a][i - 1], t[a][i], arrays[a].ints[i])
    <3>1. a \in Nat \ {0} /\ i \in Nat \ {0} /\ i <= Len(arrays[a].ints)
      BY <1>2, ArrayFacts
    <3>2. Passed(a, i)
      BY <1>1, <1>3, <2>7, <3>1 DEF Passed
    <3>3. a # array + 1 /\ i - 1 \in Nat
      BY <1>3, <3>1, <3>2 DEF Passed
    <3>4. t[a][i - 1] = s[a][i - 1] /\ t[a][i] = s[a][i]
      BY <2>4, <3>1, <3>3
    <3> QED BY <2>1, <3>2, <3>4 DEF Layout
  <2>8. Layout(t)'
    BY <1>1, <2>5, <2>6, <2>7 DEF Layout, Written, GroupAt
  <2>9. t[array'][item'] = Len(bytes') + 1
    BY <1>1, <2>1, <2>4
  <2>10. got' = <<>> /\ place' = 0 /\ at' = 1 /\ value' = {}
    BY <1>1 DEF VInv, Writing
  <2> QED BY <1>1, <2>8, <2>9, <2>10 DEF Writing
<1>6. Reading'
  <2> SUFFICES ASSUME step = "read" PROVE Reading'
    BY <1>1 DEF Reading
  <2>1. PICK s \in Places :
          WholeLayout(s) /\ value = {} /\ place = 0 /\ at = s[array][item]
    BY DEF VInv, Reading
  <2>2. s[array + 1][0] = s[array][item]
    BY <1>1, <1>3, <2>1 DEF WholeLayout
  <2>3. at' = s[array'][item']
    BY <1>1, <2>1, <2>2
  <2>4. WholeLayout(s)'
    BY <1>1, <2>1 DEF WholeLayout, Written, GroupAt
  <2>5. ASSUME NEW a \in DOMAIN arrays PROVE Len(got'[a]) = GotOf(a)'
    <3>1. a \in Nat /\ Len(got[a]) = GotOf(a)
      BY <1>2, ArrayFacts DEF VInv, Reading
    <3>2. GotOf(a)' = GotOf(a)
      BY <1>1, <1>3, <3>1 DEF GotOf
    <3> QED BY <1>1, <3>1, <3>2
  <2>6. Len(got') = Len(arrays')
    BY <1>1 DEF VInv, Reading
  <2> QED BY <1>1, <2>1, <2>3, <2>4, <2>5, <2>6 DEF Reading
<1>7. (~InArray => item = 0)' /\ DeliversInOrder' /\ arrays' \in Messages
  BY <1>1 DEF VInv, DeliversInOrder
<1> QED BY <1>1, <1>4, <1>5, <1>6, <1>7 DEF VInv

\* All arrays are encoded.
LEMMA WriteReturnsInv ==
  ASSUME VInv, WriteReturns
  PROVE  VInv'
<1>1. /\ step = "write" /\ step' = "read" /\ ~InArray /\ array' = 1 /\ item' = 0
      /\ got' = [a \in DOMAIN arrays |-> <<>>]
      /\ arrays' = arrays /\ value' = value /\ place' = place /\ bytes' = bytes
      /\ at' = at
  BY DEF WriteReturns
<1>2. VarintTypeOK /\ arrays \in Seq(ArrayType)
  BY DEF VInv, VarintTypeOK
<1>3. array = Len(arrays) + 1 /\ Len(arrays) \in Nat
  BY <1>1, <1>2 DEF InArray, VarintTypeOK
<1>4. /\ got' \in Seq(Seq(SUBSET Word)) /\ Len(got') = Len(arrays)
      /\ \A a \in DOMAIN arrays : got'[a] = <<>>
  <2>1. DOMAIN arrays = 1..Len(arrays) /\ Len(arrays) \in Nat
    BY <1>2
  <2>2. \A a \in DOMAIN arrays : got'[a] = <<>> /\ got'[a] \in Seq(SUBSET Word)
    BY <1>1
  <2>3. got' = [a \in 1..Len(arrays) |-> got'[a]]
    BY <1>1, <2>1
  <2> QED BY <2>1, <2>2, <2>3
<1>5. PICK s \in Places : Layout(s)
  BY <1>1 DEF VInv, Writing
<1>6. WholeLayout(s)
  <2>1. ASSUME NEW a \in DOMAIN arrays PROVE a < array
    BY <1>2, <1>3, ArrayFacts
  <2> QED BY <1>5, <2>1 DEF Layout, WholeLayout, Passed
<1>7. VarintTypeOK'
  <2>1. InArray' => item' \in 0..Len(Items')
    <3> SUFFICES ASSUME InArray' PROVE item' \in 0..Len(Items')
      OBVIOUS
    <3>1. 1 \in DOMAIN arrays
      BY <1>1, <1>2 DEF InArray
    <3> QED BY <1>1, <1>2, <3>1, ArrayFacts DEF Items
  <2>2. array' \in 1..(Len(arrays') + 1)
    BY <1>1, <1>3
  <2> QED BY <1>1, <1>2, <1>4, <2>1, <2>2 DEF VarintTypeOK
<1>8. Reading'
  <2>1. WholeLayout(s)'
    BY <1>1, <1>6 DEF WholeLayout, Written, GroupAt
  <2>2. value' = {} /\ place' = 0 /\ at' = s[array'][item']
    BY <1>1, <1>6 DEF WholeLayout, VInv, Writing
  <2>3. ASSUME NEW a \in DOMAIN arrays PROVE Len(got'[a]) = GotOf(a)'
    <3>1. a \in Nat \ {0}
      BY <1>2, ArrayFacts
    <3>2. GotOf(a)' = 0
      BY <1>1, <3>1 DEF GotOf
    <3> QED BY <1>4, <3>2
  <2> QED BY <1>1, <1>4, <2>1, <2>2, <2>3 DEF Reading
<1>9. DeliversInOrder'
  BY <1>1, <1>4 DEF DeliversInOrder
<1> QED BY <1>1, <1>7, <1>8, <1>9 DEF VInv, Writing, InArray

-------------------------------------------------------------------------------
(* The steps of decode().                                                   *)

\* A byte of an integer: its bits, and what its mark says of those that follow.
LEMMA ByteFacts ==
  ASSUME bytes \in Seq(SUBSET Mask(ByteBits)),
         NEW p \in Nat, NEW q \in Nat, NEW word \in SUBSET Word, Written(p, q, word),
         NEW k \in p..(q - 1)
  PROVE  /\ k \in 1..Len(bytes)
         /\ (k - p) * GroupBits \in Nat
         /\ (k + 1 - p) * GroupBits = (k - p) * GroupBits + GroupBits
         /\ \A b \in Int : b \in bytes[k] \ Mark <=>
              b \in 0..(GroupBits - 1) /\ b + (k - p) * GroupBits \in word
         /\ bytes[k] \ Mark \subseteq 0..(GroupBits - 1)
         /\ Continues(bytes[k]) =>
              k + 1 < q /\ word \ Mask((k + 1 - p) * GroupBits) # {}
         /\ ~Continues(bytes[k]) =>
              /\ k + 1 = q /\ bytes[k] = bytes[k] \ Mark
              /\ word \subseteq Mask((k + 1 - p) * GroupBits)
<1>1. k \in 1..Len(bytes) /\ Len(bytes) \in Nat
  BY DEF Written
<1>2. bytes[k] \subseteq 0..GroupBits /\ GroupBits \in Nat \ {0} /\ Mark = {GroupBits}
  BY <1>1, GroupFacts
<1>3. PICK d \in Nat : d = k - p
  OBVIOUS
<1>4. d * GroupBits \in Nat /\ (d + 1) * GroupBits = d * GroupBits + GroupBits
      /\ k + 1 - p = d + 1
  BY <1>2, <1>3, ProductType, ProductNext
<1>5. bytes[k] \ Mark \subseteq 0..(GroupBits - 1)
  BY <1>2
<1>6. \A b \in Int : b \in bytes[k] \ Mark <=>
         b \in 0..(GroupBits - 1) /\ b + d * GroupBits \in word
  <2>1. \A b \in 0..(GroupBits - 1) : b \in bytes[k] <=> b + d * GroupBits \in word
    BY <1>3 DEF Written, GroupAt
  <2>2. \A b \in 0..(GroupBits - 1) : ~(b \in Mark)
    BY <1>2
  <2> QED BY <1>5, <2>1, <2>2
<1>7. Continues(bytes[k]) <=> k < q - 1
  BY <1>2 DEF Continues, Written
<1>8. ASSUME Continues(bytes[k]) PROVE word \ Mask((d + 1) * GroupBits) # {}
  <2>1. PICK e \in Nat : e = q - 1 - p
    BY <1>3
  <2>2. word \ Mask(e * GroupBits) # {}
    <3>1. p < q - 1
      BY <1>7, <1>8
    <3> QED BY <2>1, <3>1 DEF Written
  <2>3. d + 1 <= e
    BY <1>3, <1>7, <1>8, <2>1
  <2>4. (d + 1) * GroupBits <= e * GroupBits /\ e * GroupBits \in Nat
    BY <1>2, <2>3, ProductOrder, ProductType
  <2>5. (d + 1) * GroupBits \in Nat
    BY <1>2, <1>4
  <2>6. Mask((d + 1) * GroupBits) \subseteq Mask(e * GroupBits)
    <3>1. PICK x \in Nat, y \in Nat : x = (d + 1) * GroupBits /\ y = e * GroupBits
      BY <2>4, <2>5
    <3>2. Mask(x) \subseteq Mask(y)
      BY <2>4, <3>1 DEF Mask
    <3> QED BY <3>1, <3>2
  <2> QED BY <2>2, <2>6
<1>9. ASSUME ~Continues(bytes[k])
      PROVE  /\ k + 1 = q /\ bytes[k] = bytes[k] \ Mark
             /\ word \subseteq Mask((d + 1) * GroupBits)
  <2>1. k + 1 = q
    BY <1>7, <1>9
  <2>2. word \subseteq Mask((q - p) * GroupBits) /\ q - p = d + 1
    BY <1>3, <2>1 DEF Written
  <2>3. bytes[k] = bytes[k] \ Mark
    BY <1>2, <1>9 DEF Continues
  <2> QED BY <2>1, <2>2, <2>3
<1>10. Continues(bytes[k]) => k + 1 < q
  BY <1>7
<1> QED BY <1>1, <1>3, <1>4, <1>5, <1>6, <1>8, <1>9, <1>10

\* The integer under way, and where its bytes are.
LEMMA PlaceFacts ==
  ASSUME VInv, step \in {"read", "take"}, InArray, item < Len(Items),
         NEW s \in Places, WholeLayout(s)
  PROVE  /\ s[array][item] \in Nat /\ s[array][item + 1] \in Nat
         /\ Items[item + 1] \in SUBSET Word
         /\ Items[item + 1] \subseteq Mask(arrays[array].bits)
         /\ Written(s[array][item], s[array][item + 1], Items[item + 1])
<1>1. /\ array \in DOMAIN arrays /\ Items = arrays[array].ints
      /\ Items \in Seq(SUBSET Word) /\ item \in 0..Len(Items)
      /\ \A i \in DOMAIN Items : Items[i] \subseteq Mask(arrays[array].bits)
  BY MessageFacts
<1>2. item + 1 \in DOMAIN Items /\ item \in Nat /\ item + 1 \in Nat /\ (item + 1) - 1 = item
  BY <1>1
<1>3. array \in Nat
  BY <1>1, ArrayFacts DEF VInv
<1>4. s[array] \in [Nat -> Nat]
  BY <1>3 DEF Places
<1>5. Written(s[array][(item + 1) - 1], s[array][item + 1], arrays[array].ints[item + 1])
  BY <1>1, <1>2 DEF WholeLayout
<1>6. s[array][item] \in Nat /\ s[array][item + 1] \in Nat
  BY <1>2, <1>4
<1>7. Items[item + 1] \in SUBSET Word /\ Items[item + 1] \subseteq Mask(arrays[array].bits)
  BY <1>1, <1>2
<1>8. Written(s[array][item], s[array][item + 1], Items[item + 1])
  BY <1>1, <1>2, <1>5
<1> QED BY <1>6, <1>7, <1>8

\* An integer is delivered.
LEMMA DeliverInv ==
  ASSUME VInv, step \in {"read", "take"}, InArray, item < Len(Items),
         NEW s \in Places, WholeLayout(s),
         Deliver(Items[item + 1]), UNCHANGED <<arrays, array, bytes>>,
         at' = s[array][item + 1]
  PROVE  VInv'
<1>1. /\ got' = [got EXCEPT ![array] = Append(@, Items[item + 1])]
      /\ item' = item + 1 /\ step' = "read" /\ value' = {} /\ place' = 0
      /\ arrays' = arrays /\ array' = array /\ bytes' = bytes
  BY DEF Deliver
<1>2. VarintTypeOK /\ got \in Seq(Seq(SUBSET Word))
  BY DEF VInv, VarintTypeOK
<1>3. /\ array \in DOMAIN arrays /\ array \in 1..Len(arrays) /\ Items = arrays[array].ints
      /\ Items \in Seq(SUBSET Word) /\ item \in 0..Len(Items) /\ Len(arrays) \in Nat
  <2>1. array \in DOMAIN arrays
    BY MessageFacts
  <2> QED BY <1>2, <2>1, MessageFacts, ArrayFacts
<1>4. Len(got) = Len(arrays) /\ \A a \in DOMAIN arrays : Len(got[a]) = GotOf(a)
  BY DEF VInv, Reading
<1>5. /\ Items[item + 1] \in SUBSET Word
      /\ Written(s[array][item], s[array][item + 1], Items[item + 1])
      /\ s[array][item] \in Nat /\ s[array][item + 1] \in Nat
  BY PlaceFacts
<1>6. got[array] \in Seq(SUBSET Word) /\ Len(got[array]) = item
  <2>1. GotOf(array) = item
    BY <1>3 DEF GotOf
  <2> QED BY <1>2, <1>3, <1>4, <2>1
<1>7. /\ got' \in Seq(Seq(SUBSET Word)) /\ Len(got') = Len(got) /\ DOMAIN got' = DOMAIN got
      /\ got'[array] = Append(got[array], Items[item + 1])
      /\ \A a \in DOMAIN got : a # array => got'[a] = got[a]
  <2>1. Append(got[array], Items[item + 1]) \in Seq(SUBSET Word)
    BY <1>5, <1>6
  <2>2. array \in DOMAIN got
    BY <1>2, <1>3, <1>4
  <2> QED BY <1>1, <1>2, <2>1, <2>2
<1>8. DeliversInOrder'
  <2>1. ASSUME NEW a \in DOMAIN got, NEW i \in DOMAIN got'[a]
        PROVE  got'[a][i] = arrays[a].ints[i]
    <3>1. CASE a # array
      BY <1>7, <2>1, <3>1 DEF VInv, DeliversInOrder
    <3>2. CASE a = array
      <4>1. \A j \in DOMAIN got[array] : got[array][j] = Items[j]
        BY <1>3, <2>1, <3>2 DEF VInv, DeliversInOrder
      <4>2. CASE i = item + 1
        BY <1>3, <1>5, <1>6, <1>7, <3>2, <4>2
      <4>3. CASE i # item + 1
        <5>1. i \in DOMAIN got[array] /\ got'[a][i] = got[array][i]
          BY <1>3, <1>5, <1>6, <1>7, <2>1, <3>2, <4>3
        <5> QED BY <1>3, <3>2, <4>1, <5>1
      <4> QED BY <4>2, <4>3
    <3> QED BY <3>1, <3>2
  <2> QED BY <1>1, <1>7, <2>1, SMTT(30) DEF DeliversInOrder
<1>9. ASSUME NEW a \in DOMAIN arrays PROVE Len(got'[a]) = GotOf(a)'
  <2>1. a \in Nat /\ a \in DOMAIN got
    BY <1>2, <1>4, ArrayFacts
  <2>2. CASE a = array
    <3>1. GotOf(a)' = item + 1
      BY <1>1, <2>1, <2>2 DEF GotOf
    <3>2. Len(got'[a]) = item + 1
      BY <1>5, <1>6, <1>7, <2>2
    <3> QED BY <3>1, <3>2
  <2>3. CASE a # array
    <3>1. GotOf(a)' = GotOf(a)
      BY <1>1, <2>3 DEF GotOf
    <3> QED BY <1>4, <1>7, <2>1, <2>3, <3>1
  <2> QED BY <2>2, <2>3
<1>10. Reading'
  <2>1. WholeLayout(s)'
    BY <1>1 DEF WholeLayout, Written, GroupAt
  <2>2. at' = s[array'][item']
    BY <1>1
  <2> QED BY <1>1, <1>4, <1>7, <1>9, <2>1, <2>2 DEF Reading
<1>11. VarintTypeOK'
  <2>1. item' \in 0..Len(Items')
    BY <1>1, <1>3 DEF Items
  <2>2. at' \in 1..(Len(bytes') + 1)
    <3>1. Len(bytes) \in Nat
      BY <1>2 DEF VarintTypeOK
    <3>2. at' >= 1 /\ at' <= Len(bytes) + 1
      BY <1>5, <3>1 DEF Written
    <3> QED BY <1>1, <1>5, <3>1, <3>2
  <2> QED BY <1>1, <1>2, <1>7, <2>1, <2>2 DEF VarintTypeOK, InArray
<1> QED BY <1>1, <1>8, <1>10, <1>11 DEF VInv, Writing, InArray

\* The first byte of an integer is the last.
LEMMA TakeOnlyInv ==
  ASSUME VInv, TakeOnly
  PROVE  VInv'
<1>1. /\ step = "read" /\ InArray /\ item < Len(Items) /\ ~Continues(bytes[at])
      /\ at' = at + 1 /\ Deliver(bytes[at]) /\ UNCHANGED <<arrays, array, bytes>>
  BY DEF TakeOnly, NextByte
<1>2. PICK s \in Places : WholeLayout(s) /\ at = s[array][item]
  BY <1>1 DEF VInv, Reading
<1>3. PICK word \in SUBSET Word : word = Items[item + 1]
  BY <1>1, <1>2, PlaceFacts
<1>4. PICK q \in Nat : q = s[array][item + 1]
  BY <1>1, <1>2, PlaceFacts
<1>5. at \in Nat /\ Written(at, q, word) /\ bytes \in Seq(SUBSET Mask(ByteBits))
  BY <1>1, <1>2, <1>3, <1>4, PlaceFacts DEF VInv, VarintTypeOK
<1>6. PICK k \in at..(q - 1) : k = at
  BY <1>5 DEF Written
<1>7. /\ (k - k) * GroupBits = 0 /\ (k + 1 - k) * GroupBits = GroupBits
  <2>1. k - k = 0 /\ k + 1 - k = 1
    BY <1>5
  <2> QED BY <2>1, GroupFacts
<1>8. /\ \A b \in Int : b \in bytes[k] \ Mark <=>
            b \in 0..(GroupBits - 1) /\ b + (k - at) * GroupBits \in word
      /\ bytes[k] \ Mark \subseteq 0..(GroupBits - 1)
      /\ k + 1 = q /\ bytes[k] = bytes[k] \ Mark
      /\ word \subseteq Mask((k + 1 - at) * GroupBits)
  BY <1>1, <1>5, <1>6, ByteFacts
<1>9. bytes[at] = word
  <2>1. word \subseteq 0..(GroupBits - 1)
    BY <1>6, <1>7, <1>8 DEF Mask
  <2>2. \A b \in 0..(GroupBits - 1) : b \in bytes[k] <=> b \in word
    BY <1>6, <1>7, <1>8, GroupFacts
  <2> QED BY <1>6, <1>8, <2>1, <2>2
<1>10. at' = s[array][item + 1]
  BY <1>1, <1>4, <1>6, <1>8
<1> QED BY <1>1, <1>2, <1>3, <1>9, <1>10, DeliverInv

\* The first byte of several.
LEMMA TakeFirstInv ==
  ASSUME VInv, TakeFirst
  PROVE  VInv'
<1>1. /\ step = "read" /\ step' = "take" /\ InArray /\ item < Len(Items)
      /\ Continues(bytes[at]) /\ at' = at + 1 /\ value' = bytes[at] \ Mark
      /\ place' = GroupBits /\ arrays' = arrays /\ array' = array /\ item' = item
      /\ bytes' = bytes /\ got' = got
  BY DEF TakeFirst, NextByte
<1>2. PICK s \in Places : WholeLayout(s) /\ at = s[array][item]
  BY <1>1 DEF VInv, Reading
<1>3. PICK word \in SUBSET Word : word = Items[item + 1]
  BY <1>1, <1>2, PlaceFacts
<1>4. PICK q \in Nat : q = s[array][item + 1]
  BY <1>1, <1>2, PlaceFacts
<1>5. /\ at \in Nat /\ Written(at, q, word) /\ bytes \in Seq(SUBSET Mask(ByteBits))
      /\ VarintTypeOK /\ Len(bytes) \in Nat
  BY <1>1, <1>2, <1>3, <1>4, PlaceFacts, SMTT(30) DEF VInv, VarintTypeOK
<1>6. PICK k \in at..(q - 1) : k = at
  BY <1>5 DEF Written
<1>7. (k - k) * GroupBits = 0 /\ (at + 1) - at = 1
  <2>1. k - k = 0 /\ (at + 1) - at = 1
    BY <1>5
  <2> QED BY <2>1, GroupFacts
<1>8. /\ k \in 1..Len(bytes) /\ k + 1 < q
      /\ \A b \in Int : b \in bytes[k] \ Mark <=>
            b \in 0..(GroupBits - 1) /\ b + (k - at) * GroupBits \in word
      /\ bytes[k] \ Mark \subseteq 0..(GroupBits - 1)
  BY <1>1, <1>5, <1>6, ByteFacts
<1>9. value' = word \cap Mask(GroupBits)
  <2>1. ASSUME NEW b \in 0..(GroupBits - 1) PROVE b \in bytes[k] \ Mark <=> b \in word
    <3>1. PICK z \in Int : z = (k - at) * GroupBits /\ z = 0
      BY <1>6, <1>7
    <3>2. b \in Int /\ b + z = b
      BY <3>1, GroupFacts
    <3> QED BY <1>8, <3>1, <3>2
  <2> QED BY <1>1, <1>6, <1>8, <2>1 DEF Mask
<1>10. place' = (at' - at) * GroupBits
  BY <1>1, <1>7, GroupFacts
<1>11. PartRead(s[array][item], s[array][item + 1], Items[item + 1])'
  <2>1. at < at' /\ at' < q
    BY <1>1, <1>5, <1>6, <1>8
  <2> QED BY <1>1, <1>2, <1>3, <1>4, <1>9, <1>10, <2>1 DEF PartRead, Items
<1>12. Reading'
  <2>1. WholeLayout(s)'
    BY <1>1, <1>2 DEF WholeLayout, Written, GroupAt
  <2>2. Len(got') = Len(arrays') /\ \A a \in DOMAIN arrays' : Len(got'[a]) = GotOf(a)'
    BY <1>1 DEF VInv, Reading, GotOf
  <2>3. InArray' /\ item' < Len(Items')
    BY <1>1 DEF InArray, Items
  <2> QED BY <1>1, <1>11, <2>1, <2>2, <2>3 DEF Reading
<1>13. VarintTypeOK'
  <2>1. at' \in 1..(Len(bytes') + 1) /\ place' \in Nat
    BY <1>1, <1>5, <1>6, <1>8, GroupFacts
  <2>2. value' \in SUBSET Word
    BY <1>9
  <2> QED BY <1>1, <1>5, <2>1, <2>2 DEF VarintTypeOK, InArray, Items
<1> QED BY <1>1, <1>12, <1>13 DEF VInv, Writing, DeliversInOrder, InArray

\* The bits of another byte go where they came from: the shift is less than the
\* width of the type.
LEMMA PieceFacts ==
  ASSUME VInv, step = "take", InArray, NEW p \in Nat, NEW q \in Nat,
         NEW word \in SUBSET Word, PartRead(p, q, word), Written(p, q, word),
         word \subseteq Mask(arrays[array].bits)
  PROVE  /\ at \in p..(q - 1)
         /\ place \in Nat /\ (at + 1 - p) * GroupBits = place + GroupBits
         /\ word \ Mask(place) # {}
         /\ \A piece \in Piece(bytes[at]) : value \cup piece = word \cap Mask(place + GroupBits)
<1> DEFINE bits == arrays[array].bits
           group == bytes[at] \ Mark
<1>1. /\ p < at /\ at < q
      /\ place = (at - p) * GroupBits /\ value = word \cap Mask(place)
  BY DEF PartRead
<1>2. Written(p, q, word) /\ word \subseteq Mask(bits)
  OBVIOUS
<1>3. /\ bytes \in Seq(SUBSET Mask(ByteBits)) /\ at \in Nat /\ place \in Nat
      /\ bits \in 1..WordBits
  BY MessageFacts DEF VInv, VarintTypeOK
<1>4. PICK k \in p..(q - 1), before \in p..(q - 1) : k = at /\ before = at - 1
  <2>1. at \in p..(q - 1) /\ at - 1 \in p..(q - 1)
    BY <1>1, <1>3
  <2> QED BY <2>1
<1>5. /\ \A b \in Int : b \in group <=>
           b \in 0..(GroupBits - 1) /\ b + place \in word
      /\ group \subseteq 0..(GroupBits - 1)
      /\ (at + 1 - p) * GroupBits = place + GroupBits
  <2>1. /\ \A b \in Int : b \in bytes[k] \ Mark <=>
              b \in 0..(GroupBits - 1) /\ b + (k - p) * GroupBits \in word
        /\ bytes[k] \ Mark \subseteq 0..(GroupBits - 1)
        /\ (k + 1 - p) * GroupBits = (k - p) * GroupBits + GroupBits
    <3>1. bytes \in Seq(SUBSET Mask(ByteBits)) /\ Written(p, q, word)
      BY <1>2, <1>3
    <3> HIDE DEF bits, group
    <3> QED BY <3>1, ByteFacts
  <2>2. place = (k - p) * GroupBits
    BY <1>1, <1>4
  <2> QED BY <1>4, <2>1, <2>2
<1>6. word \ Mask(place) # {}
  <2>1. /\ Continues(bytes[before]) => word \ Mask((before + 1 - p) * GroupBits) # {}
        /\ ~Continues(bytes[before]) => before + 1 = q
    <3>1. /\ bytes \in Seq(SUBSET Mask(ByteBits)) /\ Written(p, q, word)
          /\ p \in Nat /\ q \in Nat /\ word \in SUBSET Word /\ before \in p..(q - 1)
      BY <1>2, <1>3
    <3> HIDE DEF bits, group
    <3> QED BY ONLY <3>1, ByteFacts
  <2>2. before + 1 # q /\ before + 1 - p = at - p
    <3>1. at < q
      BY <1>1
    <3> QED BY <1>3, <1>4, <3>1
  <2> QED BY <1>1, <2>1, <2>2
<1>7. place < bits
  <2>1. PICK b \in word : ~(b \in Mask(place))
    BY <1>6
  <2>2. b \in 0..(bits - 1) /\ ~(b \in 0..(place - 1))
    BY <1>2, <2>1 DEF Mask
  <2> HIDE DEF bits
  <2> QED BY <1>3, <2>2
<1>8. place < Promoted(bits)
  BY <1>3, <1>7, VarintAssumption DEF Promoted
<1>9. ASSUME NEW piece \in Piece(bytes[at])
      PROVE  value \cup piece = word \cap Mask(place + GroupBits)
  <2>1. piece = ShiftLeft(group, place) \cap Mask(bits)
    BY <1>8, <1>9 DEF Piece
  <2> HIDE DEF group, bits
  <2>2. ASSUME NEW b \in Word
        PROVE  b \in value \cup piece <=> b \in word /\ b \in Mask(place + GroupBits)
    <3>1. b \in Nat /\ b \in Int
      BY WordAssumption DEF Word
    <3>2. b \in ShiftLeft(group, place) <=> b - place \in group
      <4>1. group \in SUBSET Int /\ place \in Int
        BY <1>3, <1>5, GroupFacts
      <4> QED BY <3>1, <4>1, ShiftLeftBit
    <3>3. b - place \in group <=> b - place \in 0..(GroupBits - 1) /\ b \in word
      <4>1. (b - place) + place = b /\ b - place \in Int
        BY <1>3, <3>1
      <4> QED BY <1>5, <4>1
    <3>4. b \in word => b \in Mask(bits)
      BY <1>2
    <3>5. b \in Mask(place) <=> b < place
      BY <1>3, <3>1 DEF Mask
    <3>6. b \in Mask(place + GroupBits) <=> b < place + GroupBits
      BY <1>3, <3>1, GroupFacts DEF Mask
    <3>7. b - place \in 0..(GroupBits - 1) <=> b >= place /\ b < place + GroupBits
      BY <1>3, <3>1, GroupFacts
    <3>8. b < place => b < place + GroupBits
      BY <1>3, <3>1, GroupFacts
    <3>9. b < place \/ b >= place
      BY <1>3, <3>1
    <3> QED BY <1>1, <2>1, <3>2, <3>3, <3>4, <3>5, <3>6, <3>7, <3>8, <3>9
  <2>3. piece \subseteq Word /\ value \subseteq Word
    BY <1>1, <2>1 DEF ShiftLeft
  <2> QED BY <2>2, <2>3
<1> QED BY <1>1, <1>2, <1>3, <1>4, <1>5, <1>6, <1>9

\* Another byte that is not the last.
LEMMA TakeNextInv ==
  ASSUME VInv, TakeNext
  PROVE  VInv'
<1>1. /\ step = "take" /\ step' = "take" /\ Continues(bytes[at]) /\ at' = at + 1
      /\ place' = place + GroupBits
      /\ arrays' = arrays /\ array' = array /\ item' = item /\ bytes' = bytes /\ got' = got
  BY DEF TakeNext, NextByte
<1>2. PICK piece \in Piece(bytes[at]) : value' = value \cup piece
  BY DEF TakeNext, NextByte
<1>3. PICK s \in Places :
        /\ WholeLayout(s) /\ InArray /\ item < Len(Items)
        /\ PartRead(s[array][item], s[array][item + 1], Items[item + 1])
  BY <1>1 DEF VInv, Reading
<1>4. /\ s[array][item] \in Nat /\ s[array][item + 1] \in Nat
      /\ Items[item + 1] \in SUBSET Word
      /\ Items[item + 1] \subseteq Mask(arrays[array].bits)
      /\ Written(s[array][item], s[array][item + 1], Items[item + 1])
  BY <1>1, <1>3, PlaceFacts
<1>5. PICK p \in Nat, q \in Nat, word \in SUBSET Word :
        p = s[array][item] /\ q = s[array][item + 1] /\ word = Items[item + 1]
  BY <1>4
<1>6. PartRead(p, q, word) /\ Written(p, q, word) /\ word \subseteq Mask(arrays[array].bits)
  BY <1>3, <1>4, <1>5
<1>7. /\ VarintTypeOK /\ bytes \in Seq(SUBSET Mask(ByteBits)) /\ Len(bytes) \in Nat
      /\ at \in Nat
  BY DEF VInv, VarintTypeOK
<1>8. /\ at \in p..(q - 1) /\ place \in Nat
      /\ (at + 1 - p) * GroupBits = place + GroupBits
      /\ value \cup piece = word \cap Mask(place + GroupBits)
  BY <1>1, <1>3, <1>6, PieceFacts
<1>9. at + 1 < q /\ at \in 1..Len(bytes)
  <2>1. PICK k \in p..(q - 1) : k = at
    BY <1>8
  <2>2. k \in 1..Len(bytes) /\ (Continues(bytes[k]) => k + 1 < q)
    BY <1>6, <1>7, ByteFacts
  <2> QED BY <1>1, <2>1, <2>2
<1>10. PartRead(p, q, word)'
  <2>1. p < at' /\ at' < q
    BY <1>1, <1>7, <1>8, <1>9
  <2>2. place' = (at' - p) * GroupBits
    <3>1. at' - p = at + 1 - p
      BY <1>1, <1>7
    <3> QED BY <1>1, <1>8, <3>1
  <2>3. value' = word \cap Mask(place')
    BY <1>1, <1>2, <1>8
  <2> QED BY <2>1, <2>2, <2>3 DEF PartRead
<1>11. Reading'
  <2>1. WholeLayout(s)'
    BY <1>1, <1>3 DEF WholeLayout, Written, GroupAt
  <2>2. Len(got') = Len(arrays') /\ \A a \in DOMAIN arrays' : Len(got'[a]) = GotOf(a)'
    BY <1>1 DEF VInv, Reading, GotOf
  <2>3. InArray' /\ item' < Len(Items') /\ Items' = Items
    BY <1>1, <1>3 DEF InArray, Items
  <2>4. PartRead(s[array][item], s[array][item + 1], Items[item + 1])'
    BY <1>1, <1>5, <1>10, <2>3 DEF PartRead
  <2> QED BY <1>1, <2>1, <2>2, <2>3, <2>4 DEF Reading
<1>12. VarintTypeOK'
  <2>1. at' \in 1..(Len(bytes') + 1) /\ place' \in Nat
    BY <1>1, <1>7, <1>8, <1>9, GroupFacts
  <2>2. value' \in SUBSET Word
    BY <1>2, <1>8
  <2> QED BY <1>1, <1>7, <2>1, <2>2 DEF VarintTypeOK, InArray, Items
<1> QED BY <1>1, <1>11, <1>12 DEF VInv, Writing, DeliversInOrder, InArray

\* The last byte of an integer.
LEMMA TakeLastInv ==
  ASSUME VInv, TakeLast
  PROVE  VInv'
<1>1. /\ step = "take" /\ ~Continues(bytes[at]) /\ at' = at + 1
      /\ UNCHANGED <<arrays, array, bytes>>
  BY DEF TakeLast, NextByte
<1>2. PICK piece \in Piece(bytes[at]) : Deliver(value \cup piece)
  BY DEF TakeLast, NextByte
<1>3. PICK s \in Places :
        /\ WholeLayout(s) /\ InArray /\ item < Len(Items)
        /\ PartRead(s[array][item], s[array][item + 1], Items[item + 1])
  BY <1>1 DEF VInv, Reading
<1>4. /\ s[array][item] \in Nat /\ s[array][item + 1] \in Nat
      /\ Items[item + 1] \in SUBSET Word
      /\ Items[item + 1] \subseteq Mask(arrays[array].bits)
      /\ Written(s[array][item], s[array][item + 1], Items[item + 1])
  BY <1>1, <1>3, PlaceFacts
<1>5. PICK p \in Nat, q \in Nat, word \in SUBSET Word :
        p = s[array][item] /\ q = s[array][item + 1] /\ word = Items[item + 1]
  BY <1>4
<1>6. PartRead(p, q, word) /\ Written(p, q, word) /\ word \subseteq Mask(arrays[array].bits)
  BY <1>3, <1>4, <1>5
<1>7. bytes \in Seq(SUBSET Mask(ByteBits))
  BY DEF VInv, VarintTypeOK
<1>8. /\ at \in p..(q - 1)
      /\ (at + 1 - p) * GroupBits = place + GroupBits
      /\ value \cup piece = word \cap Mask(place + GroupBits)
  BY <1>1, <1>3, <1>6, PieceFacts
<1>9. at + 1 = q /\ word \subseteq Mask(place + GroupBits)
  <2>1. PICK k \in p..(q - 1) : k = at
    BY <1>8
  <2>2. ~Continues(bytes[k]) =>
          /\ k + 1 = q /\ bytes[k] = bytes[k] \ Mark
          /\ word \subseteq Mask((k + 1 - p) * GroupBits)
    BY <1>6, <1>7, ByteFacts
  <2> QED BY <1>1, <1>8, <2>1, <2>2
<1>10. Deliver(Items[item + 1]) /\ at' = s[array][item + 1]
  <2>1. value \cup piece = Items[item + 1]
    BY <1>5, <1>8, <1>9
  <2> QED BY <1>1, <1>2, <1>5, <1>9, <2>1
<1> QED BY <1>1, <1>3, <1>10, DeliverInv

\* Nothing is left when the client is done.
LEMMA VarintInitInv == VarintInit => VInv
<1> SUFFICES ASSUME VarintInit PROVE VInv
  OBVIOUS
<1>1. VarintTypeOK /\ ~InArray
  BY WordAssumption DEF VarintInit, VarintTypeOK, InArray
<1> QED BY <1>1 DEF VarintInit, VInv, Writing, Reading, DeliversInOrder

LEMMA ReadReturnsInv == ReadReturns => VInv'
<1> SUFFICES ASSUME ReadReturns PROVE VInv'
  OBVIOUS
<1>1. VarintInit'
  BY DEF ReadReturns, VarintInit
<1>2. VarintTypeOK' /\ ~InArray'
  BY <1>1, WordAssumption DEF VarintInit, VarintTypeOK, InArray
<1> QED BY <1>1, <1>2 DEF VarintInit, VInv, Writing, Reading, DeliversInOrder

\* Every step keeps the invariant.
LEMMA NextVInv == VInv /\ [VarintNext]_varintVars => VInv'
<1> SUFFICES ASSUME VInv, [VarintNext]_varintVars PROVE VInv'
  OBVIOUS
<1>1. CASE UNCHANGED varintVars
  <2>1. /\ step' = step /\ arrays' = arrays /\ array' = array /\ item' = item
        /\ value' = value /\ place' = place /\ bytes' = bytes /\ at' = at /\ got' = got
    BY <1>1 DEF varintVars
  <2>2. InArray' = InArray /\ Items' = Items
    BY <2>1 DEF InArray, Items
  <2>3. VarintTypeOK' /\ DeliversInOrder' /\ (step = "idle" => VarintInit')
    BY <2>1, <2>2 DEF VInv, VarintTypeOK, DeliversInOrder, VarintInit
  <2>4. \A s \in Places : (Layout(s) => Layout(s)') /\ (WholeLayout(s) => WholeLayout(s)')
    <3>1. \A p, q, word : Written(p, q, word)' <=> Written(p, q, word)
      BY <2>1 DEF Written, GroupAt
    <3>2. \A a, i : Passed(a, i)' <=> Passed(a, i)
      BY <2>1 DEF Passed
    <3> QED BY <2>1, <3>1, <3>2 DEF Layout, WholeLayout
  <2>5. Writing'
    <3> SUFFICES ASSUME step \in {"write", "put"} PROVE Writing'
      BY <2>1 DEF Writing
    <3>1. PICK s \in Places :
            /\ Layout(s)
            /\ step = "write" => value = {} /\ s[array][item] = Len(bytes) + 1
            /\ step = "put" => PartWritten(s[array][item])
      BY DEF VInv, Writing
    <3>2. PartWritten(s[array][item]) => PartWritten(s[array][item])'
      BY <2>1, <2>2 DEF PartWritten, GroupAt
    <3> QED BY <2>1, <2>4, <3>1, <3>2 DEF VInv, Writing
  <2>6. Reading'
    <3> SUFFICES ASSUME step \in {"read", "take"} PROVE Reading'
      BY <2>1 DEF Reading
    <3>1. PICK s \in Places :
            /\ WholeLayout(s)
            /\ step = "read" => value = {} /\ place = 0 /\ at = s[array][item]
            /\ step = "take" =>
                 /\ InArray /\ item < Len(Items)
                 /\ PartRead(s[array][item], s[array][item + 1], Items[item + 1])
      BY DEF VInv, Reading
    <3>2. /\ Len(got') = Len(arrays')
          /\ \A a \in DOMAIN arrays' : Len(got'[a]) = GotOf(a)'
      BY <2>1 DEF VInv, Reading, GotOf
    <3>3. step = "take" => PartRead(s[array][item], s[array][item + 1], Items[item + 1])'
      BY <2>1, <2>2, <3>1 DEF PartRead
    <3> QED BY <2>1, <2>2, <2>4, <3>1, <3>2, <3>3 DEF Reading
  <2> QED BY <2>1, <2>2, <2>3, <2>5, <2>6 DEF VInv
<1>2. ASSUME NEW message \in Messages, BeginArrays(message) PROVE VInv'
  BY <1>2, BeginArraysInv
<1>3. CASE VarintStep
  BY <1>3, NextArrayInv, StartValueInv, PutMarkedInv, PutLastInv, WriteReturnsInv,
     TakeOnlyInv, TakeFirstInv, TakeNextInv, TakeLastInv, ReadReturnsInv
  DEF VarintStep
<1> QED BY <1>1, <1>2, <1>3 DEF VarintNext

-------------------------------------------------------------------------------
(* space().                                                                 *)

\* usedcount() of a word whose highest bit is known.
LEMMA UsedIs ==
  ASSUME NEW bits \in 1..WordBits, NEW word \in SUBSET Mask(bits), NEW h \in word,
         \A b \in word : b <= h
  PROVE  UsedCount(word, bits) = h + 1
<1>1. /\ Promoted(bits) \in Nat /\ bits <= Promoted(bits) /\ h \in 0..(bits - 1)
      /\ h + 1 \in Int /\ Promoted(bits) - 1 \in Int
      /\ word \subseteq Int
  BY VarintAssumption, WordAssumption DEF Promoted, Mask
<1>2. {p \in Mask(Promoted(bits)) : \A q \in word : q < p} = (h + 1)..(Promoted(bits) - 1)
  <2>1. ASSUME NEW p \in Int
        PROVE  p \in {r \in Mask(Promoted(bits)) : \A q \in word : q < r}
                 <=> p \in (h + 1)..(Promoted(bits) - 1)
    <3>1. (\A q \in word : q < p) <=> h < p
      BY <1>1
    <3> QED BY <1>1, <3>1 DEF Mask
  <2> QED BY <2>1, <1>1 DEF Mask
<1>3. Clz(word, bits) = Promoted(bits) - (h + 1)
  <2>1. Cardinality((h + 1)..(Promoted(bits) - 1))
          = IF h + 1 > Promoted(bits) - 1 THEN 0 ELSE (Promoted(bits) - 1) - (h + 1) + 1
    BY <1>1, FS_Interval
  <2>2. Clz(word, bits) = Cardinality((h + 1)..(Promoted(bits) - 1))
    BY <1>2 DEF Clz
  <2> QED BY <1>1, <2>1, <2>2
<1> QED BY <1>1, <1>3 DEF UsedCount

\* space() expects of an integer the bytes that it is written in.
LEMMA SpaceOfWritten ==
  ASSUME NEW bits \in 1..WordBits, NEW word \in SUBSET Mask(bits),
         NEW p \in Nat, NEW q \in Nat, Written(p, q, word)
  PROVE  SpaceOf(word, bits) = q - p
<1>1. /\ p < q /\ word \subseteq Mask((q - p) * GroupBits)
      /\ p < q - 1 => word \ Mask((q - 1 - p) * GroupBits) # {}
      /\ GroupBits \in Nat \ {0}
  BY GroupFacts DEF Written
<1>2. CASE word = {}
  <2>1. q - p = 1
    BY <1>1, <1>2
  <2> QED BY <1>2, <2>1 DEF SpaceOf
<1>3. CASE word # {}
  <2>1. PICK h \in word : \A b \in word : b <= h
    <3>1. word \subseteq Nat /\ \A b \in word : b < bits
      BY DEF Mask
    <3>2. bits \in Nat
      BY WordAssumption
    <3>3. \E h \in word : \A b \in word : b <= h
      BY <1>3, <3>1, <3>2, GreatestNumber
    <3> QED BY <3>3
  <2>2. PICK c \in Nat : c = q - p - 1 /\ q - p = c + 1 /\ q - 1 - p = c
    BY <1>1
  <2>3. h \in Nat /\ h < c * GroupBits + GroupBits /\ c * GroupBits \in Nat
    <3>1. (c + 1) * GroupBits = c * GroupBits + GroupBits
      BY <1>1, ProductNext
    <3>2. c * GroupBits \in Nat
      BY <1>1, ProductType
    <3>3. h \in Mask((c + 1) * GroupBits)
      BY <1>1, <2>2
    <3> HIDE DEF GroupBits
    <3> QED BY <1>1, <3>1, <3>2, <3>3 DEF Mask
  <2>4. c * GroupBits <= h
    <3>1. CASE c = 0
      BY <1>1, <2>3, <3>1
    <3>2. CASE c # 0
      <4>1. PICK b \in word : b \notin Mask(c * GroupBits)
        BY <1>1, <2>2, <3>2
      <4>2. b \in Nat /\ b <= h
        BY <2>1, <4>1 DEF Mask
      <4> QED BY <2>3, <4>1, <4>2 DEF Mask
    <3> QED BY <3>1, <3>2
  <2>5. PICK r \in 0..(GroupBits - 1) : h + GroupBits = (c + 1) * GroupBits + r
    <3>1. (c + 1) * GroupBits = c * GroupBits + GroupBits
      BY <1>1, ProductNext
    <3>2. h - c * GroupBits \in 0..(GroupBits - 1)
      BY <1>1, <2>3, <2>4
    <3>3. PICK x \in Nat : x = c * GroupBits /\ h - x \in 0..(GroupBits - 1) /\ x + GroupBits = (c + 1) * GroupBits
      BY <2>3, <3>1, <3>2
    <3>4. h + GroupBits = (x + GroupBits) + (h - x)
      BY <1>1, <2>3, <3>3
    <3> QED BY <3>3, <3>4
  <2>6. (h + GroupBits) \div GroupBits = c + 1
    <3>1. c + 1 \in Nat
      BY <2>2
    <3> QED BY <1>1, <2>5, <3>1, DivisionUnique
  <2>7. UsedCount(word, bits) = h + 1
    BY <2>1, UsedIs
  <2>8. Numbers!NbitsSpace(h + 1) = (h + GroupBits) \div GroupBits
    BY <1>1, <2>3 DEF Numbers!NbitsSpace, GroupBits
  <2> QED BY <1>3, <2>2, <2>6, <2>7, <2>8 DEF SpaceOf
<1> QED BY <1>2, <1>3

\* space() of the integers that are written one behind the other, at the places r.
LEMMA SpaceOfRow ==
  ASSUME NEW ints \in Seq(SUBSET Word), NEW bits \in 1..WordBits,
         NEW r \in [Nat -> Nat], NEW count \in 0..Len(ints),
         \A i \in 1..count : ints[i] \subseteq Mask(bits) /\ Written(r[i - 1], r[i], ints[i])
  PROVE  Space(ints, bits, count) = r[count] - r[0]
<1>1. Len(ints) \in Nat /\ count \in Nat /\ \A k \in Nat : r[k] \in Nat
  <2>1. Len(ints) \in Nat
    OBVIOUS
  <2>2. PICK num \in Nat : num = Len(ints)
    BY <2>1
  <2>3. count \in Nat
    BY <2>2
  <2>4. \A k \in Nat : r[k] \in Nat
    OBVIOUS
  <2> QED BY <2>1, <2>3, <2>4
<1> DEFINE IsSum(f) == f = [k \in 0..count |-> IF k = 0 THEN 0
                                               ELSE f[k - 1] + SpaceOf(ints[k], bits)]
           sum == CHOOSE f : IsSum(f)
<1>2. ASSUME NEW i \in 1..count PROVE SpaceOf(ints[i], bits) = r[i] - r[i - 1]
  <2>1. i - 1 \in Nat /\ i \in Nat /\ r[i - 1] \in Nat /\ r[i] \in Nat
    <3>1. i - 1 \in Nat /\ i \in Nat
      BY <1>1
    <3> QED BY <1>1, <3>1
  <2>2. PICK p \in Nat, q \in Nat : p = r[i - 1] /\ q = r[i]
    BY <2>1
  <2>3. ints[i] \in SUBSET Mask(bits) /\ Written(p, q, ints[i])
    BY <2>2
  <2> QED BY <2>2, <2>3, SpaceOfWritten
<1>3. \E f : IsSum(f)
  <2> DEFINE f == [k \in 0..count |-> r[k] - r[0]]
  <2>1. ASSUME NEW k \in 0..count
        PROVE  f[k] = IF k = 0 THEN 0 ELSE f[k - 1] + SpaceOf(ints[k], bits)
    <3>1. r[k] \in Nat /\ r[0] \in Nat /\ (k # 0 => r[k - 1] \in Nat /\ k - 1 \in 0..count)
      <4>1. k \in Nat /\ (k # 0 => k - 1 \in Nat /\ k - 1 \in 0..count)
        BY <1>1
      <4> QED BY <1>1, <4>1
    <3>2. k # 0 => k \in 1..count
      BY <1>1
    <3>3. k # 0 => f[k - 1] = r[k - 1] - r[0]
      BY <3>1
    <3>4. f[k] = r[k] - r[0]
      OBVIOUS
    <3> HIDE DEF f
    <3>5. CASE k = 0
      BY <3>1, <3>4, <3>5
    <3>6. CASE k # 0
      <4>1. SpaceOf(ints[k], bits) = r[k] - r[k - 1]
        BY <1>2, <3>2, <3>6
      <4> QED BY <3>1, <3>3, <3>4, <3>6, <4>1
    <3> QED BY <3>5, <3>6
  <2>2. f = [k \in 0..count |-> f[k]]
    OBVIOUS
  <2> HIDE DEF f
  <2>3. IsSum(f)
    BY <2>1, <2>2
  <2> HIDE DEF IsSum
  <2> QED BY <2>3
<1>4. IsSum(sum)
  <2> HIDE DEF IsSum
  <2> QED BY <1>3
<1>5. Space(ints, bits, count) = sum[count]
  BY DEF Space
<1> HIDE DEF sum
<1>6. ASSUME NEW k \in 0..count
      PROVE  sum[k] = IF k = 0 THEN 0 ELSE sum[k - 1] + (r[k] - r[k - 1])
  <2>1. sum[k] = IF k = 0 THEN 0 ELSE sum[k - 1] + SpaceOf(ints[k], bits)
    BY <1>4
  <2>2. k # 0 => k \in 1..count
    BY <1>1
  <2> QED BY <1>2, <2>1, <2>2
<1>7. 0 \in Int /\ count \in Int /\ 0 <= count /\ \A k \in 0..count : r[k] \in Int
  BY <1>1
<1> HIDE DEF IsSum
<1>8. sum[count] = r[count] - r[0]
  <2>1. RunningSum(sum, r, 0, count)
    BY <1>6, <1>7 DEF RunningSum
  <2> QED BY <1>7, <2>1, SumOfSteps
<1> QED BY <1>5, <1>8

\* space() of what is behind the client.
LEMMA SpacePassed ==
  ASSUME VInv, step # "idle", NEW s \in Places, Layout(s)
  PROVE  SpaceSoFar = s[array][item] - 1
<1>1. /\ arrays \in Seq(ArrayType) /\ arrays \in Messages
      /\ array \in 1..(Len(arrays) + 1) /\ s[1][0] = 1
  BY DEF VInv, VarintTypeOK, Layout
<1>2. ASSUME NEW a \in 1..Len(arrays)
      PROVE  /\ arrays[a].ints \in Seq(SUBSET Word) /\ arrays[a].bits \in 1..WordBits
             /\ s[a] \in [Nat -> Nat]
             /\ \A i \in 1..Len(arrays[a].ints) :
                  arrays[a].ints[i] \subseteq Mask(arrays[a].bits)
  <2>1. arrays[a] \in ArrayType /\ a \in Nat /\ a \in DOMAIN arrays
    BY <1>1
  <2>2. arrays[a].ints \in Seq(SUBSET Word) /\ arrays[a].bits \in 1..WordBits
    BY <2>1 DEF ArrayType
  <2>3. s[a] \in [Nat -> Nat]
    BY <2>1 DEF Places
  <2>4. \A i \in DOMAIN arrays[a].ints : arrays[a].ints[i] \subseteq Mask(arrays[a].bits)
    BY <1>1, <2>1, VarintAssumption
  <2>5. DOMAIN arrays[a].ints = 1..Len(arrays[a].ints)
    BY <2>2
  <2> QED BY <2>2, <2>3, <2>4, <2>5
<1>3. ASSUME NEW a \in 1..Len(arrays), a < array
      PROVE  Space(arrays[a].ints, arrays[a].bits, Len(arrays[a].ints)) = s[a + 1][0] - s[a][0]
  <2>1. PICK ints \in Seq(SUBSET Word), bits \in 1..WordBits, r \in [Nat -> Nat] :
          ints = arrays[a].ints /\ bits = arrays[a].bits /\ r = s[a]
    BY <1>2
  <2>2. Len(ints) \in 0..Len(ints) /\ a \in DOMAIN arrays /\ DOMAIN ints = 1..Len(ints)
    <3>1. Len(ints) \in Nat /\ DOMAIN ints = 1..Len(ints) /\ DOMAIN arrays = 1..Len(arrays)
      BY <1>1
    <3> QED BY <3>1
  <2>3. \A i \in 1..Len(ints) : ints[i] \subseteq Mask(bits) /\ Written(r[i - 1], r[i], ints[i])
    <3>1. \A i \in 1..Len(ints) : ints[i] \subseteq Mask(bits)
      BY <1>2, <2>1
    <3>2. \A i \in 1..Len(ints) : Written(r[i - 1], r[i], ints[i])
      BY <1>3, <2>1, <2>2 DEF Layout, Passed
    <3> QED BY <3>1, <3>2
  <2>4. Space(ints, bits, Len(ints)) = r[Len(ints)] - r[0]
    BY <2>2, <2>3, SpaceOfRow
  <2>5. s[a + 1][0] = r[Len(ints)]
    BY <1>3, <2>1, <2>2 DEF Layout
  <2> QED BY <2>1, <2>4, <2>5
<1>4. \A a \in 1..array : s[a][0] \in Int
  BY <1>1 DEF Places
<1> DEFINE Sum(a) == Space(arrays[a].ints, arrays[a].bits, Len(arrays[a].ints))
           IsSum(f) == f = [a \in 1..array |-> IF a = 1 THEN 0 ELSE f[a - 1] + Sum(a - 1)]
           before == CHOOSE f : IsSum(f)
           present == IF InArray THEN Space(Items, arrays[array].bits, item) ELSE 0
<1>5. ASSUME NEW a \in 1..array, a # 1 PROVE Sum(a - 1) = s[a][0] - s[a - 1][0]
  <2>1. a - 1 \in 1..Len(arrays) /\ a - 1 < array /\ (a - 1) + 1 = a
    BY <1>1, <1>5
  <2> QED BY <1>3, <2>1
<1>6. SpaceSoFar = before[array] + present
  BY DEF SpaceSoFar
<1> HIDE DEF Sum, present
<1>7. \E f : IsSum(f)
  <2> DEFINE f == [a \in 1..array |-> s[a][0] - s[1][0]]
  <2>1. ASSUME NEW a \in 1..array
        PROVE  f[a] = IF a = 1 THEN 0 ELSE f[a - 1] + Sum(a - 1)
    <3>1. s[a][0] \in Int /\ 1 \in 1..array
      BY <1>1, <1>4
    <3>2. a # 1 => a - 1 \in 1..array
      BY <1>1
    <3>3. s[1][0] \in Int /\ (a # 1 => s[a - 1][0] \in Int)
      BY <1>4, <3>1, <3>2
    <3> QED BY <1>5, <3>1, <3>2, <3>3
  <2>2. f = [a \in 1..array |-> f[a]]
    OBVIOUS
  <2> HIDE DEF f
  <2>3. IsSum(f)
    BY <2>1, <2>2
  <2> HIDE DEF IsSum
  <2> QED BY <2>3
<1>8. IsSum(before)
  <2> HIDE DEF IsSum
  <2> QED BY <1>7
<1> HIDE DEF before
<1>9. before[array] = s[array][0] - s[1][0]
  <2> DEFINE p == [a \in 1..array |-> s[a][0]]
  <2>1. ASSUME NEW a \in 1..array
        PROVE  before[a] = IF a = 1 THEN 0 ELSE before[a - 1] + (p[a] - p[a - 1])
    <3>1. before[a] = IF a = 1 THEN 0 ELSE before[a - 1] + Sum(a - 1)
      BY <1>8
    <3>2. a # 1 => a - 1 \in 1..array
      BY <1>1
    <3> QED BY <1>5, <3>1, <3>2
  <2>2. /\ 1 \in Int /\ array \in Int /\ 1 <= array /\ \A a \in 1..array : p[a] \in Int
        /\ p[array] = s[array][0] /\ p[1] = s[1][0]
    BY <1>1, <1>4
  <2> HIDE DEF p, IsSum
  <2>3. RunningSum(before, p, 1, array)
    BY <2>1, <2>2 DEF RunningSum
  <2>4. before[array] = p[array] - p[1]
    BY <2>2, <2>3, SumOfSteps
  <2> QED BY <2>2, <2>4
<1> HIDE DEF IsSum
<1>10. present = s[array][item] - s[array][0]
  <2>1. CASE InArray
    <3>1. array \in 1..Len(arrays) /\ item \in 0..Len(Items) /\ Items = arrays[array].ints
      BY <1>1, <2>1 DEF VInv, VarintTypeOK, InArray, Items
    <3>2. PICK ints \in Seq(SUBSET Word), bits \in 1..WordBits, r \in [Nat -> Nat] :
            ints = arrays[array].ints /\ bits = arrays[array].bits /\ r = s[array]
      BY <1>2, <3>1
    <3>3. array \in DOMAIN arrays /\ \A i \in 1..item : i \in DOMAIN ints
      <4>1. /\ DOMAIN ints = 1..Len(ints) /\ Len(ints) \in Nat /\ item \in 0..Len(ints)
            /\ DOMAIN arrays = 1..Len(arrays)
        <5>1. DOMAIN ints = 1..Len(ints) /\ Len(ints) \in Nat
          BY <3>2
        <5> QED BY <1>1, <3>1, <3>2, <5>1
      <4> QED BY <3>1, <4>1
    <3>4. \A i \in 1..item : ints[i] \subseteq Mask(bits)
      <4>1. \A i \in 1..Len(ints) : ints[i] \subseteq Mask(bits)
        BY <1>2, <3>1, <3>2
      <4>2. DOMAIN ints = 1..Len(ints)
        BY <3>2
      <4> QED BY <3>3, <4>1, <4>2
    <3>5. \A i \in 1..item : Written(r[i - 1], r[i], ints[i])
      <4>1. \A i \in 1..item : Passed(array, i)
        BY <3>1 DEF Passed
      <4> QED BY <3>2, <3>3, <4>1 DEF Layout
    <3>6. Space(ints, bits, item) = r[item] - r[0]
      BY <3>1, <3>2, <3>4, <3>5, SpaceOfRow
    <3> QED BY <2>1, <3>1, <3>2, <3>6 DEF present
  <2>2. CASE ~InArray
    <3>1. item = 0 /\ s[array][0] \in Int
      BY <1>1, <1>4, <2>2 DEF VInv
    <3> QED BY <2>2, <3>1 DEF present
  <2> QED BY <2>1, <2>2
<1>11. s[array][0] \in Int /\ s[array][item] \in Int
  <2>1. array \in Nat /\ item \in Nat
    <3>1. InArray => item \in 0..Len(Items)
      BY DEF VInv, VarintTypeOK
    <3>2. ~InArray => item = 0
      BY DEF VInv
    <3>3. InArray => Len(Items) \in Nat
      BY <1>1, <1>2 DEF InArray, Items
    <3> QED BY <1>1, <3>1, <3>2, <3>3
  <2> QED BY <2>1 DEF Places
<1> QED BY <1>1, <1>6, <1>9, <1>10, <1>11

\* What the invariant says of space().
LEMMA MovesFromInv == VInv => MovesBySpace
<1> SUFFICES ASSUME VInv PROVE MovesBySpace
  OBVIOUS
<1>1. bytes \in Seq(SUBSET Mask(ByteBits)) /\ at \in Int
  BY DEF VInv, VarintTypeOK
<1>2. ASSUME step = "write" PROVE Len(bytes) = SpaceSoFar
  <2>1. PICK s \in Places : Layout(s) /\ s[array][item] = Len(bytes) + 1
    BY <1>2 DEF VInv, Writing
  <2>2. SpaceSoFar = s[array][item] - 1
    BY <1>2, <2>1, SpacePassed
  <2> QED BY <1>1, <2>1, <2>2
<1>3. ASSUME step = "read" PROVE at - 1 = SpaceSoFar
  <2>1. PICK s \in Places : WholeLayout(s) /\ at = s[array][item]
    BY <1>3 DEF VInv, Reading
  <2>2. Layout(s)
    BY <2>1 DEF Layout, WholeLayout
  <2>3. SpaceSoFar = s[array][item] - 1
    BY <1>3, <2>2, SpacePassed
  <2> QED BY <2>1, <2>3
<1> QED BY <1>2, <1>3 DEF MovesBySpace

-------------------------------------------------------------------------------
(* The bytes of module Varint.                                              *)

\* What is proved of module Varint, for words.
Facts == INSTANCE VarintProofs WITH Width <- WordBits, IsSigned <- FALSE

\* Words are finite.
LEMMA WordFinite ==
  ASSUME NEW w \in SUBSET Word
  PROVE  IsFiniteSet(w) /\ w \subseteq Nat
<1>1. IsFiniteSet(Word) /\ Word \subseteq Nat
  <2>1. 0 \in Int /\ WordBits - 1 \in Int
    BY WordAssumption
  <2>2. IsFiniteSet(0..(WordBits - 1))
    BY <2>1, FS_Interval, Zenon
  <2> QED BY <2>2, WordAssumption DEF Word
<1> QED BY <1>1, FS_Subset

\* The bytes of module Varint, as far as they are used here.
LEMMA DescribedBytes ==
  ASSUME NEW val \in Nat
  PROVE  /\ Numbers!ValueBytes(val) = Facts!ValueBytes(val)
         /\ Numbers!ValueBytes(val) = IF val < 2^GroupBits THEN <<val>>
                            ELSE <<2^GroupBits + (val % (2^GroupBits))>>
                                   \o Numbers!ValueBytes(val \div 2^GroupBits)
         /\ Numbers!ValueBytes(val) \in Seq(Nat)
<1>1. \A other : Numbers!ValueBytes(other) = Facts!ValueBytes(other)
  BY DEF Numbers!ValueBytes, Facts!ValueBytes, Numbers!Continue, Facts!Continue,
         Numbers!GroupBits, Facts!GroupBits
<1>2. Facts!Continue = 2^GroupBits
  BY DEF Facts!Continue, Facts!GroupBits, GroupBits, Numbers!GroupBits
<1>3. /\ Facts!ValueBytes(val) = IF val < Facts!Continue THEN <<val>>
                            ELSE <<Facts!Continue + (val % Facts!Continue)>>
                                   \o Facts!ValueBytes(val \div Facts!Continue)
      /\ Facts!ValueBytes(val) \in Seq(Nat)
  BY Facts!ValueBytesNext, WordAssumption, VarintAssumption
<1> QED BY <1>1, <1>2, <1>3

\* The first byte of an integer that takes one byte.
LEMMA OnlyByte ==
  ASSUME VarintTypeOK, NEW p \in Nat, NEW word \in SUBSET Word, Written(p, p + 1, word)
  PROVE  bytes[p] = word /\ Number(word) \in Nat /\ Number(word) < 2^GroupBits
<1>1. p \in 1..Len(bytes) /\ bytes \in Seq(SUBSET Mask(ByteBits))
  BY DEF Written, VarintTypeOK
<1>2. GroupBits \in Nat \ {0} /\ bytes[p] \subseteq 0..GroupBits
  BY <1>1, GroupFacts
<1>3. p \in p..((p + 1) - 1) /\ ~(p < (p + 1) - 1) /\ ((p + 1) - p) * GroupBits = GroupBits
      /\ (p - p) * GroupBits = 0
  BY <1>2
<1>4. /\ GroupAt(p, p, word) /\ (GroupBits \in bytes[p] <=> p < (p + 1) - 1)
      /\ word \subseteq Mask(((p + 1) - p) * GroupBits)
  BY <1>3 DEF Written
<1>5. word \subseteq 0..(GroupBits - 1) /\ GroupBits \notin bytes[p]
  BY <1>3, <1>4 DEF Mask
<1>6. ASSUME NEW b \in 0..(GroupBits - 1) PROVE b \in bytes[p] <=> b \in word
  <2>1. b + (p - p) * GroupBits = b
    BY <1>2, <1>3
  <2> QED BY <1>4, <2>1 DEF GroupAt
<1>7. bytes[p] \subseteq 0..(GroupBits - 1)
  BY <1>2, <1>5
<1>8. bytes[p] = word
  BY <1>5, <1>6, <1>7
<1>9. Number(word) \in Nat /\ Number(word) < 2^GroupBits
  BY <1>2, <1>5, NumberBelow
<1> QED BY <1>8, <1>9

\* The first byte of one that takes more, and what is in the others.
LEMMA FirstByte ==
  ASSUME VarintTypeOK, NEW p \in Nat, NEW q \in Nat, NEW word \in SUBSET Word,
         Written(p, q, word), p + 1 < q
  PROVE  /\ bytes[p] = LowBits(word, GroupBits) \cup {GroupBits}
         /\ HighBits(word, GroupBits) \in SUBSET Word /\ HighBits(word, GroupBits) # {}
         /\ Written(p + 1, q, HighBits(word, GroupBits))
<1> DEFINE low == word \cap (0..(GroupBits - 1))
           high == {b \in Nat : b + GroupBits \in word}
<1>1. /\ p \in 1..Len(bytes) /\ bytes \in Seq(SUBSET Mask(ByteBits))
      /\ q <= Len(bytes) + 1 /\ p \in p..(q - 1) /\ p < q - 1
  BY DEF Written, VarintTypeOK
<1>2. GroupBits \in Nat \ {0} /\ bytes[p] \subseteq 0..GroupBits
  BY <1>1, GroupFacts
<1>3. /\ GroupAt(p, p, word) /\ GroupBits \in bytes[p]
      /\ word \subseteq Mask((q - p) * GroupBits)
      /\ word \ Mask((q - 1 - p) * GroupBits) # {}
  BY <1>1 DEF Written
<1>4. bytes[p] = low \cup {GroupBits}
  <2>1. ASSUME NEW b \in 0..(GroupBits - 1) PROVE b \in bytes[p] <=> b \in word
    <3>1. (p - p) * GroupBits = 0
      BY <1>2
    <3>2. b + (p - p) * GroupBits = b
      BY <1>2, <3>1
    <3> QED BY <1>3, <3>2 DEF GroupAt
  <2>2. ASSUME NEW b \in bytes[p] PROVE b \in 0..(GroupBits - 1) \/ b = GroupBits
    BY <1>2
  <2> QED BY <1>3, <2>1, <2>2
<1>5. high \in SUBSET Word
  <2>1. ASSUME NEW b \in high PROVE b \in Word
    <3>1. b \in Nat /\ b + GroupBits \in Word
      OBVIOUS
    <3> QED BY <1>2, <3>1, WordAssumption DEF Word
  <2> QED BY <2>1
<1>6. PICK num \in Nat \ {0}, mid \in Nat :
        /\ q - p = num + 1 /\ q - (p + 1) = num /\ q - 1 - p = num /\ q - 1 - (p + 1) = mid
        /\ num = mid + 1
  <2>1. /\ q - p = (q - p - 1) + 1 /\ q - (p + 1) = q - p - 1 /\ q - 1 - p = q - p - 1
        /\ q - 1 - (p + 1) = q - p - 2 /\ q - p - 1 = (q - p - 2) + 1
        /\ q - p - 1 \in Nat \ {0} /\ q - p - 2 \in Nat
    BY <1>1
  <2> QED BY <2>1
<1>7. PICK c \in Nat, d \in Nat :
        /\ c = num * GroupBits /\ d = mid * GroupBits
        /\ (num + 1) * GroupBits = c + GroupBits /\ c = d + GroupBits
  BY <1>2, <1>6, ProductType, ProductNext
<1>8. high \subseteq Mask(c)
  <2>1. ASSUME NEW b \in high PROVE b \in 0..(c - 1)
    <3>1. b \in Nat /\ b + GroupBits \in word
      OBVIOUS
    <3>2. b + GroupBits \in 0..((c + GroupBits) - 1)
      BY <1>3, <1>6, <1>7, <3>1 DEF Mask
    <3> QED BY <1>2, <3>1, <3>2
  <2> QED BY <2>1 DEF Mask
<1>9. ASSUME NEW a \in word, a \notin 0..(c - 1)
      PROVE  \E b \in high : b \notin 0..(d - 1)
  <2>1. a \in Nat
    BY WordAssumption DEF Word
  <2>2. PICK b \in Nat : b + GroupBits = a /\ b >= d
    <3>1. a - GroupBits \in Nat /\ (a - GroupBits) + GroupBits = a /\ a - GroupBits >= d
      BY <1>2, <1>7, <1>9, <2>1
    <3> QED BY <3>1
  <2>3. b \in high
    BY <2>2
  <2> HIDE DEF high
  <2> QED BY <2>2, <2>3
<1>10. \E a \in word : a \notin 0..(c - 1)
  BY <1>3, <1>6, <1>7 DEF Mask
<1>11. high # {} /\ high \ Mask(d) # {}
  <2> HIDE DEF high
  <2> QED BY <1>9, <1>10 DEF Mask
<1>12. ASSUME NEW k \in (p + 1)..(q - 1)
       PROVE  GroupAt(p + 1, k, high) /\ (GroupBits \in bytes[k] <=> k < q - 1)
  <2>1. k \in p..(q - 1)
    BY <1>1
  <2>2. GroupAt(p, k, word) /\ (GroupBits \in bytes[k] <=> k < q - 1)
    BY <2>1 DEF Written
  <2>3. PICK i \in Nat, j \in Nat : i = k - (p + 1) /\ k - p = i + 1 /\ j = i * GroupBits
                                  /\ (i + 1) * GroupBits = j + GroupBits
    <3>1. PICK i \in Nat : i = k - (p + 1) /\ k - p = i + 1
      <4>1. k - (p + 1) \in Nat /\ k - p = (k - (p + 1)) + 1
        OBVIOUS
      <4> QED BY <4>1
    <3>2. i * GroupBits \in Nat /\ (i + 1) * GroupBits = i * GroupBits + GroupBits
      BY <1>2, ProductType, ProductNext
    <3> QED BY <3>1, <3>2
  <2>4. ASSUME NEW b \in 0..(GroupBits - 1)
        PROVE  b \in bytes[k] <=> b + (k - (p + 1)) * GroupBits \in high
    <3>1. b \in bytes[k] <=> b + (k - p) * GroupBits \in word
      BY <2>2 DEF GroupAt
    <3>2. b + (k - p) * GroupBits = (b + j) + GroupBits /\ b + j \in Nat
      BY <1>2, <2>3
    <3>3. b + j \in high <=> (b + j) + GroupBits \in word
      BY <3>2
    <3> HIDE DEF high
    <3> QED BY <2>3, <3>1, <3>2, <3>3
  <2> HIDE DEF high
  <2> QED BY <2>2, <2>4 DEF GroupAt
<1>13. Written(p + 1, q, high)
  <2>1. p + 1 \in 1..(q - 1)
    BY <1>1
  <2> HIDE DEF high
  <2> QED BY <1>1, <1>6, <1>7, <1>8, <1>11, <1>12, <2>1 DEF Written
<1> HIDE DEF low, high
<1>14. LowBits(word, GroupBits) = low /\ HighBits(word, GroupBits) = high
  BY DEF LowBits, HighBits, low, high
<1> QED BY <1>4, <1>5, <1>11, <1>13, <1>14

\* The first of several bytes in numbers: the remainder, and the mark.
LEMMA FirstNumber ==
  ASSUME NEW word \in SUBSET Word, HighBits(word, GroupBits) \in SUBSET Word,
         HighBits(word, GroupBits) # {}
  PROVE  \E c, h \in Nat \ {0}, r \in Nat :
           /\ c = 2^GroupBits /\ h = Number(HighBits(word, GroupBits)) /\ r < c
           /\ Number(word) = h * c + r
           /\ Number(LowBits(word, GroupBits) \cup {GroupBits}) = c + r
<1>1. GroupBits \in Nat
  BY GroupFacts
<1>2. PICK c \in Nat \ {0} : c = 2^GroupBits
  BY <1>1, PowerType
<1>3. PICK low \in SUBSET (0..(GroupBits - 1)) : low = LowBits(word, GroupBits)
  BY DEF LowBits
<1>4. PICK high \in SUBSET Word : high = HighBits(word, GroupBits) /\ high # {}
  OBVIOUS
<1>5. PICK r \in Nat : r = Number(low) /\ r < c
  BY <1>1, <1>2, NumberBelow
<1>6. PICK h \in Nat \ {0} : h = Number(high)
  <2>1. IsFiniteSet(high) /\ high \subseteq Nat /\ high # {}
    BY <1>4, WordFinite
  <2> QED BY <2>1, NumberPositive
<1>7. Number(word) = h * c + r
  <2>1. WordBits \in Nat /\ word \in SUBSET (0..(WordBits - 1))
    BY WordAssumption DEF Word
  <2>2. Number(word) = Number(HighBits(word, GroupBits)) * 2^GroupBits
                         + Number(LowBits(word, GroupBits))
    BY <1>1, <2>1, NumberSplit
  <2> QED BY <1>2, <1>3, <1>4, <1>5, <1>6, <2>2
<1>8. Number(low \cup {GroupBits}) = c + r
  <2>1. IsFiniteSet(low) /\ low \subseteq Nat
    <3>1. low \in SUBSET Word
      BY <1>3 DEF LowBits
    <3> QED BY <3>1, WordFinite
  <2>2. GroupBits \in Nat \ low
    BY <1>1
  <2> QED BY <1>2, <1>5, <2>1, <2>2, NumberAdd
<1> QED BY <1>2, <1>3, <1>4, <1>5, <1>6, <1>7, <1>8

\* The bytes of an integer are those that module Varint describes.
LEMMA WrittenNumbers ==
  ASSUME VarintTypeOK, NEW num \in Nat
  PROVE  \A p, q \in Nat : \A word \in SUBSET Word :
           q - p = num /\ Written(p, q, word) =>
             /\ Number(word) \in Nat
             /\ Len(Numbers!ValueBytes(Number(word))) = num
             /\ \A k \in 1..num : Number(bytes[p + k - 1]) = Numbers!ValueBytes(Number(word))[k]
<1> DEFINE Described(mid, p, word) ==
             /\ Number(word) \in Nat
             /\ Len(Numbers!ValueBytes(Number(word))) = mid
             /\ \A k \in 1..mid : Number(bytes[p + k - 1]) = Numbers!ValueBytes(Number(word))[k]
           Right == {mid \in Nat : \A p, q \in Nat : \A word \in SUBSET Word :
                       q - p = mid /\ Written(p, q, word) => Described(mid, p, word)}
<1>1. ASSUME NEW p \in Nat, NEW q \in Nat, NEW word, Written(p, q, word) PROVE p < q
  BY <1>1 DEF Written
<1>2. 0 \in Right
  <2>1. \A p, q \in Nat : \A word \in SUBSET Word : ~(q - p = 0 /\ Written(p, q, word))
    BY <1>1
  <2> HIDE DEF Described
  <2> QED BY <2>1
<1>3. ASSUME NEW mid \in Nat, mid \in Right PROVE mid + 1 \in Right
  <2> SUFFICES ASSUME NEW p \in Nat, NEW q \in Nat, NEW word \in SUBSET Word,
                      q - p = mid + 1, Written(p, q, word)
               PROVE  Described(mid + 1, p, word)
    <3> HIDE DEF Described
    <3> QED OBVIOUS
  <2>1. CASE mid = 0
    <3>1. q = p + 1
      BY <2>1
    <3>2. bytes[p] = word /\ Number(word) \in Nat /\ Number(word) < 2^GroupBits
      BY <3>1, OnlyByte
    <3>3. PICK val \in Nat : val = Number(word)
      BY <3>2
    <3>4. Numbers!ValueBytes(val) = <<val>>
      BY <3>2, <3>3, DescribedBytes
    <3>5. \A k \in 1..1 : p + k - 1 = p /\ <<val>>[k] = val
      OBVIOUS
    <3>6. Len(<<val>>) = 1 /\ mid + 1 = 1
      BY <2>1
    <3> QED BY <3>2, <3>3, <3>4, <3>5, <3>6
  <2>2. CASE mid # 0
    <3>1. p + 1 < q /\ q - (p + 1) = mid /\ p + 1 \in Nat
      BY <2>2
    <3>2. PICK high \in SUBSET Word :
            /\ high = HighBits(word, GroupBits) /\ high # {} /\ Written(p + 1, q, high)
            /\ bytes[p] = LowBits(word, GroupBits) \cup {GroupBits}
      BY <3>1, FirstByte
    <3>3. PICK c, h \in Nat \ {0}, r \in Nat :
            /\ c = 2^GroupBits /\ h = Number(high)
            /\ r < c /\ Number(word) = h * c + r /\ Number(bytes[p]) = c + r
      <4>1. HighBits(word, GroupBits) \in SUBSET Word /\ HighBits(word, GroupBits) # {}
        BY <3>2
      <4>2. PICK c, h \in Nat \ {0}, r \in Nat :
              /\ c = 2^GroupBits /\ h = Number(HighBits(word, GroupBits)) /\ r < c
              /\ Number(word) = h * c + r
              /\ Number(LowBits(word, GroupBits) \cup {GroupBits}) = c + r
        BY <4>1, FirstNumber
      <4> QED BY <3>2, <4>2
    <3>4. Described(mid, p + 1, high)
      <4> HIDE DEF Described
      <4> QED BY <1>3, <3>1, <3>2
    <3>5. PICK tail \in Seq(Nat) : tail = Numbers!ValueBytes(h)
      BY DescribedBytes
    <3>6. /\ Len(tail) = mid
          /\ \A k \in 1..mid : Number(bytes[(p + 1) + k - 1]) = tail[k]
      BY <3>3, <3>4, <3>5
    <3>7. PICK val \in Nat : val = h * c + r /\ val = Number(word) /\ ~(val < c)
                        /\ val \div c = h /\ val % c = r
      <4>1. h * c + r \in Nat /\ ~(h * c + r < c)
        <5>1. 1 * c <= h * c
          BY ProductOrder
        <5> QED BY <5>1
      <4>2. (h * c + r) \div c = h /\ (h * c + r) % c = r
        <5>1. r \in 0..(c - 1)
          BY <3>3
        <5> QED BY <5>1, DivisionUnique
      <4> QED BY <3>3, <4>1, <4>2
    <3>8. PICK byte \in Nat : byte = c + r
      <4>1. c + r \in Nat
        OBVIOUS
      <4> QED BY <4>1
    <3>9. Numbers!ValueBytes(val) = <<byte>> \o tail
      BY <3>3, <3>5, <3>7, <3>8, DescribedBytes
    <3>10. /\ Len(<<byte>> \o tail) = mid + 1 /\ (<<byte>> \o tail)[1] = byte
           /\ \A k \in 2..(mid + 1) : (<<byte>> \o tail)[k] = tail[k - 1]
      BY <3>6
    <3>11. ASSUME NEW k \in 1..(mid + 1)
           PROVE  Number(bytes[p + k - 1]) = (<<byte>> \o tail)[k]
      <4>1. CASE k = 1
        <5>1. p + 1 - 1 = p
          OBVIOUS
        <5> QED BY <3>2, <3>3, <3>8, <3>10, <4>1, <5>1
      <4>2. CASE k # 1
        <5>1. k \in 2..(mid + 1) /\ k - 1 \in 1..mid /\ (p + 1) + (k - 1) - 1 = p + k - 1
          BY <4>2
        <5> QED BY <3>6, <3>10, <5>1
      <4> QED BY <4>1, <4>2
    <3> QED BY <3>7, <3>9, <3>10, <3>11
  <2> QED BY <2>1, <2>2
<1> HIDE DEF Described, Right
<1>4. num \in Right
  BY <1>2, <1>3, EveryNumber
<1>5. \A p, q \in Nat : \A word \in SUBSET Word :
        q - p = num /\ Written(p, q, word) => Described(num, p, word)
  BY <1>4 DEF Right
<1> QED BY <1>5 DEF Described

\* The numbers that the bytes stand for.
Stream == [p \in DOMAIN bytes |-> Number(bytes[p])]

\* Where the next integer to be decoded lies, there are the bytes of module Varint, and
\* it reads the integer from them.
LEMMA BytesInPlace ==
  ASSUME VInv, step = "read", InArray, item < Len(Items),
         NEW word, word = Items[item + 1]
  PROVE  /\ Number(word) \in Nat
         /\ Numbers!ReadValue(Stream, at).value = Number(word)
         /\ SubSeq(Stream, at, Numbers!ReadValue(Stream, at).next - 1)
              = Numbers!ValueBytes(Number(word))
<1>1. PICK s \in Places : WholeLayout(s) /\ at = s[array][item]
  BY DEF VInv, Reading
<1>2. PICK q \in Nat : q = s[array][item + 1] /\ Written(at, q, word)
  BY <1>1, PlaceFacts
<1>3. at \in Nat \ {0} /\ word \in SUBSET Word /\ VarintTypeOK
  <2>1. VarintTypeOK
    BY DEF VInv
  <2> QED BY <1>1, <2>1, PlaceFacts DEF VarintTypeOK
<1>4. PICK num \in Nat : num = q - at /\ num > 0 /\ at + num - 1 <= Len(bytes)
  <2>1. at < q /\ q <= Len(bytes) + 1
    BY <1>2, <1>3 DEF Written
  <2>2. Len(bytes) \in Nat
    BY <1>3 DEF VarintTypeOK
  <2>3. q - at \in Nat /\ q - at > 0 /\ at + (q - at) - 1 <= Len(bytes)
    BY <1>3, <2>1, <2>2
  <2> QED BY <2>3
<1>5. /\ Number(word) \in Nat
      /\ Len(Numbers!ValueBytes(Number(word))) = num
      /\ \A k \in 1..num : Number(bytes[at + k - 1]) = Numbers!ValueBytes(Number(word))[k]
  <2>1. \A p, r \in Nat : \A w \in SUBSET Word :
          r - p = num /\ Written(p, r, w) =>
            /\ Number(w) \in Nat
            /\ Len(Numbers!ValueBytes(Number(w))) = num
            /\ \A k \in 1..num : Number(bytes[p + k - 1]) = Numbers!ValueBytes(Number(w))[k]
    BY <1>3, WrittenNumbers
  <2>2. at \in Nat /\ q - at = num
    BY <1>3, <1>4
  <2> QED BY <1>2, <1>3, <2>1, <2>2, ZenonT(30)
<1>6. PICK val \in Nat, written \in Seq(Nat) :
        /\ val = Number(word) /\ written = Numbers!ValueBytes(val) /\ written = Facts!ValueBytes(val)
        /\ Len(written) = num
  BY <1>5, DescribedBytes
<1>7. PICK octets \in Seq(Nat) :
        /\ octets = Stream /\ Len(octets) = Len(bytes)
        /\ \A p \in 1..Len(bytes) : octets[p] = Number(bytes[p])
  <2>1. bytes \in Seq(SUBSET Mask(ByteBits)) /\ Len(bytes) \in Nat
    BY <1>3 DEF VarintTypeOK
  <2>2. ASSUME NEW w \in SUBSET Mask(ByteBits) PROVE Number(w) \in Nat
    BY VarintAssumption, NumberBelow DEF Mask
  <2>3. DOMAIN bytes = 1..Len(bytes) /\ \A p \in 1..Len(bytes) : bytes[p] \in SUBSET Mask(ByteBits)
    BY <2>1
  <2>4. Stream \in [1..Len(bytes) -> Nat]
    BY <2>2, <2>3 DEF Stream
  <2>5. Stream \in Seq(Nat) /\ Len(Stream) = Len(bytes)
    BY <2>1, <2>4
  <2> QED BY <2>3, <2>5 DEF Stream
<1>8. \A k \in 1..num : octets[at + k - 1] = written[k]
  <2>1. ASSUME NEW k \in 1..num PROVE at + k - 1 \in 1..Len(bytes)
    BY <1>3, <1>4, <1>7, SMTT(30)
  <2> QED BY <1>5, <1>6, <1>7, <2>1
<1>9. Facts!ReadValue(octets, at) = [value |-> val, next |-> at + Facts!ValueSpace(val)]
  <2>1. /\ at + Len(Facts!ValueBytes(val)) - 1 <= Len(octets)
        /\ \A k \in 1..Len(Facts!ValueBytes(val)) :
             octets[at + k - 1] = Facts!ValueBytes(val)[k]
    BY <1>4, <1>6, <1>7, <1>8
  <2> QED BY <1>3, <2>1, Facts!VarintReadsBack, WordAssumption, VarintAssumption
<1>10. Facts!ValueSpace(val) = num
  BY <1>6, Facts!ValueBytesSpace, WordAssumption, VarintAssumption
<1>11. Numbers!ReadValue(octets, at) = Facts!ReadValue(octets, at)
  BY DEF Numbers!ReadValue, Facts!ReadValue, Numbers!Continue, Facts!Continue,
         Numbers!GroupBits, Facts!GroupBits
<1>12. Numbers!ReadValue(octets, at) = [value |-> val, next |-> at + num]
  BY <1>9, <1>10, <1>11
<1>13. SubSeq(octets, at, (at + num) - 1) = written
  <2>1. PICK i \in Nat \ {0}, mid \in Nat : i = at /\ mid = (at + num) - 1 /\ mid - i + 1 = num /\ mid <= Len(octets)
    <3>1. (at + num) - 1 \in Nat /\ ((at + num) - 1) - at + 1 = num
      BY <1>3, <1>4
    <3> QED BY <1>3, <1>4, <1>7, <3>1
  <2>2. PICK part \in Seq(Nat) : part = SubSeq(octets, i, mid) /\ Len(part) = num
    <3>1. SubSeq(octets, i, mid) \in Seq(Nat) /\ Len(SubSeq(octets, i, mid)) = num
      BY <1>4, <2>1
    <3> QED BY <3>1
  <2>3. \A k \in 1..num : part[k] = octets[i + k - 1]
    BY <1>4, <2>1, <2>2
  <2>4. \A k \in 1..num : part[k] = written[k]
    BY <1>8, <2>1, <2>3
  <2> QED BY <1>6, <2>1, <2>2, <2>4
<1> QED BY <1>5, <1>6, <1>7, <1>12, <1>13

\* What the invariant says of the bytes that are read.
LEMMA BytesFromInv == VInv => BytesAreAsDescribed
<1> SUFFICES ASSUME VInv, step = "read", InArray, item < Len(Items)
             PROVE  BytesAreAsDescribed
  BY DEF BytesAreAsDescribed
<1>1. PICK word : word = Items[item + 1]
  OBVIOUS
<1>2. /\ Numbers!ReadValue(Stream, at).value = Number(word)
      /\ SubSeq(Stream, at, Numbers!ReadValue(Stream, at).next - 1)
           = Numbers!ValueBytes(Number(word))
  BY <1>1, BytesInPlace
<1>3. MapThenSumSet(LAMBDA b : 2^b, word) = Number(word)
  BY DEF MapThenSumSet, MapThenFoldSet, Number, SumsBits
<1>4. [p \in DOMAIN bytes |-> MapThenSumSet(LAMBDA b : 2^b, bytes[p])] = Stream
  BY DEF MapThenSumSet, MapThenFoldSet, Number, SumsBits, Stream
<1> QED BY <1>1, <1>2, <1>3, <1>4 DEF BytesAreAsDescribed

-------------------------------------------------------------------------------
(* What the loops keep true.                                                *)

\* The invariant holds in every state.
LEMMA SpecVInv == VarintSpec => []VInv
BY VarintInitInv, NextVInv, PTL DEF VarintSpec

\* No byte is wider than a byte, and src stays within the bytes that are written.
THEOREM VarintTypeCorrect == VarintSpec => []VarintTypeOK
<1>1. VInv => VarintTypeOK
  BY DEF VInv
<1> QED BY SpecVInv, <1>1, PTL

\* What the invariant says of the bits that are read.
LEMMA BitsFromInv == VInv => NoBitIsLost
<1> SUFFICES ASSUME VInv, step = "take"
             PROVE  /\ value = Items[item + 1] \cap Mask(place)
                    /\ Items[item + 1] \ Mask(place) # {}
  BY DEF NoBitIsLost
<1>1. PICK s \in Places :
        /\ WholeLayout(s) /\ InArray /\ item < Len(Items)
        /\ PartRead(s[array][item], s[array][item + 1], Items[item + 1])
  BY DEF VInv, Reading
<1>2. /\ s[array][item] \in Nat /\ s[array][item + 1] \in Nat
      /\ Items[item + 1] \in SUBSET Word
      /\ Items[item + 1] \subseteq Mask(arrays[array].bits)
      /\ Written(s[array][item], s[array][item + 1], Items[item + 1])
  BY <1>1, PlaceFacts
<1>3. PICK p \in Nat, q \in Nat, word \in SUBSET Word :
        p = s[array][item] /\ q = s[array][item + 1] /\ word = Items[item + 1]
  BY <1>2
<1>4. word \ Mask(place) # {}
  BY <1>1, <1>2, <1>3, PieceFacts
<1> QED BY <1>1, <1>3, <1>4 DEF PartRead

\* The loop of value_decode() shifts no bit out of the type, nor does it go on when
\* all bits are there.
THEOREM BitsAreKept == VarintSpec => []NoBitIsLost
BY SpecVInv, BitsFromInv, PTL

\* Every integer is decoded as it was encoded, in its place.
THEOREM DeliveredInOrder == VarintSpec => []DeliversInOrder
<1>1. VInv => DeliversInOrder
  BY DEF VInv
<1> QED BY SpecVInv, <1>1, PTL

\* encode() moves dst by what space() has measured for its integers, and decode() moves
\* src by as much, for any arrays of any types.
THEOREM SpaceIsMeasured == VarintSpec => []MovesBySpace
BY SpecVInv, MovesFromInv, PTL

\* Whatever the arrays, and however wide their types are, the loops write the bytes that
\* module Varint describes in one expression, and it reads them as the loops do.
THEOREM BytesDescribed == VarintSpec => []BytesAreAsDescribed
BY SpecVInv, BytesFromInv, PTL

-------------------------------------------------------------------------------
(***************************************************************************)
(* A client of the codecs sees a channel of integers.  What is true of     *)
(* each codec alone is true when one client uses them all, and every step  *)
(* of their loops is a step of module IntegerChannel, or none.             *)
(***************************************************************************)

-------------------------------------------------------------------------------
(* The codecs do not disturb each other.                                    *)

\* Whatever the client does, each codec does what it does alone.
LEMMA CodecsApart == StreamSpec => PatchedSpec /\ VarintSpec
<1>1. StreamInit => PatchedInit /\ VarintInit
  BY DEF StreamInit
<1>2. [StreamNext]_streamVars => [PatchedNext]_patchedVars /\ [VarintNext]_varintVars
  BY DEF StreamNext, UseBits, UseBytes, streamVars
<1> QED BY <1>1, <1>2, PTL DEF StreamSpec, PatchedSpec, VarintSpec

\* The loops of the bit-packing codecs keep their properties, for plain lists and for
\* patched ones, whatever else the client encodes.
THEOREM LoopsOfClient ==
  StreamSpec => [](TypeOK /\ FitsInWord /\ DecodesInOrder /\ ReadsWhatWasWritten
                     /\ BlocksAreAsDescribed)
<1>1. QInv => PInv /\ TypeOK /\ DecodesInOrder
  BY DEF QInv, PInv
<1> QED BY <1>1, CodecsApart, SpecQInv, FitsFromInv, ReadsFromInv, DescribedFromInv, PTL

-------------------------------------------------------------------------------
(* Sequences.                                                               *)

\* A prefix has the first elements.
LEMMA PrefixElements ==
  ASSUME NEW S, NEW s \in Seq(S), NEW t \in Seq(S)
  PROVE  IsPrefix(s, t) <=> Len(s) <= Len(t) /\ \A i \in 1..Len(s) : s[i] = t[i]
BY DEF IsPrefix

\* A sequence is a prefix of one that goes on, and of itself.
LEMMA PrefixGoesOn ==
  ASSUME NEW S, NEW s \in Seq(S), NEW t \in Seq(S), NEW r \in Seq(S), IsPrefix(s, t)
  PROVE  IsPrefix(s, t \o r) /\ IsPrefix(r \o s, r \o t) /\ IsPrefix(s, s)
<1>1. Len(s) <= Len(t) /\ \A i \in 1..Len(s) : s[i] = t[i]
  BY PrefixElements
<1>2. t \o r \in Seq(S) /\ r \o s \in Seq(S) /\ r \o t \in Seq(S)
  OBVIOUS
<1>3. IsPrefix(s, t \o r)
  <2>1. Len(s) <= Len(t \o r) /\ \A i \in 1..Len(s) : s[i] = (t \o r)[i]
    BY <1>1
  <2> QED BY <1>2, <2>1, PrefixElements
<1>4. IsPrefix(r \o s, r \o t)
  <2>1. Len(r \o s) <= Len(r \o t) /\ \A i \in 1..Len(r \o s) : (r \o s)[i] = (r \o t)[i]
    BY <1>1
  <2> QED BY <1>2, <2>1, PrefixElements
<1>5. IsPrefix(s, s)
  BY PrefixElements
<1> QED BY <1>3, <1>4, <1>5

\* If two rows of sequences agree up to some place, and the first has a prefix there
\* and nothing behind, then what the first makes is a prefix of what the second does.
LEMMA FlattenPrefix ==
  ASSUME NEW S, NEW s \in Seq(Seq(S)), NEW t \in Seq(Seq(S)), Len(s) = Len(t),
         NEW j \in 1..Len(s), IsPrefix(s[j], t[j]),
         \A i \in 1..Len(s) : (i < j => s[i] = t[i]) /\ (i > j => s[i] = <<>>)
  PROVE  IsPrefix(FlattenSeq(s), FlattenSeq(t))
<1>1. PICK f : Flattened(f, s, S)
  BY FlattenFacts
<1>2. PICK g : Flattened(g, t, S)
  BY FlattenFacts
<1>3. PICK len \in Nat : len = Len(s) /\ len = Len(t) /\ j \in 1..len /\ j \in Nat
  OBVIOUS
<1>4. /\ \A i \in 0..len : f[i] \in Seq(S) /\ g[i] \in Seq(S)
      /\ f[0] = <<>> /\ g[0] = <<>>
      /\ \A i \in 1..len : f[i] = f[i - 1] \o s[i] /\ g[i] = g[i - 1] \o t[i]
      /\ \A i \in 1..len : s[i] \in Seq(S) /\ t[i] \in Seq(S)
  <2>1. \A i \in 1..len : s[i] \in Seq(S) /\ t[i] \in Seq(S)
    BY <1>3
  <2>2. f \in [0..len -> Seq(S)] /\ g \in [0..len -> Seq(S)]
    BY <1>1, <1>2, <1>3 DEF Flattened
  <2>3. /\ f[0] = <<>> /\ g[0] = <<>>
        /\ \A i \in 1..len : f[i] = f[i - 1] \o s[i] /\ g[i] = g[i - 1] \o t[i]
    BY <1>1, <1>2, <1>3 DEF Flattened
  <2> QED BY <2>1, <2>2, <2>3
<1> DEFINE Agree == {k \in Nat : k <= len => /\ k < j => f[k] = g[k]
                                             /\ k >= j => IsPrefix(f[k], g[k])}
<1>5. 0 \in Agree
  <2>1. f[0] = g[0] /\ ~(0 >= j)
    BY <1>3, <1>4
  <2> QED BY <2>1
<1>6. ASSUME NEW k \in Nat, k \in Agree PROVE k + 1 \in Agree
  <2> SUFFICES ASSUME k + 1 <= len
               PROVE  /\ k + 1 < j => f[k + 1] = g[k + 1]
                      /\ k + 1 >= j => IsPrefix(f[k + 1], g[k + 1])
    OBVIOUS
  <2>1. /\ k + 1 \in 1..len /\ k \in 0..len /\ (k + 1) - 1 = k
        /\ k < j => f[k] = g[k]
        /\ k >= j => IsPrefix(f[k], g[k])
    <3>1. k + 1 \in 1..len /\ k \in 0..len /\ (k + 1) - 1 = k /\ k <= len
      OBVIOUS
    <3> QED BY <1>6, <3>1
  <2> HIDE DEF Agree
  <2>2. /\ f[k + 1] = f[k] \o s[k + 1] /\ g[k + 1] = g[k] \o t[k + 1]
        /\ f[k] \in Seq(S) /\ g[k] \in Seq(S)
        /\ s[k + 1] \in Seq(S) /\ t[k + 1] \in Seq(S)
    BY <1>4, <2>1
  <2>3. CASE k + 1 < j
    <3>1. k < j /\ s[k + 1] = t[k + 1] /\ ~(k + 1 >= j)
      BY <1>3, <2>1, <2>3
    <3> QED BY <2>1, <2>2, <3>1
  <2>4. CASE k + 1 = j
    <3>1. f[k] = g[k] /\ IsPrefix(s[k + 1], t[k + 1])
      BY <2>1, <2>4
    <3>2. IsPrefix(f[k] \o s[k + 1], f[k] \o t[k + 1])
      BY <2>2, <3>1, PrefixGoesOn
    <3> QED BY <2>2, <2>4, <3>1, <3>2
  <2>5. CASE k + 1 > j
    <3>1. s[k + 1] = <<>> /\ IsPrefix(f[k], g[k])
      BY <1>3, <2>1, <2>5
    <3>2. f[k + 1] = f[k]
      BY <2>2, <3>1
    <3>3. IsPrefix(f[k], g[k] \o t[k + 1])
      BY <2>2, <3>1, PrefixGoesOn
    <3>4. ~(k + 1 < j)
      BY <1>3, <2>5
    <3> QED BY <2>2, <3>2, <3>3, <3>4
  <2> QED BY <2>3, <2>4, <2>5
<1> HIDE DEF Agree
<1>7. len \in Agree
  BY <1>5, <1>6, EveryNumber
<1>8. IsPrefix(f[len], g[len])
  BY <1>3, <1>7 DEF Agree
<1> QED BY <1>1, <1>2, <1>3, <1>8 DEF Flattened

\* Nothing makes nothing.
LEMMA FlattenNothing ==
  ASSUME NEW S, NEW s \in Seq(Seq(S)), \A i \in 1..Len(s) : s[i] = <<>>
  PROVE  FlattenSeq(s) = <<>>
<1>1. PICK f : Flattened(f, s, S)
  BY FlattenFacts
<1>2. PICK len \in Nat : len = Len(s)
  OBVIOUS
<1> DEFINE Empty == {k \in Nat : k <= len => f[k] = <<>>}
<1>3. 0 \in Empty
  BY <1>1 DEF Flattened
<1>4. ASSUME NEW k \in Nat, k \in Empty PROVE k + 1 \in Empty
  <2> SUFFICES ASSUME k + 1 <= len PROVE f[k + 1] = <<>>
    OBVIOUS
  <2>1. k + 1 \in 1..Len(s) /\ (k + 1) - 1 = k /\ f[k] = <<>> /\ s[k + 1] = <<>>
    BY <1>2, <1>4
  <2>2. f[k + 1] = f[k] \o s[k + 1]
    BY <1>1, <2>1 DEF Flattened
  <2> QED BY <2>1, <2>2
<1> HIDE DEF Empty
<1>5. len \in Empty
  BY <1>3, <1>4, EveryNumber
<1> QED BY <1>1, <1>2, <1>5 DEF Empty, Flattened

-------------------------------------------------------------------------------
(* The channel.                                                             *)

\* The codecs are used one at a time, and in their states.
ClientInv == QInv /\ VInv /\ (kind = "none" \/ step = "idle")

LEMMA ClientInitInv == StreamInit => ClientInv
BY InitQInv, VarintInitInv DEF StreamInit, ClientInv, PatchedInit

LEMMA ClientNextInv == ClientInv /\ [StreamNext]_streamVars => ClientInv'
<1> SUFFICES ASSUME ClientInv, [StreamNext]_streamVars PROVE ClientInv'
  OBVIOUS
<1>1. [PatchedNext]_patchedVars /\ [VarintNext]_varintVars
  BY DEF StreamNext, UseBits, UseBytes, streamVars
<1>2. QInv' /\ VInv'
  BY <1>1, NextQInv, NextVInv DEF ClientInv
<1>3. (kind = "none" \/ step = "idle")'
  BY DEF ClientInv, StreamNext, UseBits, UseBytes, streamVars, patchedVars, patchVars,
         client, varintVars
<1> QED BY <1>2, <1>3 DEF ClientInv

\* What is on its way and what has come out, in the present state and in the next.
LEMMA MessageCases ==
  /\ step = "idle" /\ kind = "plain" =>
       /\ Message = [i \in DOMAIN source |-> source[i] \cap Mask(width)]
       /\ Delivered = result
  /\ step = "idle" /\ kind # "plain" => Message = sent
  /\ step = "idle" /\ kind \in {"none", "patched"} => Delivered = <<>>
  /\ step = "idle" /\ kind = "patching" => Delivered = SubSeq(decoded, 1, origin)
  /\ step = "idle" /\ kind = "used" => Delivered = decoded
  /\ step # "idle" /\ kind = "none" =>
       /\ Message = FlattenSeq([a \in DOMAIN arrays |-> arrays[a].ints])
       /\ Delivered = FlattenSeq(got)
BY DEF Message, Delivered

LEMMA MessageCasesNext ==
  /\ step' = "idle" /\ kind' = "plain" =>
       /\ Message' = [i \in DOMAIN source' |-> source'[i] \cap Mask(width')]
       /\ Delivered' = result'
  /\ step' = "idle" /\ kind' # "plain" => Message' = sent'
  /\ step' = "idle" /\ kind' \in {"none", "patched"} => Delivered' = <<>>
  /\ step' = "idle" /\ kind' = "patching" => Delivered' = SubSeq(decoded', 1, origin')
  /\ step' = "idle" /\ kind' = "used" => Delivered' = decoded'
  /\ step' # "idle" /\ kind' = "none" =>
       /\ Message' = FlattenSeq([a \in DOMAIN arrays' |-> arrays'[a].ints])
       /\ Delivered' = FlattenSeq(got')
BY DEF Message, Delivered

\* A step of the client is one of these, or none.
ChannelStep ==
  \/ Delivered = <<>> /\ IsPrefix(Message, Message') /\ Delivered' = Delivered
  \/ IsPrefix(Delivered, Delivered') /\ IsPrefix(Delivered', Message) /\ Message' = Message
  \/ Delivered = Message /\ Message' = <<>> /\ Delivered' = <<>>
  \/ Message' = Message /\ Delivered' = Delivered

\* An empty sequence is a prefix of any.
LEMMA EmptyPrefix ==
  ASSUME NEW S, NEW t \in Seq(S)
  PROVE  IsPrefix(<<>>, t)
<1>1. <<>> \in Seq(S)
  OBVIOUS
<1>2. Len(<<>>) <= Len(t) /\ \A i \in 1..Len(<<>>) : <<>>[i] = t[i]
  OBVIOUS
<1> QED BY <1>1, <1>2, PrefixElements

\* What decode() has delivered is a prefix of what it is to deliver.
LEMMA CutPrefix ==
  ASSUME NEW list \in Seq(SUBSET Word), NEW some \in Seq(SUBSET Word), NEW w,
         Len(some) <= Len(list), \A i \in DOMAIN some : some[i] = list[i] \cap Mask(w)
  PROVE  /\ [i \in DOMAIN list |-> list[i] \cap Mask(w)] \in Seq(SUBSET Word)
         /\ IsPrefix(some, [i \in DOMAIN list |-> list[i] \cap Mask(w)])
<1> DEFINE cut == [i \in DOMAIN list |-> list[i] \cap Mask(w)]
<1>1. cut \in Seq(SUBSET Word) /\ Len(cut) = Len(list)
      /\ \A i \in 1..Len(list) : cut[i] = list[i] \cap Mask(w)
  OBVIOUS
<1> HIDE DEF cut
<1>2. Len(some) <= Len(cut) /\ \A i \in 1..Len(some) : some[i] = cut[i]
  <2>1. \A i \in 1..Len(some) : i \in DOMAIN some /\ i \in 1..Len(list)
    OBVIOUS
  <2> QED BY <1>1, <2>1
<1> QED BY <1>1, <1>2, PrefixElements DEF cut

\* The invariants give everything its type.
LEMMA ClientFacts ==
  ASSUME QInv
  PROVE  /\ source \in Seq(SUBSET Word) /\ result \in Seq(SUBSET Word)
         /\ sent \in Seq(SUBSET Word) /\ decoded \in Seq(SUBSET Word)
BY DEF QInv, PInv, TypeOK, PatchedTypeOK

\* encode() of a list, in one call or one more.
LEMMA BeginStep ==
  ASSUME ClientInv, ClientInv', step = "idle", step' = step,
         NEW w, NEW list, list \in Seq(SUBSET Word),
         \/ BeginPlain(w, list) \/ BeginPatched(w, list)
         \/ MayContinue /\ Continue(list)
  PROVE  ChannelStep
<1>1. kind = "none" => sent = <<>> /\ pc = "idle"
  BY DEF ClientInv, QInv
<1>2. result' = result /\ (pc = "idle" => result = <<>>)
  BY DEF ClientInv, QInv, PInv, Idle, Init, BeginPlain, BeginPatched, Continue, Begin,
         unpacking
<1>3. CASE BeginPlain(w, list)
  <2>1. kind = "none" /\ kind' = "plain" /\ pc = "idle"
    BY <1>3 DEF BeginPlain, Begin
  <2>2. Message = <<>> /\ Delivered = <<>> /\ Delivered' = <<>>
    BY <1>1, <1>2, <2>1, MessageCases, MessageCasesNext
  <2>3. Message' \in Seq(SUBSET Word)
    <3>1. [i \in DOMAIN source |-> source[i] \cap Mask(width)]' \in Seq(SUBSET Word)
      <4>1. source' \in Seq(SUBSET Word) /\ result' \in Seq(SUBSET Word) /\ DecodesInOrder'
        BY DEF ClientInv, QInv, PInv, TypeOK
      <4> QED BY <4>1, CutPrefix DEF DecodesInOrder
    <3> QED BY <2>1, <3>1, MessageCasesNext
  <2>4. IsPrefix(Message, Message')
    BY <2>2, <2>3, EmptyPrefix
  <2> QED BY <2>2, <2>4 DEF ChannelStep
<1>4. CASE BeginPatched(w, list)
  <2>1. kind = "none" /\ kind' = "patched" /\ sent' = list
    BY <1>4 DEF BeginPatched
  <2>2. Message = <<>> /\ Delivered = <<>> /\ Delivered' = <<>> /\ Message' = list
    BY <1>1, <2>1, MessageCases, MessageCasesNext
  <2>3. IsPrefix(Message, Message')
    BY <2>2, EmptyPrefix
  <2> QED BY <2>2, <2>3 DEF ChannelStep
<1>5. CASE MayContinue /\ Continue(list)
  <2>1. kind = "patched" /\ kind' = "patched" /\ sent' = sent \o list
    BY <1>5 DEF MayContinue, Continue
  <2>2. Message = sent /\ Delivered = <<>> /\ Delivered' = <<>> /\ Message' = sent \o list
    BY <2>1, MessageCases, MessageCasesNext
  <2>3. sent \in Seq(SUBSET Word)
    BY ClientFacts DEF ClientInv
  <2>4. IsPrefix(sent, sent)
    BY <2>3, PrefixElements
  <2>5. IsPrefix(sent, sent \o list)
    BY <2>3, <2>4, PrefixGoesOn
  <2> QED BY <2>2, <2>5 DEF ChannelStep
<1> QED BY <1>3, <1>4, <1>5

\* The loops deliver what they decode of a plain list, and nothing of any other.
LEMMA LoopStep ==
  ASSUME ClientInv, ClientInv', step = "idle", step' = step,
         PutPlain \/ PutPatched \/ Loop
  PROVE  ChannelStep
<1>1. /\ kind' = kind /\ nbits' = nbits /\ sent' = sent /\ decoded' = decoded
      /\ width' = width /\ source' = source
  BY DEF PutPlain, PutPatched, Loop, Put, PutLow, PutMiddle, PutHigh, patchVars, client,
         call, StartBlock, SkipMiddle, StoreBlock, EncodeReturns, LoadBlock, TakeLow,
         TakeMiddle, TakeNoMiddle, TakeHigh, EndOfBlock
<1>2. CASE kind = "plain"
  <2>1. Message' = Message /\ Delivered = result /\ Delivered' = result'
    BY <1>1, <1>2, MessageCases, MessageCasesNext
  <2>2. IsPrefix(result', Message)
    <3>1. IsPrefix(result, [i \in DOMAIN source |-> source[i] \cap Mask(width)])'
      BY CutPrefix DEF ClientInv, QInv, PInv, TypeOK, DecodesInOrder
    <3> QED BY <1>1, <1>2, <3>1, MessageCases
  <2>3. result' = result \/ \E x : result' = Append(result, x)
    BY DEF PutPlain, PutPatched, Loop, Put, PutLow, PutMiddle, PutHigh, unpacking, Store,
           StartBlock, SkipMiddle, StoreBlock, EncodeReturns, LoadBlock, TakeLow,
           TakeMiddle, TakeNoMiddle, TakeHigh, EndOfBlock
  <2>4. result \in Seq(SUBSET Word) /\ result' \in Seq(SUBSET Word)
    BY ClientFacts DEF ClientInv, QInv, PInv, TypeOK
  <2>5. IsPrefix(result, result')
    <3>1. Len(result) <= Len(result') /\ \A i \in 1..Len(result) : result[i] = result'[i]
      BY <2>3, <2>4
    <3> QED BY <2>4, <3>1, PrefixElements
  <2> QED BY <2>1, <2>2, <2>5 DEF ChannelStep
<1>3. CASE kind # "plain"
  <2>1. /\ Message' = Message
        /\ kind \in {"none", "patched"} => Delivered' = Delivered
        /\ kind = "used" => Delivered' = Delivered
    BY <1>1, <1>3, MessageCases, MessageCasesNext
  <2>2. kind = "patching" => origin' = origin
    BY DEF PutPlain, PutPatched, Loop, patchVars, outliers
  <2>3. kind \in {"none", "plain", "patched", "patching", "used"}
    BY DEF ClientInv, QInv, PatchedTypeOK
  <2>4. kind = "patching" => Delivered' = Delivered
    BY <1>1, <2>2, MessageCases, MessageCasesNext
  <2> QED BY <1>3, <2>1, <2>3, <2>4 DEF ChannelStep
<1> QED BY <1>2, <1>3

\* A plain list has been decoded, or a part of a patched one.
LEMMA DecodedStep ==
  ASSUME ClientInv, step = "idle", step' = step, PlainDecoded \/ BasicDecoded
  PROVE  ChannelStep
<1>1. CASE PlainDecoded
  <2>1. /\ kind = "plain" /\ kind' = "none" /\ sent' = sent /\ sent = <<>>
        /\ pc = "decode" /\ Left = 0
    BY <1>1 DEF PlainDecoded, DecodeReturns, ClientInv, QInv
  <2>2. /\ Message = [i \in DOMAIN source |-> source[i] \cap Mask(width)]
        /\ Delivered = result /\ Message' = <<>> /\ Delivered' = <<>>
    BY <2>1, MessageCases, MessageCasesNext
  <2>3. result = [i \in DOMAIN source |-> source[i] \cap Mask(width)]
    <3>1. /\ source \in Seq(SUBSET Word) /\ result \in Seq(SUBSET Word)
          /\ Len(result) = Len(source)
          /\ \A i \in DOMAIN result : result[i] = source[i] \cap Mask(width)
      BY <2>1 DEF ClientInv, QInv, PInv, TypeOK, DecodesInOrder, Left
    <3>2. DOMAIN result = DOMAIN source /\ result = [i \in DOMAIN result |-> result[i]]
      BY <3>1
    <3> QED BY <3>1, <3>2
  <2> QED BY <2>2, <2>3 DEF ChannelStep
<1>2. CASE BasicDecoded
  <2>1. kind = "patched" /\ kind' = kind /\ sent' = sent
    BY <1>2 DEF BasicDecoded, client
  <2>2. Message' = Message /\ Delivered' = Delivered
    BY <2>1, MessageCases, MessageCasesNext
  <2> QED BY <2>2 DEF ChannelStep
<1> QED BY <1>1, <1>2

\* What decode_patch() has passed is what was sent.
LEMMA PatchedPrefix ==
  ASSUME NEW S, NEW list \in Seq(S), NEW some \in Seq(S), Len(some) = Len(list),
         NEW k \in 0..Len(list), \A i \in 1..k : some[i] = list[i]
  PROVE  SubSeq(some, 1, k) = SubSeq(list, 1, k)
<1>1. /\ SubSeq(some, 1, k) = [i \in 1..k |-> some[i]]
      /\ SubSeq(list, 1, k) = [i \in 1..k |-> list[i]]
  OBVIOUS
<1> QED BY <1>1

\* The first elements of a sequence are a prefix of more of them.
LEMMA PrefixOfPrefix ==
  ASSUME NEW S, NEW list \in Seq(S), NEW k \in 0..Len(list), NEW j \in 0..k
  PROVE  /\ IsPrefix(SubSeq(list, 1, j), SubSeq(list, 1, k))
         /\ IsPrefix(SubSeq(list, 1, j), list)
<1>1. PICK first \in Seq(S), more \in Seq(S) :
        first = SubSeq(list, 1, j) /\ more = SubSeq(list, 1, k)
  <2>1. j \in 0..Len(list)
    OBVIOUS
  <2>2. SubSeq(list, 1, j) \in Seq(S) /\ SubSeq(list, 1, k) \in Seq(S)
    BY <2>1
  <2> QED BY <2>2
<1>2. /\ Len(first) = j /\ Len(more) = k
      /\ \A i \in 1..j : first[i] = list[i] /\ more[i] = list[i]
  BY <1>1
<1>3. IsPrefix(first, more) /\ IsPrefix(first, list)
  BY <1>2, PrefixElements
<1> QED BY <1>1, <1>3

\* decode_patch() delivers up to the outlier it restores.
LEMMA PatchStep ==
  ASSUME ClientInv, ClientInv', step = "idle", step' = step,
         BeginPatch \/ PatchNext \/ PatchReturns \/ Reset
  PROVE  ChannelStep
<1>1. sent \in Seq(SUBSET Word) /\ decoded \in Seq(SUBSET Word) /\ origin \in Nat
  BY DEF ClientInv, QInv, PatchedTypeOK
<1>2. CASE BeginPatch
  <2>1. /\ kind = "patched" /\ kind' = "patching" /\ sent' = sent /\ decoded' = decoded
        /\ origin' = 0
    BY <1>2 DEF BeginPatch
  <2>2. SubSeq(decoded, 1, 0) = <<>>
    BY <1>1
  <2>3. Message' = Message /\ Delivered' = Delivered
    BY <2>1, <2>2, MessageCases, MessageCasesNext
  <2> QED BY <2>3 DEF ChannelStep
<1>3. CASE PatchNext
  <2>1. /\ kind = "patching" /\ kind' = kind /\ sent' = sent
        /\ patched < Len(excpts.indices) /\ origin' = PatchIndex + 1
    BY <1>3 DEF PatchNext, client
  <2>2. PICK pos \in Seq(Nat) : Collected(pos) /\ origin = Behind(pos, patched)
    BY <2>1 DEF ClientInv, QInv, OutliersInOrder
  <2>3. PatchIndex \in origin..(Len(sent) - 1)
    BY <2>1, <2>2, NextOutlier DEF ClientInv
  <2>4. origin' \in 0..Len(sent) /\ origin \in 0..origin' /\ origin \in 0..Len(sent)
    BY <1>1, <2>1, <2>3
  <2>5. Len(decoded) = Len(sent) /\ \A i \in 1..origin : decoded[i] = sent[i]
    BY <1>1, <2>1, <2>4 DEF ClientInv, QInv, OutliersInOrder
  <2>6. /\ Len(decoded') = Len(sent) /\ decoded' \in Seq(SUBSET Word)
        /\ \A i \in 1..origin' : decoded'[i] = sent[i]
    BY <1>1, <2>1, <2>4, SMTT(30) DEF ClientInv, QInv, OutliersInOrder, PatchedTypeOK
  <2>7. /\ Message' = sent /\ Message = sent
        /\ Delivered = SubSeq(decoded, 1, origin) /\ Delivered' = SubSeq(decoded', 1, origin')
    BY <2>1, MessageCases, MessageCasesNext
  <2>8. Delivered = SubSeq(sent, 1, origin) /\ Delivered' = SubSeq(sent, 1, origin')
    BY <1>1, <2>4, <2>5, <2>6, <2>7, PatchedPrefix
  <2>9. /\ IsPrefix(SubSeq(sent, 1, origin), SubSeq(sent, 1, origin'))
        /\ IsPrefix(SubSeq(sent, 1, origin'), sent)
    BY <1>1, <2>4, PrefixOfPrefix
  <2> QED BY <2>7, <2>8, <2>9 DEF ChannelStep
<1>4. CASE PatchReturns
  <2>1. /\ kind = "patching" /\ kind' = "used" /\ sent' = sent /\ decoded' = decoded
        /\ origin' = origin /\ excpts' = excpts /\ patched' = patched
        /\ patched = Len(excpts.indices)
    BY <1>4 DEF PatchReturns, outliers
  <2>2. decoded = sent
    BY <2>1 DEF ClientInv, QInv
  <2>3. PICK pos \in Seq(Nat) : Collected(pos) /\ origin = Behind(pos, patched)
    BY <2>1 DEF ClientInv, QInv, OutliersInOrder
  <2>4. origin \in 0..Len(sent)
    BY <1>1, <2>1, <2>3 DEF Collected, ClientInv, QInv, OutliersInOrder
  <2>5. /\ Message' = sent /\ Message = sent
        /\ Delivered = SubSeq(sent, 1, origin) /\ Delivered' = sent
    BY <2>1, <2>2, MessageCases, MessageCasesNext
  <2>6. IsPrefix(SubSeq(sent, 1, origin), sent) /\ IsPrefix(sent, sent)
    BY <1>1, <2>4, PrefixOfPrefix, PrefixElements
  <2> QED BY <2>5, <2>6 DEF ChannelStep
<1>5. CASE Reset
  <2>1. kind = "used" /\ kind' = "none" /\ sent' = <<>> /\ decoded = sent
    BY <1>5 DEF Reset, ClientInv, QInv
  <2>2. Message = sent /\ Delivered = sent /\ Message' = <<>> /\ Delivered' = <<>>
    BY <2>1, MessageCases, MessageCasesNext
  <2> QED BY <2>2 DEF ChannelStep
<1> QED BY <1>2, <1>3, <1>4, <1>5

\* The integers that varint_codec is given.
Given == [a \in DOMAIN arrays |-> arrays[a].ints]

LEMMA GivenFacts ==
  ASSUME VInv
  PROVE  /\ arrays \in Seq(ArrayType) /\ got \in Seq(Seq(SUBSET Word))
         /\ Given \in Seq(Seq(SUBSET Word)) /\ Len(Given) = Len(arrays)
         /\ \A a \in 1..Len(arrays) : Given[a] = arrays[a].ints
<1>1. arrays \in Seq(ArrayType) /\ got \in Seq(Seq(SUBSET Word))
  BY DEF VInv, VarintTypeOK
<1>2. \A a \in 1..Len(arrays) : arrays[a].ints \in Seq(SUBSET Word)
  <2>1. \A a \in 1..Len(arrays) : arrays[a] \in ArrayType
    BY <1>1
  <2> QED BY <2>1 DEF ArrayType
<1> QED BY <1>1, <1>2 DEF Given

\* A decoded integer is put behind those that are there.
LEMMA DeliverStep ==
  ASSUME VInv, VInv', step \in {"read", "take"}, step' = "read", arrays' = arrays,
         array' = array, InArray, NEW word, Deliver(word)
  PROVE  /\ IsPrefix(FlattenSeq(got), FlattenSeq(got'))
         /\ IsPrefix(FlattenSeq(got'), FlattenSeq(Given))
<1>1. /\ got' = [got EXCEPT ![array] = Append(got[array], word)] /\ item' = item + 1
  BY DEF Deliver
<1>2. /\ got \in Seq(Seq(SUBSET Word)) /\ got' \in Seq(Seq(SUBSET Word))
      /\ Given \in Seq(Seq(SUBSET Word)) /\ Len(Given) = Len(arrays)
      /\ \A a \in 1..Len(arrays) : Given[a] = arrays[a].ints
      /\ arrays \in Seq(ArrayType) /\ array \in 1..Len(arrays)
  <2>1. got' \in Seq(Seq(SUBSET Word))
    BY DEF VInv, VarintTypeOK
  <2>2. array \in 1..Len(arrays)
    BY DEF VInv, VarintTypeOK, InArray
  <2> QED BY <2>1, <2>2, GivenFacts
<1>3. /\ Len(got) = Len(arrays) /\ Len(got') = Len(arrays)
      /\ \A a \in 1..Len(arrays) : Len(got[a]) = GotOf(a) /\ Len(got'[a]) = GotOf(a)'
      /\ \A a \in 1..Len(arrays) : \A i \in 1..Len(got'[a]) : got'[a][i] = Given[a][i]
      /\ \A a \in 1..Len(arrays) : got[a] \in Seq(SUBSET Word) /\ got'[a] \in Seq(SUBSET Word)
                                   /\ Given[a] \in Seq(SUBSET Word)
  <2> DOMAIN arrays = 1..Len(arrays)
    BY <1>2
  <2>1. Len(got) = Len(arrays) /\ \A a \in 1..Len(arrays) : Len(got[a]) = GotOf(a)
    <3>1. Reading /\ step \in {"read", "take"}
      BY DEF VInv
    <3> QED BY <3>1 DEF Reading
  <2>2. Len(got') = Len(arrays) /\ \A a \in 1..Len(arrays) : Len(got'[a]) = GotOf(a)'
    <3>1. Reading' /\ step' \in {"read", "take"}
      BY DEF VInv
    <3>2. Len(got') = Len(arrays') /\ \A a \in DOMAIN arrays' : Len(got'[a]) = GotOf(a)'
      BY <3>1 DEF Reading
    <3> QED BY <3>2
  <2>3. \A a \in 1..Len(arrays) : got[a] \in Seq(SUBSET Word) /\ got'[a] \in Seq(SUBSET Word)
                                  /\ Given[a] \in Seq(SUBSET Word)
    BY <1>2, <2>1, <2>2
  <2>4. ASSUME NEW a \in 1..Len(arrays), NEW i \in 1..Len(got'[a])
        PROVE  got'[a][i] = Given[a][i]
    <3>1. DeliversInOrder'
      BY DEF VInv
    <3>2. \A c \in DOMAIN got' : \A j \in DOMAIN got'[c] : got'[c][j] = arrays'[c].ints[j]
      BY <3>1 DEF DeliversInOrder
    <3>3. a \in DOMAIN got' /\ DOMAIN got'[a] = 1..Len(got'[a]) /\ Given[a] = arrays'[a].ints
      BY <1>2, <2>2, <2>3
    <3> QED BY <3>2, <3>3
  <2> QED BY <2>1, <2>2, <2>3, <2>4
<1>4. /\ \A a \in 1..Len(arrays) : a # array => got'[a] = got[a]
      /\ got'[array] = Append(got[array], word)
  BY <1>1, <1>2, <1>3
<1>5. ASSUME NEW a \in 1..Len(arrays), a > array
      PROVE  got[a] = <<>> /\ got'[a] = <<>>
  BY <1>2, <1>3, <1>4, <1>5, SMTT(30) DEF GotOf
<1>6. ASSUME NEW a \in 1..Len(arrays), a < array
      PROVE  got'[a] = Given[a]
  <2>1. Len(got'[a]) = Len(Given[a])
    <3>1. GotOf(a)' = Len(arrays[a].ints)
      BY <1>6 DEF GotOf
    <3> QED BY <1>2, <1>3, <3>1
  <2>2. got'[a] \in Seq(SUBSET Word) /\ Given[a] \in Seq(SUBSET Word)
        /\ \A i \in 1..Len(got'[a]) : got'[a][i] = Given[a][i]
    BY <1>3
  <2>3. PICK p \in Seq(SUBSET Word), q \in Seq(SUBSET Word) : p = got'[a] /\ q = Given[a]
    BY <2>2
  <2>4. p = [i \in 1..Len(p) |-> p[i]] /\ q = [i \in 1..Len(q) |-> q[i]]
    OBVIOUS
  <2>5. Len(p) = Len(q) /\ \A i \in 1..Len(p) : p[i] = q[i]
    BY <2>1, <2>2, <2>3
  <2> QED BY <2>3, <2>4, <2>5
<1>7. IsPrefix(got[array], got'[array])
  <2>1. Len(got[array]) <= Len(got'[array])
        /\ \A i \in 1..Len(got[array]) : got[array][i] = got'[array][i]
    BY <1>2, <1>3, <1>4
  <2> QED BY <1>2, <1>3, <2>1, PrefixElements
<1>8. IsPrefix(got'[array], Given[array])
  <2>1. Len(got'[array]) <= Len(Given[array])
    <3>1. Len(got'[array]) = item'
      BY <1>2, <1>3 DEF GotOf
    <3>2. item' <= Len(Given[array])
      BY <1>2, SMTT(30) DEF VInv, VarintTypeOK, InArray, Items
    <3> QED BY <3>1, <3>2
  <2> QED BY <1>2, <1>3, <2>1, PrefixElements
<1>9. IsPrefix(FlattenSeq(got), FlattenSeq(got'))
  BY <1>2, <1>3, <1>4, <1>5, <1>7, FlattenPrefix
<1>10. IsPrefix(FlattenSeq(got'), FlattenSeq(Given))
  BY <1>2, <1>3, <1>5, <1>6, <1>8, FlattenPrefix
<1> QED BY <1>9, <1>10

\* When decode() has come to the end, everything is there.
LEMMA AllDecoded ==
  ASSUME VInv, step = "read", ~InArray
  PROVE  got = Given
<1>1. /\ arrays \in Seq(ArrayType) /\ got \in Seq(Seq(SUBSET Word))
      /\ Given \in Seq(Seq(SUBSET Word)) /\ Len(Given) = Len(arrays)
      /\ \A a \in 1..Len(arrays) : Given[a] = arrays[a].ints
  BY GivenFacts
<1>2. array = Len(arrays) + 1
  BY <1>1 DEF VInv, VarintTypeOK, InArray
<1>3. Len(got) = Len(arrays) /\ \A a \in 1..Len(arrays) : Len(got[a]) = GotOf(a)
  <2>1. Reading /\ DOMAIN arrays = 1..Len(arrays)
    BY <1>1 DEF VInv
  <2> QED BY <2>1 DEF Reading
<1>4. \A a \in 1..Len(arrays) : GotOf(a) = Len(arrays[a].ints)
  BY <1>1, <1>2 DEF GotOf
<1>5. ASSUME NEW a \in 1..Len(arrays) PROVE got[a] = Given[a]
  <2>1. got[a] \in Seq(SUBSET Word) /\ Given[a] \in Seq(SUBSET Word)
    BY <1>1, <1>3
  <2>2. Len(got[a]) = Len(Given[a])
    BY <1>1, <1>3, <1>4
  <2>3. \A i \in 1..Len(got[a]) : got[a][i] = Given[a][i]
    <3>1. a \in DOMAIN got /\ DOMAIN got[a] = 1..Len(got[a])
      BY <1>1, <1>3, <2>1
    <3> QED BY <1>1, <3>1 DEF VInv, DeliversInOrder
  <2>4. PICK p \in Seq(SUBSET Word), q \in Seq(SUBSET Word) : p = got[a] /\ q = Given[a]
    BY <2>1
  <2>5. p = [i \in 1..Len(p) |-> p[i]] /\ q = [i \in 1..Len(q) |-> q[i]]
    OBVIOUS
  <2>6. Len(p) = Len(q) /\ \A i \in 1..Len(p) : p[i] = q[i]
    BY <2>2, <2>3, <2>4
  <2> QED BY <2>4, <2>5, <2>6
<1>6. PICK p \in Seq(Seq(SUBSET Word)), q \in Seq(Seq(SUBSET Word)) : p = got /\ q = Given
  BY <1>1
<1>7. p = [i \in 1..Len(p) |-> p[i]] /\ q = [i \in 1..Len(q) |-> q[i]]
  OBVIOUS
<1>8. Len(p) = Len(q) /\ \A i \in 1..Len(p) : p[i] = q[i]
  BY <1>1, <1>3, <1>5, <1>6
<1> QED BY <1>6, <1>7, <1>8

\* What is made of sequences is a sequence.
LEMMA FlattenType ==
  ASSUME NEW S, NEW seqs \in Seq(Seq(S))
  PROVE  FlattenSeq(seqs) \in Seq(S)
<1>1. PICK f : Flattened(f, seqs, S)
  BY FlattenFacts
<1> QED BY <1>1 DEF Flattened

\* The integers of a message.
LEMMA MessageIntegers ==
  ASSUME NEW rows \in Seq(ArrayType)
  PROVE  [a \in DOMAIN rows |-> rows[a].ints] \in Seq(Seq(SUBSET Word))
<1>1. \A a \in 1..Len(rows) : rows[a].ints \in Seq(SUBSET Word)
  <2>1. \A a \in 1..Len(rows) : rows[a] \in ArrayType
    OBVIOUS
  <2> QED BY <2>1 DEF ArrayType
<1> QED BY <1>1

\* The codec that writes bytes delivers what it decodes, and nothing before.
LEMMA BytesStep ==
  ASSUME ClientInv, ClientInv', UseBytes
  PROVE  ChannelStep
<1>1. kind = "none" /\ kind' = "none" /\ sent = <<>> /\ sent' = <<>> /\ VarintNext
  BY DEF UseBytes, patchedVars, patchVars, client, ClientInv, QInv
<1>2. VInv /\ VInv' /\ VarintTypeOK /\ VarintTypeOK'
  BY DEF ClientInv, VInv
<1>3. step # "idle" => Message = FlattenSeq(Given) /\ Delivered = FlattenSeq(got)
  BY <1>1, MessageCases DEF Given
<1>4. step' # "idle" => Message' = FlattenSeq(Given') /\ Delivered' = FlattenSeq(got')
  BY <1>1, MessageCasesNext DEF Given
<1>5. CASE \E message \in Messages : BeginArrays(message)
  <2>1. step = "idle" /\ step' = "write" /\ got' = got
    BY <1>5 DEF BeginArrays
  <2>2. got = <<>>
    BY <1>2, <2>1 DEF VInv, VarintInit
  <2>3. Message = <<>> /\ Delivered = <<>>
    BY <1>1, <2>1, MessageCases
  <2>4. Delivered' = <<>>
    <3>1. got' \in Seq(Seq(SUBSET Word)) /\ \A i \in 1..Len(got') : got'[i] = <<>>
      BY <2>1, <2>2
    <3> QED BY <1>4, <2>1, <3>1, FlattenNothing
  <2>5. Message' \in Seq(SUBSET Word)
    <3>1. arrays' \in Seq(ArrayType)
      BY <1>2 DEF VarintTypeOK
    <3>2. Given' \in Seq(Seq(SUBSET Word))
      BY <3>1, MessageIntegers DEF Given
    <3> QED BY <1>4, <2>1, <3>2, FlattenType
  <2> QED BY <2>3, <2>4, <2>5, EmptyPrefix DEF ChannelStep
<1>6. CASE NextArray \/ StartValue \/ PutMarked \/ PutLast \/ TakeFirst \/ TakeNext
  <2>1. step # "idle" /\ step' # "idle" /\ arrays' = arrays /\ got' = got
    BY <1>6 DEF NextArray, StartValue, PutMarked, PutLast, TakeFirst, TakeNext
  <2>2. Given' = Given
    BY <2>1 DEF Given
  <2> QED BY <1>3, <1>4, <2>1, <2>2 DEF ChannelStep
<1>7. CASE WriteReturns
  <2>1. /\ step = "write" /\ step' = "read" /\ arrays' = arrays
        /\ got' = [a \in DOMAIN arrays |-> <<>>]
    BY <1>7 DEF WriteReturns
  <2>2. got = <<>> /\ got' \in Seq(Seq(SUBSET Word)) /\ Given' = Given
    BY <1>2, <2>1 DEF VInv, Writing, VarintTypeOK, Given
  <2>3. \A i \in 1..Len(got') : got'[i] = <<>>
    BY <1>2, <2>1, <2>2 DEF VarintTypeOK
  <2>4. got \in Seq(Seq(SUBSET Word)) /\ \A i \in 1..Len(got) : got[i] = <<>>
    BY <2>2
  <2>5. FlattenSeq(got) = <<>> /\ FlattenSeq(got') = <<>>
    BY <2>2, <2>3, <2>4, FlattenNothing
  <2> QED BY <1>3, <1>4, <2>1, <2>2, <2>5 DEF ChannelStep
<1>8. CASE TakeOnly \/ TakeLast
  <2>1. /\ step \in {"read", "take"} /\ step' = "read" /\ arrays' = arrays /\ array' = array
        /\ InArray
    BY <1>2, <1>8 DEF TakeOnly, TakeLast, Deliver, VInv, Reading
  <2>2. \E word : Deliver(word)
    BY <1>8 DEF TakeOnly, TakeLast
  <2>3. /\ IsPrefix(FlattenSeq(got), FlattenSeq(got'))
        /\ IsPrefix(FlattenSeq(got'), FlattenSeq(Given))
    BY <1>2, <2>1, <2>2, DeliverStep
  <2>4. Given' = Given
    BY <2>1 DEF Given
  <2> QED BY <1>3, <1>4, <2>1, <2>3, <2>4 DEF ChannelStep
<1>9. CASE ReadReturns
  <2>1. step = "read" /\ step' = "idle" /\ ~InArray
    BY <1>9 DEF ReadReturns
  <2>2. Message' = <<>> /\ Delivered' = <<>>
    BY <1>1, <2>1, MessageCasesNext
  <2>3. got = Given
    BY <1>2, <2>1, AllDecoded
  <2> QED BY <1>3, <2>1, <2>2, <2>3 DEF ChannelStep
<1> QED BY <1>1, <1>5, <1>6, <1>7, <1>8, <1>9 DEF VarintNext, VarintStep

\* Each step of the client is a step of the channel, or none.
LEMMA ClientStep ==
  ASSUME ClientInv, ClientInv', [StreamNext]_streamVars
  PROVE  ChannelStep
<1>1. CASE UNCHANGED streamVars
  <2>1. Message' = Message /\ Delivered' = Delivered
    BY <1>1 DEF Message, Delivered, streamVars, patchedVars, patchVars, outliers, client,
                vars, call, varintVars
  <2> QED BY <2>1 DEF ChannelStep
<1>2. CASE UseBytes
  BY <1>2, BytesStep
<1>3. CASE UseBits
  <2>1. step = "idle" /\ step' = step /\ PatchedNext
    BY <1>3 DEF UseBits, varintVars
  <2>2. CASE \E w \in Widths : \E list \in Lists(w) : BeginPlain(w, list) \/ BeginPatched(w, list)
    <3>1. PICK w \in Widths : \E list \in Lists(w) : BeginPlain(w, list) \/ BeginPatched(w, list)
      BY <2>2
    <3>2. PICK list \in Lists(w) : BeginPlain(w, list) \/ BeginPatched(w, list)
      BY <3>1
    <3>3. list \in Seq(SUBSET Word)
      BY <3>1, <3>2, ListsAssumption
    <3> QED BY <2>1, <3>2, <3>3, BeginStep
  <2>3. CASE MayContinue /\ \E list \in Lists(nbits) : Continue(list)
    <3>1. nbits \in Widths
      BY <2>3 DEF MayContinue, ClientInv, QInv
    <3>2. PICK w \in Widths : w = nbits
      BY <3>1
    <3>3. PICK list \in Lists(w) : MayContinue /\ Continue(list)
      BY <2>3, <3>2
    <3>4. list \in Seq(SUBSET Word)
      BY <3>3, ListsAssumption
    <3> QED BY <2>1, <3>3, <3>4, BeginStep
  <2>4. CASE PutPlain \/ PutPatched \/ Loop
    BY <2>1, <2>4, LoopStep
  <2>5. CASE PlainDecoded \/ BasicDecoded
    BY <2>1, <2>5, DecodedStep
  <2>6. CASE BeginPatch \/ PatchNext \/ PatchReturns \/ Reset
    BY <2>1, <2>6, PatchStep
  <2> QED BY <2>1, <2>2, <2>3, <2>4, <2>5, <2>6 DEF PatchedNext
<1> QED BY <1>1, <1>2, <1>3 DEF StreamNext

\* Whatever the lists and the arrays of a client that keeps to MayContinue, what comes
\* out of decode() is what went into encode(): the client and its codecs are a channel
\* of integers, but for when they deliver.
THEOREM ClientIsChannel ==
  StreamSpec => Channel!ChannelInit /\ [][Channel!ChannelNext]_(Channel!channelVars)
<1>1. StreamInit => Channel!ChannelInit
  <2> SUFFICES ASSUME StreamInit PROVE Message = <<>> /\ Delivered = <<>>
    BY DEF Channel!ChannelInit
  <2>1. step = "idle" /\ kind = "none" /\ sent = <<>>
    BY DEF StreamInit, PatchedInit, VarintInit
  <2> QED BY <2>1, MessageCases
<1>2. ClientInv /\ ClientInv' /\ [StreamNext]_streamVars
        => [Channel!ChannelNext]_(Channel!channelVars)
  <2> SUFFICES ASSUME ClientInv, ClientInv', [StreamNext]_streamVars
               PROVE  [Channel!ChannelNext]_(Channel!channelVars)
    OBVIOUS
  <2>1. ChannelStep
    BY ClientStep
  <2>2. \A s, t : Channel!IsPrefix(s, t) <=> IsPrefix(s, t)
    BY DEF Channel!IsPrefix, IsPrefix
  <2> QED BY <2>1, <2>2 DEF ChannelStep, Channel!ChannelNext, Channel!Send, Channel!Deliver,
                      Channel!Forget, Channel!channelVars
<1> QED BY <1>1, <1>2, ClientInitInv, ClientNextInv, PTL DEF StreamSpec

\* What is true of patched lists and of arrays of bytes alone is true of the client's.
THEOREM CodecsOfClient ==
  StreamSpec => [](/\ PatchedTypeOK /\ PatchesInside /\ PatchRestores
                   /\ ExceptionsAreAsDescribed
                   /\ VarintTypeOK /\ NoBitIsLost /\ MovesBySpace /\ DeliversInOrder
                   /\ BytesAreAsDescribed)
<1>1. QInv => PatchedTypeOK /\ PatchesInside /\ PatchRestores /\ ExceptionsAreAsDescribed
  BY InsideFromInv, RestoresFromInv, ExceptionsFromInv DEF QInv
<1>2. VInv => /\ VarintTypeOK /\ NoBitIsLost /\ MovesBySpace /\ DeliversInOrder
              /\ BytesAreAsDescribed
  BY BitsFromInv, MovesFromInv, BytesFromInv DEF VInv
<1> QED BY <1>1, <1>2, CodecsApart, SpecQInv, SpecVInv, PTL

=======================================================================================
