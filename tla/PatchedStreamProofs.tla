------------------------------ MODULE PatchedStreamProofs ------------------------------
(*************************************************************************)
(* What the loops of packed and patched lists promise, for every value of*)
(* the constants: first of the blocks of integers (PackedStream), then of*)
(* the lists that are patched behind them (PatchedStream).               *)
(*************************************************************************)
EXTENDS PatchedStream, BitpckProofs

(***************************************************************************)
(* The loops of bitpck_codec are right for every width of a word, every    *)
(* number of bits that are packed and every list of integers: no bit is    *)
(* shifted out of a word, decode() reads what encode() has written, and    *)
(* gives the integers back in their order.                                 *)
(*                                                                         *)
(* The argument is about bits: a block is a row of them, in which the      *)
(* integers lie one behind the other (module BitpckProofs).  The shifts of *)
(* the code, which go on from one integer to the next, are multiples of    *)
(* nbits, less WordBits in the upper word.                                 *)
(***************************************************************************)

\* How many integers there are in the block that begins with the index first.
Filled(first) ==
  IF first + Capacity(width) <= Len(source) THEN Capacity(width)
  ELSE Len(source) - first

Lesser(a, b) == IF a <= b THEN a ELSE b

-------------------------------------------------------------------------------
(* The inductive invariant.                                                 *)

\* The blocks that are written hold the integers that belong there.
StreamHolds ==
  \A b \in DOMAIN stream :
    LET first == (b - 1) * Capacity(width)
    IN Holds(stream[b].u, stream[b].v, source, first, Filled(first), width)

\* Between two blocks of encode(): the blocks are full, but for the last of all.
BlocksWritten ==
  pc = "encode" =>
    /\ Len(stream) = BlockNumber(taken, width)
    /\ taken = Len(stream) * Capacity(width) \/ AtEnd

\* The integers of the block under way that are in it.
Placed == taken - Len(stream) * Capacity(width)

\* A block under way holds the integers that are placed, and the next one goes
\* right behind them.
BlockPlaced ==
  pc \in {"put_low", "put_high"} =>
    /\ Len(stream) * Capacity(width) < Len(source)
    /\ Placed \in 0..Capacity(width)
    /\ Holds(u, v, source, Len(stream) * Capacity(width), Placed, width)
    /\ pc = "put_low" =>
         /\ m = LowCount(width) - Placed
         /\ n = Capacity(width) - LowCount(width)
         /\ shift = Placed * width
    /\ pc = "put_high" =>
         /\ n = Capacity(width) - Placed
         /\ shift = Placed * width - WordBits

EncodeInv ==
  pc \in {"encode", "put_low", "put_high"} => loaded = 0 /\ result = <<>>

\* Between two blocks of decode().
BlocksRead ==
  pc = "decode" =>
    /\ loaded = BlockNumber(Len(result), width)
    /\ Len(result) = loaded * Capacity(width) \/ Left = 0

\* The index where the integers of the loaded block begin, how many of them are
\* decoded, and how many are to be decoded, from u and in all.
First == (loaded - 1) * Capacity(width)
Done == Len(result) - First
FromLow == Lesser(LowCount(width), Filled(First))

\* What is left of the words of the loaded block are the integers that are left:
\* a whole word that is shifted by its width holds none.
BlockTaken ==
  pc \in {"take_low", "take_high"} =>
    /\ loaded # 0
    /\ First < Len(source)
    /\ Done \in 0..Filled(First)
    /\ pc = "take_low" =>
         /\ m = FromLow - Done
         /\ n = Filled(First) - FromLow
         /\ Done * width < WordBits => u = ShiftRight(stream[loaded].u, Done * width)
         /\ v = stream[loaded].v
    /\ pc = "take_high" =>
         /\ n = Filled(First) - Done
         /\ n > 0 => /\ WordBits <= Done * width
                     /\ v = ShiftRight(stream[loaded].v, Done * width - WordBits)

DecodeInv ==
  pc \in {"decode", "take_low", "take_high"} =>
    AtEnd /\ Len(stream) = BlockNumber(Len(source), width)

\* Nothing is left of a call.
Idle == pc = "idle" => Init

PInv ==
  /\ TypeOK
  /\ pc \in {"idle", "encode", "put_low", "put_high", "decode", "take_low", "take_high"}
  /\ Idle /\ (pc # "idle" => width \in Widths)
  /\ StreamHolds /\ BlocksWritten /\ BlockPlaced /\ EncodeInv
  /\ BlocksRead /\ BlockTaken /\ DecodeInv
  /\ DecodesInOrder

-------------------------------------------------------------------------------
(* The steps of encode().                                                   *)

\* What the invariant says of the width of a call.
LEMMA WidthFacts ==
  ASSUME PInv, pc # "idle"
  PROVE  /\ width \in 1..WordBits
         /\ source \in Seq(SUBSET Word) /\ Len(source) \in Nat
         /\ Len(stream) \in Nat
         /\ Len(stream) * Capacity(width) \in Nat
<1>1. width \in 1..WordBits /\ source \in Seq(SUBSET Word) /\ Len(stream) \in Nat
  BY WidthsAssumption DEF PInv, TypeOK
<1>2. Capacity(width) \in Nat
  BY <1>1, CapacityFacts
<1> QED BY <1>1, <1>2, ProductType

\* A step of encode() that writes no block leaves all as it was but the block
\* under way.
LEMMA EncodeStep ==
  ASSUME PInv, pc \in {"encode", "put_low", "put_high"},
         pc' \in {"encode", "put_low", "put_high"},
         UNCHANGED <<call, unpacking, stream>>,
         TypeOK', BlocksWritten', BlockPlaced'
  PROVE  PInv'
<1>1. /\ width' = width /\ source' = source /\ stream' = stream
      /\ loaded' = loaded /\ result' = result
  BY DEF call, unpacking
<1>2. StreamHolds' /\ DecodesInOrder'
  BY <1>1 DEF PInv, StreamHolds, Filled, DecodesInOrder
<1>3. EncodeInv' /\ Idle' /\ BlocksRead' /\ BlockTaken' /\ DecodeInv'
  BY <1>1 DEF PInv, EncodeInv, Idle, BlocksRead, BlockTaken, DecodeInv
<1>4. width' \in Widths
  BY <1>1 DEF PInv
<1> QED BY <1>2, <1>3, <1>4 DEF PInv

\* The next block begins with nothing in it.
LEMMA StartBlockInv ==
  ASSUME PInv, StartBlock
  PROVE  PInv'
<1> DEFINE first == Len(stream) * Capacity(width)
           c == Capacity(width)
           l == LowCount(width)
<1>1. /\ width \in 1..WordBits /\ first \in Nat
      /\ Len(source) \in Nat /\ c \in 2..(2 * WordBits) /\ l \in 1..WordBits /\ l < c
  BY WidthFacts, CapacityFacts DEF StartBlock
<1>2. taken = first /\ first < Len(source)
  BY <1>1 DEF PInv, BlocksWritten, StartBlock, AtEnd, TypeOK
<1>3. /\ pc' = "put_low" /\ u' = {} /\ v' = {} /\ shift' = 0
      /\ m' = l /\ n' = c - l
      /\ UNCHANGED <<width, source, taken, stream, loaded, result>>
  BY DEF StartBlock, call, unpacking
<1>4. Holds({}, {}, source, first, 0, width)
  BY <1>1, HoldsNothing
<1>5. TypeOK'
  <2> HIDE DEF c, l, first
  <2>1. c - l \in 0..(2 * WordBits) /\ l \in 0..WordBits /\ 0 \in 0..WordBits
    BY <1>1, WordAssumption
  <2> QED BY <1>3, <2>1 DEF PInv, TypeOK
<1>6. BlockPlaced'
  <2>1. Placed' = taken - first
    BY <1>3 DEF Placed
  <2> HIDE DEF c, l, first
  <2>2. Placed' = 0 /\ 0 \in 0..c /\ 0 * width = 0 /\ l - 0 = l
    BY <1>1, <1>2, <2>1
  <2> QED BY <1>2, <1>3, <1>4, <2>2 DEF BlockPlaced, c, l, first
<1>7. BlocksWritten'
  BY <1>3 DEF BlocksWritten
<1> QED BY <1>3, <1>5, <1>6, <1>7, EncodeStep DEF StartBlock, call, unpacking

\* What the invariant says of the place of the next integer.
LEMMA PlacedFacts ==
  ASSUME PInv, pc \in {"put_low", "put_high"}
  PROVE  /\ Placed \in 0..Capacity(width)
         /\ Placed * width \in Nat
         /\ (Placed + 1) * width = Placed * width + width
         /\ taken = Len(stream) * Capacity(width) + Placed
         /\ taken \in 0..Len(source)
         /\ ~AtEnd => /\ taken < Len(source)
                      /\ NextValue = source[Len(stream) * Capacity(width) + Placed + 1]
                      /\ NextValue \in SUBSET Word
         /\ Placed < LowCount(width) => Placed * width + width <= WordBits
         /\ LowCount(width) <= Placed => LowCount(width) * width <= Placed * width
         /\ LowCount(width) < Placed => WordBits < Placed * width
         /\ Placed < Capacity(width) => Placed * width + width <= 2 * WordBits
<1> DEFINE first == Len(stream) * Capacity(width)
           c == Capacity(width)
           l == LowCount(width)
           begin == Placed * width
<1>1. /\ width \in 1..WordBits /\ first \in Nat /\ source \in Seq(SUBSET Word)
      /\ Len(source) \in Nat /\ WordBits \in Nat
      /\ c \in Nat /\ l \in Nat /\ width \in Nat
      /\ l * width <= WordBits /\ WordBits < l * width + width
      /\ c * width <= 2 * WordBits /\ l * width \in Nat /\ c * width \in Nat
  <2>1. /\ width \in 1..WordBits /\ first \in Nat /\ source \in Seq(SUBSET Word)
        /\ Len(source) \in Nat
    BY WidthFacts
  <2>2. /\ c \in Nat /\ l \in Nat
        /\ l * width <= WordBits /\ WordBits < l * width + width
        /\ c * width <= 2 * WordBits /\ l * width \in Nat /\ c * width \in Nat
    <3>1. /\ c \in 2..(2 * WordBits) /\ l \in 1..WordBits
          /\ l * width <= WordBits /\ WordBits < l * width + width
          /\ c * width <= 2 * WordBits /\ l * width \in Nat /\ c * width \in Nat
      BY <2>1, CapacityFacts
    <3>2. c \in Nat /\ l \in Nat
      <4> HIDE DEF c, l
      <4> QED BY <3>1, WordAssumption
    <3> QED BY <3>1, <3>2
  <2> QED BY <2>1, <2>2, WordAssumption
<1>2. Placed \in 0..c /\ Placed = taken - first /\ taken \in 0..Len(source)
  BY DEF PInv, BlockPlaced, TypeOK, Placed
<1>3. Placed \in Nat /\ begin \in Nat /\ (Placed + 1) * width = begin + width
  <2> HIDE DEF c
  <2>1. Placed \in Nat
    BY <1>1, <1>2
  <2> QED BY <1>1, <2>1, ProductType, ProductNext
<1>4. taken = first + Placed
  <2> HIDE DEF first
  <2> QED BY <1>1, <1>2
<1>5. ASSUME ~AtEnd
      PROVE  /\ taken < Len(source)
             /\ NextValue = source[first + Placed + 1]
             /\ NextValue \in SUBSET Word
  <2>1. taken < Len(source)
    BY <1>1, <1>2, <1>5 DEF AtEnd
  <2>2. NextValue = source[taken + 1] /\ taken + 1 \in 1..Len(source)
    BY <1>1, <1>2, <2>1 DEF NextValue
  <2>3. NextValue \in SUBSET Word
    BY <1>1, <2>2
  <2>4. NextValue = source[first + Placed + 1]
    BY <1>4, <2>2
  <2> QED BY <2>1, <2>3, <2>4
<1>6. ASSUME Placed < l PROVE begin + width <= WordBits
  <2>1. begin + width <= l * width
    BY <1>1, <1>3, <1>6, RowsApart
  <2> DEFINE end == l * width
  <2> HIDE DEF begin, l, end
  <2> QED BY <1>1, <1>3, <2>1 DEF end
<1>7. ASSUME l <= Placed PROVE l * width <= begin
  BY <1>1, <1>3, <1>7, ProductOrder
<1>8. ASSUME l < Placed PROVE WordBits < begin
  <2>1. l * width + width <= begin
    BY <1>1, <1>3, <1>8, RowsApart
  <2> DEFINE end == l * width
  <2> HIDE DEF begin, l, end
  <2> QED BY <1>1, <1>3, <2>1 DEF end
<1>9. ASSUME Placed < c PROVE begin + width <= 2 * WordBits
  <2>1. begin + width <= c * width
    BY <1>1, <1>3, <1>9, RowsApart
  <2> DEFINE end == c * width
  <2> HIDE DEF begin, c, end
  <2> QED BY <1>1, <1>3, <2>1 DEF end
<1> QED BY <1>2, <1>3, <1>4, <1>5, <1>6, <1>7, <1>8, <1>9

\* The bits of the next integer are added behind those that are placed.
NextPlaced ==
  /\ UNCHANGED <<call, unpacking, stream>>
  /\ taken' = taken + 1
  /\ u' \in SUBSET Word /\ v' \in SUBSET Word
  /\ \A p \in 0..(2 * WordBits - 1) :
       Bit(u', v', p) <=> \/ Bit(u, v, p)
                          \/ /\ Placed * width <= p
                             /\ p < Placed * width + width
                             /\ p - Placed * width \in NextValue

\* An integer that is placed is in the block.
LEMMA IntegerPlaced ==
  ASSUME PInv, pc \in {"put_low", "put_high"}, ~AtEnd, Placed < Capacity(width),
         NextPlaced, pc' \in {"put_low", "put_high"}, TypeOK',
         pc' = "put_low" => /\ m' = LowCount(width) - (Placed + 1)
                            /\ n' = Capacity(width) - LowCount(width)
                            /\ shift' = Placed * width + width,
         pc' = "put_high" => /\ n' = Capacity(width) - (Placed + 1)
                             /\ shift' = (Placed * width + width) - WordBits
  PROVE  PInv'
<1> DEFINE first == Len(stream) * Capacity(width)
           c == Capacity(width)
<1>1. /\ width \in 1..WordBits /\ first \in Nat /\ c \in Nat
      /\ Placed \in 0..c /\ (Placed + 1) * width = Placed * width + width
      /\ NextValue = source[first + Placed + 1]
      /\ taken = first + Placed
  <2>1. width \in 1..WordBits /\ first \in Nat
    BY WidthFacts
  <2>2. /\ Placed \in 0..c /\ (Placed + 1) * width = Placed * width + width
        /\ NextValue = source[first + Placed + 1]
        /\ taken = first + Placed
    BY PlacedFacts
  <2>3. c \in 2..(2 * WordBits)
    BY <2>1, CapacityFacts
  <2>4. c \in Nat
    <3> HIDE DEF c
    <3> QED BY <2>3, WordAssumption
  <2> QED BY <2>1, <2>2, <2>4
<1>2. /\ width' = width /\ source' = source /\ stream' = stream /\ taken' = taken + 1
      /\ loaded' = loaded /\ result' = result
  BY DEF NextPlaced, call, unpacking
<1>3. Holds(u, v, source, first, Placed, width) /\ first < Len(source)
  BY DEF PInv, BlockPlaced
<1>4. Holds(u', v', source, first, Placed + 1, width)
  <2>1. Placed \in Nat
    <3> HIDE DEF c
    <3> QED BY <1>1
  <2>2. \A p \in 0..(2 * WordBits - 1) :
          Bit(u', v', p) <=> \/ Bit(u, v, p)
                             \/ /\ Placed * width <= p
                                /\ p < Placed * width + width
                                /\ p - Placed * width \in source[first + Placed + 1]
    BY <1>1 DEF NextPlaced
  <2> HIDE DEF first
  <2> QED BY <1>1, <1>3, <2>1, <2>2, HoldsMore
<1>5. Placed' = Placed + 1
  <2>1. Placed' = taken' - Len(stream') * Capacity(width')
    BY DEF Placed
  <2>2. Len(stream') * Capacity(width') = first
    BY <1>2
  <2>3. Placed' = (taken + 1) - first
    BY <1>2, <2>1, <2>2
  <2> HIDE DEF first, c
  <2> QED BY <1>1, <2>3
<1>6. Placed' \in 0..c
  <2> HIDE DEF c
  <2>1. Placed < c
    BY DEF c
  <2> QED BY <1>1, <1>5, <2>1
<1>7. BlockPlaced'
  <2>1. /\ Len(stream') * Capacity(width') < Len(source')
        /\ Placed' \in 0..Capacity(width')
    BY <1>2, <1>3, <1>6
  <2>2. Holds(u', v', source', Len(stream') * Capacity(width'), Placed', width')
    BY <1>2, <1>4, <1>5
  <2>3. Placed' * width' = Placed * width + width
    BY <1>1, <1>2, <1>5
  <2>4. pc' = "put_low" => /\ m' = LowCount(width') - Placed'
                           /\ n' = Capacity(width') - LowCount(width')
                           /\ shift' = Placed' * width'
    BY <1>2, <1>5, <2>3
  <2>5. pc' = "put_high" => /\ n' = Capacity(width') - Placed'
                            /\ shift' = Placed' * width' - WordBits
    BY <1>2, <1>5, <2>3
  <2> QED BY <2>1, <2>2, <2>4, <2>5 DEF BlockPlaced
<1>8. BlocksWritten'
  BY DEF BlocksWritten
<1> QED BY <1>7, <1>8, EncodeStep DEF NextPlaced

\* An integer goes into the lower word.
LEMMA PutLowInv ==
  ASSUME PInv, PutLow
  PROVE  PInv'
<1> DEFINE c == Capacity(width)
           l == LowCount(width)
           begin == Placed * width
<1>1. /\ width \in 1..WordBits /\ WordBits \in Nat \ {0}
      /\ c \in 2..(2 * WordBits) /\ l \in 1..WordBits /\ l < c
  BY WidthFacts, CapacityFacts, WordAssumption DEF PutLow
<1>2. /\ m = l - Placed /\ n = c - l /\ shift = begin /\ m > 0
      /\ u \in SUBSET Word /\ v \in SUBSET Word /\ ~AtEnd
  BY DEF PInv, BlockPlaced, PutLow, TypeOK
<1>3. /\ Placed \in 0..c /\ begin \in Nat /\ taken \in 0..Len(source)
      /\ taken < Len(source) /\ NextValue \in SUBSET Word
  BY <1>2, PlacedFacts DEF PutLow
<1>4. Placed < l /\ Placed < c /\ Placed \in Nat
  <2> HIDE DEF c, l
  <2> QED BY <1>1, <1>2, <1>3
<1>5. begin + width <= WordBits
  BY <1>4, PlacedFacts DEF PutLow
<1>6. /\ u' = u \cup ShiftLeft(NextValue \cap Mask(width), begin) /\ v' = v
      /\ shift' = begin + width /\ m' = m - 1 /\ n' = n /\ taken' = taken + 1
      /\ pc' = "put_low"
      /\ UNCHANGED <<call, unpacking, stream>>
  BY <1>2 DEF PutLow
<1> HIDE DEF c, l, begin
<1>7. u' \in SUBSET Word
  BY <1>2, <1>6 DEF ShiftLeft
<1>8. ASSUME NEW p \in 0..(2 * WordBits - 1)
      PROVE  Bit(u', v', p) <=> \/ Bit(u, v, p)
                                \/ /\ begin <= p /\ p < begin + width
                                   /\ p - begin \in NextValue
  <2>1. p \in ShiftLeft(NextValue \cap Mask(width), begin)
          <=> p \in Word /\ p - begin \in NextValue \cap Mask(width)
    <3>1. NextValue \cap Mask(width) \in SUBSET Int
      BY DEF Mask
    <3> QED BY <1>3, <3>1, ShiftLeftBit
  <2>2. p - begin \in Mask(width) <=> begin <= p /\ p < begin + width
    BY <1>1, <1>3 DEF Mask
  <2>3. CASE p < WordBits
    <3>1. p \in Word
      BY <1>1, <2>3 DEF Word
    <3> QED BY <1>6, <2>1, <2>2, <2>3, <3>1 DEF Bit
  <2>4. CASE ~(p < WordBits)
    <3>1. ~(p < begin + width)
      BY <1>1, <1>3, <1>5, <2>4
    <3> QED BY <1>6, <2>4, <3>1 DEF Bit
  <2> QED BY <2>3, <2>4
<1>9. TypeOK'
  <2>1. shift' \in 0..WordBits /\ m' \in 0..WordBits /\ taken' \in 0..Len(source)
    BY <1>1, <1>2, <1>3, <1>4, <1>5, <1>6
  <2> QED BY <1>6, <1>7, <2>1 DEF PInv, TypeOK, call, unpacking
<1>10. NextPlaced
  BY <1>2, <1>6, <1>7, <1>8 DEF NextPlaced, begin
<1>11. m' = l - (Placed + 1) /\ n' = c - l /\ shift' = begin + width
  BY <1>1, <1>2, <1>4, <1>6
<1>12. m' = LowCount(width) - (Placed + 1) /\ n' = Capacity(width) - LowCount(width)
       /\ shift' = Placed * width + width
  BY <1>11 DEF c, l, begin
<1>13. Placed < Capacity(width) /\ pc' # "put_high"
  BY <1>4, <1>6 DEF c
<1> QED BY <1>2, <1>6, <1>9, <1>10, <1>12, <1>13, IntegerPlaced DEF PutLow

\* The lower word is full to the last bit.
LEMMA SkipMiddleInv ==
  ASSUME PInv, SkipMiddle
  PROVE  PInv'
<1> DEFINE c == Capacity(width)
           l == LowCount(width)
<1>1. /\ m = l - Placed /\ n = c - l /\ shift = Placed * width
      /\ m = 0 /\ shift = WordBits
  BY DEF PInv, BlockPlaced, SkipMiddle
<1>2. Placed \in 0..c /\ width \in 1..WordBits /\ c \in 2..(2 * WordBits) /\ l \in 1..WordBits
  BY WidthFacts, PlacedFacts, CapacityFacts DEF SkipMiddle
<1>3. Placed = l
  <2> HIDE DEF c, l
  <2> QED BY <1>1, <1>2, WordAssumption
<1>4. /\ pc' = "put_high" /\ shift' = 0
      /\ width' = width /\ source' = source
      /\ UNCHANGED <<call, taken, stream, unpacking, u, v, m, n>>
  BY DEF SkipMiddle, call
<1>5. 0 = Placed * width - WordBits /\ 0 \in 0..WordBits
  BY <1>1, WordAssumption
<1>6. Placed' = Placed
  BY <1>4 DEF Placed
<1>7. BlockPlaced'
  BY <1>1, <1>3, <1>4, <1>5, <1>6 DEF PInv, BlockPlaced, SkipMiddle
<1>8. TypeOK'
  BY <1>4, <1>5 DEF PInv, TypeOK, call, unpacking
<1>9. BlocksWritten'
  BY <1>4 DEF BlocksWritten
<1> QED BY <1>4, <1>7, <1>8, <1>9, EncodeStep DEF SkipMiddle

\* An integer begins in the lower word and ends in the upper one.
LEMMA PutMiddleInv ==
  ASSUME PInv, PutMiddle
  PROVE  PInv'
<1> DEFINE c == Capacity(width)
           l == LowCount(width)
           begin == Placed * width
           nbits1 == WordBits - begin
           nbits2 == width - nbits1
<1>1. /\ width \in 1..WordBits /\ WordBits \in Nat \ {0}
      /\ c \in 2..(2 * WordBits) /\ l \in 1..WordBits /\ l < c
      /\ l * width <= WordBits /\ WordBits < l * width + width
  BY WidthFacts, CapacityFacts, WordAssumption DEF PutMiddle
<1>2. /\ m = l - Placed /\ n = c - l /\ shift = begin /\ m = 0 /\ shift # WordBits
      /\ u \in SUBSET Word /\ v \in SUBSET Word /\ ~AtEnd
  BY DEF PInv, BlockPlaced, PutMiddle, TypeOK
<1>3. /\ Placed \in 0..c /\ begin \in Nat /\ taken \in 0..Len(source)
      /\ taken < Len(source) /\ NextValue \in SUBSET Word
  BY <1>2, PlacedFacts DEF PutMiddle
<1>4. Placed = l /\ Placed < c
  <2> HIDE DEF c, l, begin
  <2> QED BY <1>1, <1>2, <1>3
<1>5. begin < WordBits /\ WordBits < begin + width
  <2>1. begin = l * width
    BY <1>4
  <2> HIDE DEF c, l
  <2>2. begin <= WordBits /\ WordBits < begin + width
    BY <1>1, <2>1
  <2> HIDE DEF begin
  <2> QED BY <1>1, <1>2, <1>3, <2>2
<1>6. /\ u' = u \cup ShiftLeft(NextValue \cap Mask(nbits1), begin)
      /\ v' = v \cup (ShiftRight(NextValue, nbits1) \cap Mask(nbits2))
      /\ shift' = nbits2 /\ m' = m /\ n' = n - 1 /\ taken' = taken + 1
      /\ pc' = "put_high"
      /\ UNCHANGED <<call, unpacking, stream>>
  BY <1>2 DEF PutMiddle
<1>7. u' \in SUBSET Word /\ v' \in SUBSET Word
  BY <1>2, <1>6 DEF ShiftLeft, ShiftRight
<1> HIDE DEF c, l, begin, nbits1, nbits2
<1>8. nbits1 = WordBits - begin /\ nbits2 = (begin + width) - WordBits
  BY <1>1, <1>3 DEF nbits1, nbits2
<1>9. ASSUME NEW p \in 0..(2 * WordBits - 1)
      PROVE  Bit(u', v', p) <=> \/ Bit(u, v, p)
                                \/ /\ begin <= p /\ p < begin + width
                                   /\ p - begin \in NextValue
  <2>1. CASE p < WordBits
    <3>1. p \in ShiftLeft(NextValue \cap Mask(nbits1), begin)
            <=> p \in Word /\ p - begin \in NextValue \cap Mask(nbits1)
      <4>1. NextValue \cap Mask(nbits1) \in SUBSET Int
        BY DEF Mask
      <4> QED BY <1>3, <4>1, ShiftLeftBit
    <3>2. p \in Word /\ p < begin + width
      BY <1>1, <1>3, <1>5, <2>1 DEF Word
    <3>3. p - begin \in Mask(nbits1) <=> begin <= p
      BY <1>1, <1>3, <1>8, <2>1 DEF Mask
    <3> QED BY <1>6, <2>1, <3>1, <3>2, <3>3 DEF Bit
  <2>2. CASE ~(p < WordBits)
    <3>1. p - WordBits \in Word /\ begin <= p
          /\ (p - WordBits) + nbits1 = p - begin
      BY <1>1, <1>3, <1>5, <1>8, <2>2 DEF Word
    <3>2. p - WordBits \in Mask(nbits2) <=> p < begin + width
      BY <1>1, <1>3, <1>5, <1>8, <2>2 DEF Mask
    <3>3. p - WordBits \in ShiftRight(NextValue, nbits1) <=> p - begin \in NextValue
      BY <3>1 DEF ShiftRight
    <3> QED BY <1>6, <2>2, <3>1, <3>2, <3>3 DEF Bit
  <2> QED BY <2>1, <2>2
<1>10. TypeOK'
  <2>1. shift' \in 0..WordBits /\ n' \in 0..(2 * WordBits) /\ taken' \in 0..Len(source)
    BY <1>1, <1>2, <1>3, <1>5, <1>6, <1>8
  <2> QED BY <1>6, <1>7, <2>1 DEF PInv, TypeOK, call, unpacking
<1>11. NextPlaced
  BY <1>6, <1>7, <1>9 DEF NextPlaced, begin
<1>12. n' = c - (Placed + 1) /\ shift' = (begin + width) - WordBits
  BY <1>1, <1>2, <1>4, <1>6, <1>8
<1>13. n' = Capacity(width) - (Placed + 1)
       /\ shift' = (Placed * width + width) - WordBits
  BY <1>12 DEF c, begin
<1>14. Placed < Capacity(width) /\ pc' # "put_low"
  BY <1>4, <1>6 DEF c
<1> QED BY <1>2, <1>6, <1>10, <1>11, <1>13, <1>14, IntegerPlaced DEF PutMiddle

\* An integer goes into the upper word.
LEMMA PutHighInv ==
  ASSUME PInv, PutHigh
  PROVE  PInv'
<1> DEFINE c == Capacity(width)
           begin == Placed * width
<1>1. /\ width \in 1..WordBits /\ WordBits \in Nat \ {0} /\ c \in 2..(2 * WordBits)
  BY WidthFacts, CapacityFacts, WordAssumption DEF PutHigh
<1>2. /\ n = c - Placed /\ shift = begin - WordBits /\ n > 0
      /\ u \in SUBSET Word /\ v \in SUBSET Word /\ ~AtEnd
      /\ shift \in 0..WordBits
  BY DEF PInv, BlockPlaced, PutHigh, TypeOK
<1>3. /\ Placed \in 0..c /\ begin \in Nat /\ taken \in 0..Len(source)
      /\ taken < Len(source) /\ NextValue \in SUBSET Word
  BY <1>2, PlacedFacts DEF PutHigh
<1>4. Placed < c
  <2> HIDE DEF c
  <2> QED BY <1>1, <1>2, <1>3
<1>5. begin + width <= 2 * WordBits
  BY <1>4, PlacedFacts DEF PutHigh
<1>6. /\ v' = v \cup ShiftLeft(NextValue \cap Mask(width), shift) /\ u' = u
      /\ shift' = shift + width /\ m' = m /\ n' = n - 1 /\ taken' = taken + 1
      /\ pc' = "put_high"
      /\ UNCHANGED <<call, unpacking, stream>>
  BY DEF PutHigh
<1> HIDE DEF c, begin
<1>7. v' \in SUBSET Word
  BY <1>2, <1>6 DEF ShiftLeft
<1>8. ASSUME NEW p \in 0..(2 * WordBits - 1)
      PROVE  Bit(u', v', p) <=> \/ Bit(u, v, p)
                                \/ /\ begin <= p /\ p < begin + width
                                   /\ p - begin \in NextValue
  <2>1. CASE p < WordBits
    <3>1. ~(begin <= p)
      BY <1>1, <1>2, <1>3, <2>1
    <3> QED BY <1>6, <2>1, <3>1 DEF Bit
  <2>2. CASE ~(p < WordBits)
    <3>1. p - WordBits \in ShiftLeft(NextValue \cap Mask(width), shift)
            <=> /\ p - WordBits \in Word
                /\ (p - WordBits) - shift \in NextValue \cap Mask(width)
      <4>1. NextValue \cap Mask(width) \in SUBSET Int
        BY DEF Mask
      <4>2. PICK q \in Int : q = p - WordBits
        BY <1>1
      <4>3. q \in ShiftLeft(NextValue \cap Mask(width), shift)
              <=> q \in Word /\ q - shift \in NextValue \cap Mask(width)
        BY <1>2, <4>1, ShiftLeftBit
      <4> QED BY <4>2, <4>3
    <3>2. p - WordBits \in Word /\ (p - WordBits) - shift = p - begin
      BY <1>1, <1>2, <1>3, <2>2 DEF Word
    <3>3. p - begin \in Mask(width) <=> begin <= p /\ p < begin + width
      BY <1>1, <1>3 DEF Mask
    <3> QED BY <1>6, <2>2, <3>1, <3>2, <3>3 DEF Bit
  <2> QED BY <2>1, <2>2
<1>9. TypeOK'
  <2>1. shift' \in 0..WordBits /\ n' \in 0..(2 * WordBits) /\ taken' \in 0..Len(source)
    BY <1>1, <1>2, <1>3, <1>4, <1>5, <1>6
  <2> QED BY <1>2, <1>6, <1>7, <2>1 DEF PInv, TypeOK, call, unpacking
<1>10. NextPlaced
  BY <1>2, <1>6, <1>7, <1>8 DEF NextPlaced, begin
<1>11. n' = c - (Placed + 1) /\ shift' = (begin + width) - WordBits
  BY <1>1, <1>2, <1>3, <1>4, <1>6
<1>12. n' = Capacity(width) - (Placed + 1)
       /\ shift' = (Placed * width + width) - WordBits
  BY <1>11 DEF c, begin
<1>13. Placed < Capacity(width) /\ pc' # "put_low"
  BY <1>4, <1>6 DEF c
<1> QED BY <1>2, <1>6, <1>9, <1>10, <1>12, <1>13, IntegerPlaced DEF PutHigh

\* A block that is written holds as many integers as are in it.
LEMMA StoreBlockInv ==
  ASSUME PInv, StoreBlock
  PROVE  PInv'
<1> DEFINE first == Len(stream) * Capacity(width)
           c == Capacity(width)
           l == LowCount(width)
           block == [u |-> u, v |-> v]
<1>1. pc \in {"put_low", "put_high"}
  BY DEF StoreBlock
<1>2. /\ width \in 1..WordBits /\ first \in Nat /\ Len(stream) \in Nat
      /\ Len(source) \in Nat
  BY <1>1, WidthFacts
<1>3. c \in Nat \ {0}
  BY <1>2, CapacityType
<1>4. /\ Placed \in 0..c /\ taken = first + Placed /\ taken \in 0..Len(source)
  BY <1>1, PlacedFacts
<1>5. /\ first < Len(source) /\ Holds(u, v, source, first, Placed, width)
      /\ pc = "put_high" => n = c - Placed
      /\ u \in SUBSET Word /\ v \in SUBSET Word
      /\ stream \in Seq([u : SUBSET Word, v : SUBSET Word])
  BY <1>1 DEF PInv, BlockPlaced, TypeOK
<1>6. (pc = "put_high" /\ n = 0) \/ AtEnd
  BY DEF StoreBlock
<1> HIDE DEF c, first
<1>7. /\ Placed \in 1..c
      /\ Placed = c \/ taken = Len(source)
  BY <1>2, <1>3, <1>4, <1>5, <1>6 DEF AtEnd
<1>8. Filled(first) = Placed
  BY <1>2, <1>3, <1>4, <1>7 DEF Filled, c
<1>9. /\ stream' = Append(stream, block) /\ pc' = "encode"
      /\ UNCHANGED <<call, taken, unpacking, shift, u, v, m, n>>
      /\ width' = width /\ source' = source /\ loaded' = loaded /\ result' = result
  BY DEF StoreBlock, call, unpacking
<1>10. /\ stream' \in Seq([u : SUBSET Word, v : SUBSET Word])
       /\ Len(stream') = Len(stream) + 1
       /\ \A b \in 1..Len(stream) : stream'[b] = stream[b]
       /\ stream'[Len(stream) + 1] = block
  BY <1>5, <1>9
<1>11. StreamHolds'
  <2> SUFFICES ASSUME NEW b \in 1..(Len(stream) + 1)
               PROVE  Holds(stream'[b].u, stream'[b].v, source,
                            (b - 1) * c, Filled((b - 1) * c), width)
    BY <1>9, <1>10 DEF StreamHolds, Filled, c
  <2>1. CASE b \in 1..Len(stream)
    BY <1>10, <2>1, <1>5, SMTT(30) DEF PInv, StreamHolds, c
  <2>2. CASE b = Len(stream) + 1
    <3>1. b - 1 = Len(stream)
      BY <1>2, <2>2
    <3>2. (b - 1) * c = first
      BY <3>1 DEF first, c
    <3> QED BY <1>5, <1>8, <1>10, <2>2, <3>2
  <2> QED BY <1>2, <2>1, <2>2
<1>12. BlocksWritten'
  <2>1. BlockNumber(taken, width) = Len(stream) + 1
    <3>1. Placed \in 1..Capacity(width)
      BY <1>7 DEF c
    <3>2. BlockNumber(Len(stream) * Capacity(width) + Placed, width) = Len(stream) + 1
      BY <1>2, <3>1, BlocksNeeded
    <3> QED BY <1>4, <3>2 DEF first
  <2>2. (Len(stream) + 1) * c = first + c
    BY <1>2, <1>3, ProductNext DEF first, c
  <2>3. taken = (Len(stream) + 1) * c \/ taken = Len(source)
    BY <1>4, <1>7, <2>2
  <2> QED BY <1>9, <1>10, <2>1, <2>3 DEF BlocksWritten, AtEnd, c
<1>13. BlockPlaced' /\ Idle' /\ BlocksRead' /\ BlockTaken' /\ DecodeInv'
  BY <1>9 DEF BlockPlaced, Idle, BlocksRead, BlockTaken, DecodeInv
<1>14. EncodeInv' /\ DecodesInOrder' /\ width' \in Widths
  BY <1>1, <1>9 DEF PInv, EncodeInv, DecodesInOrder
<1>15. TypeOK'
  <2>1. loaded' \in 0..Len(stream')
    BY <1>2, <1>9, <1>10 DEF PInv, TypeOK
  <2> QED BY <1>9, <1>10, <2>1 DEF PInv, TypeOK
<1> QED BY <1>9, <1>11, <1>12, <1>13, <1>14, <1>15 DEF PInv

\* All blocks are written.
LEMMA EncodeReturnsInv ==
  ASSUME PInv, EncodeReturns
  PROVE  PInv'
<1>1. width \in 1..WordBits /\ Len(source) \in Nat
  BY WidthFacts DEF EncodeReturns
<1>2. /\ pc = "encode" /\ pc' = "decode" /\ taken = Len(source)
      /\ UNCHANGED <<width, source, taken, shift, stream, loaded, result, u, v, m, n>>
  BY DEF EncodeReturns, AtEnd, call, packing, unpacking
<1>3. /\ Len(stream) = BlockNumber(taken, width)
      /\ loaded = 0 /\ result = <<>>
  BY <1>2 DEF PInv, BlocksWritten, EncodeInv
<1>4. BlockNumber(Len(result), width) = 0 /\ Len(result) = 0 * Capacity(width)
  <2>1. Capacity(width) \in Nat \ {0}
    BY <1>1, CapacityType
  <2>2. Len(result) = 0
    BY <1>3
  <2> QED BY <1>1, <2>1, <2>2, NoBlocksNeeded
<1>5. BlocksRead' /\ DecodeInv'
  BY <1>2, <1>3, <1>4 DEF BlocksRead, DecodeInv, AtEnd
<1>6. TypeOK' /\ StreamHolds' /\ DecodesInOrder' /\ width' \in Widths
  BY <1>2 DEF PInv, TypeOK, StreamHolds, Filled, DecodesInOrder
<1>7. BlocksWritten' /\ BlockPlaced' /\ EncodeInv' /\ BlockTaken' /\ Idle'
  BY <1>2 DEF BlocksWritten, BlockPlaced, EncodeInv, BlockTaken, Idle
<1> QED BY <1>2, <1>5, <1>6, <1>7 DEF PInv

\* A call begins with nothing of the call before it.
LEMMA BeginInv ==
  ASSUME PInv, NEW w \in Widths, NEW list \in Lists(w), Begin(w, list)
  PROVE  PInv'
<1>1. /\ taken' = 0 /\ shift' = 0 /\ stream' = <<>> /\ loaded' = 0 /\ result' = <<>>
      /\ u' = {} /\ v' = {} /\ m' = 0 /\ n' = 0
      /\ pc' = "encode" /\ width' = w /\ source' = list
  BY DEF PInv, Idle, Init, Begin, packing, unpacking
<1>2. w \in 1..WordBits /\ list \in Seq(SUBSET Word)
  BY WidthsAssumption, ListsAssumption
<1>3. Len(stream') = 0 /\ Len(result') = 0 /\ Len(list) \in Nat
  BY <1>1, <1>2
<1>4. TypeOK'
  BY <1>1, <1>2, <1>3, WordAssumption DEF TypeOK
<1>5. BlocksWritten'
  <2>1. Capacity(w) \in Nat \ {0}
    BY <1>2, CapacityType
  <2>2. 0 = BlockNumber(0, w) /\ 0 = 0 * Capacity(w)
    BY <1>2, <2>1, NoBlocksNeeded
  <2> QED BY <1>1, <1>3, <2>2 DEF BlocksWritten
<1>6. StreamHolds' /\ DecodesInOrder' /\ EncodeInv'
  BY <1>1, <1>3 DEF StreamHolds, DecodesInOrder, EncodeInv
<1>7. BlockPlaced' /\ BlocksRead' /\ BlockTaken' /\ DecodeInv' /\ Idle'
  BY <1>1 DEF BlockPlaced, BlocksRead, BlockTaken, DecodeInv, Idle
<1> QED BY <1>1, <1>4, <1>5, <1>6, <1>7 DEF PInv

-------------------------------------------------------------------------------
(* The steps of decode().                                                   *)

\* A step of decode() leaves all as it was but what it decodes.
LEMMA DecodeStep ==
  ASSUME PInv, pc \in {"decode", "take_low", "take_high"},
         pc' \in {"decode", "take_low", "take_high"},
         UNCHANGED <<call, packing>>,
         TypeOK', BlocksRead', BlockTaken', DecodesInOrder'
  PROVE  PInv'
<1>1. /\ width' = width /\ source' = source /\ stream' = stream /\ taken' = taken
  BY DEF call, packing
<1>2. StreamHolds' /\ DecodeInv' /\ width' \in Widths
  BY <1>1 DEF PInv, StreamHolds, Filled, DecodeInv, AtEnd
<1>3. EncodeInv' /\ Idle' /\ BlocksWritten' /\ BlockPlaced'
  BY <1>1 DEF EncodeInv, Idle, BlocksWritten, BlockPlaced
<1> QED BY <1>2, <1>3 DEF PInv

\* The next block is loaded, with as many integers as are in it.
LEMMA LoadBlockInv ==
  ASSUME PInv, LoadBlock
  PROVE  PInv'
<1> DEFINE c == Capacity(width)
           l == LowCount(width)
           first == loaded * c
           q == Filled(first)
           block == stream[loaded + 1]
<1>1. /\ width \in 1..WordBits /\ Len(source) \in Nat /\ Len(stream) \in Nat
      /\ pc = "decode" /\ Left > 0 /\ loaded \in Nat /\ Len(result) \in Nat
      /\ WordBits \in Nat
  BY WidthFacts, WordAssumption DEF LoadBlock, PInv, TypeOK
<1>2. c \in Nat \ {0} /\ c \in 2..(2 * WordBits) /\ l \in 1..WordBits /\ l < c
  BY <1>1, CapacityFacts, CapacityType
<1>3. first \in Nat /\ Len(result) = first /\ first < Len(source)
      /\ Left = Len(source) - first
  <2>1. first \in Nat
    BY <1>1, <1>2, ProductType
  <2>2. Len(result) = first
    BY <1>1 DEF PInv, BlocksRead
  <2>3. Left = Len(source) - Len(result)
    BY DEF Left
  <2> HIDE DEF first
  <2> QED BY <1>1, <2>1, <2>2, <2>3
<1>4. loaded + 1 \in 1..Len(stream)
  <2>1. loaded < BlockNumber(Len(source), width)
    BY <1>1, <1>3, OneBlockMore
  <2>2. Len(stream) = BlockNumber(Len(source), width)
    BY <1>1 DEF PInv, DecodeInv
  <2> QED BY <1>1, <2>1, <2>2
<1>5. /\ pc' = "take_low" /\ loaded' = loaded + 1 /\ result' = result
      /\ u' = block.u /\ v' = block.v
      /\ m' = TakenLow(Left)
      /\ n' = (IF c > Left THEN Left ELSE c) - m'
      /\ UNCHANGED <<call, packing>> /\ width' = width /\ source' = source
      /\ stream' = stream /\ taken' = taken /\ shift' = shift
  BY DEF LoadBlock, call, packing
<1>6. block \in [u : SUBSET Word, v : SUBSET Word]
  <2>1. stream \in Seq([u : SUBSET Word, v : SUBSET Word])
    BY DEF PInv, TypeOK
  <2> DEFINE Blocks == [u : SUBSET Word, v : SUBSET Word]
  <2> HIDE DEF Blocks
  <2>2. stream \in Seq(Blocks)
    BY <2>1 DEF Blocks
  <2>3. stream[loaded + 1] \in Blocks
    BY <1>4, <2>2
  <2> QED BY <2>3 DEF Blocks
<1> HIDE DEF c, l, first, block
<1>7. q = IF c > Left THEN Left ELSE c
  BY <1>1, <1>2, <1>3 DEF Filled, c
<1>8. TakenLow(Left) = Lesser(l, q) /\ Lesser(l, q) \in 0..q /\ q \in 1..c
      /\ Lesser(l, q) \in 0..l
  <2> HIDE DEF q
  <2> QED BY <1>1, <1>2, <1>3, <1>7 DEF TakenLow, Lesser, l
<1>9. First' = first /\ Done' = 0 /\ Filled(First)' = q /\ FromLow' = Lesser(l, q)
  <2>1. First' = (loaded' - 1) * Capacity(width')
    BY DEF First
  <2>2. loaded' - 1 = loaded
    BY <1>1, <1>5
  <2>3. First' = first
    BY <1>5, <2>1, <2>2 DEF first, c
  <2>4. Done' = Len(result) - first
    BY <1>5, <2>3 DEF Done
  <2>5. Done' = 0
    BY <1>3, <2>4
  <2>6. Filled(First)' = q
    BY <1>5, <2>3 DEF Filled
  <2>7. FromLow' = Lesser(l, q)
    BY <1>5, <2>6 DEF FromLow, l
  <2> QED BY <2>3, <2>5, <2>6, <2>7
<1> HIDE DEF q
<1>10. BlockTaken'
  <2>1. m' = FromLow' - Done' /\ n' = Filled(First)' - FromLow'
    BY <1>1, <1>2, <1>5, <1>7, <1>8, <1>9
  <2>2. Done' * width' = 0
    BY <1>1, <1>5, <1>9
  <2>3. u' = ShiftRight(stream'[loaded'].u, Done' * width')
    BY <1>5, <1>6, <2>2, ShiftRightNone DEF block
  <2>4. v' = stream'[loaded'].v
    BY <1>5 DEF block
  <2>5. Done' \in 0..Filled(First)' /\ First' < Len(source') /\ loaded' # 0
    BY <1>1, <1>3, <1>5, <1>8, <1>9
  <2> QED BY <1>5, <2>1, <2>3, <2>4, <2>5 DEF BlockTaken
<1>11. TypeOK'
  <2>1. m' \in 0..WordBits /\ n' \in 0..(2 * WordBits) /\ loaded' \in 0..Len(stream')
    BY <1>1, <1>2, <1>4, <1>5, <1>7, <1>8
  <2> QED BY <1>5, <1>6, <2>1 DEF PInv, TypeOK, call, packing
<1>12. BlocksRead' /\ DecodesInOrder'
  BY <1>5 DEF BlocksRead, PInv, DecodesInOrder
<1> QED BY <1>1, <1>5, <1>10, <1>11, <1>12, DecodeStep

\* What the invariant says of the loaded block.
LEMMA TakeFacts ==
  ASSUME PInv, pc \in {"take_low", "take_high"}
  PROVE  /\ First \in Nat
         /\ loaded \in 1..Len(stream)
         /\ First + Filled(First) <= Len(source)
         /\ Filled(First) \in 1..Capacity(width)
         /\ Done \in 0..Filled(First)
         /\ Len(result) = First + Done
         /\ Done * width \in Nat
         /\ (Done + 1) * width = Done * width + width
         /\ stream[loaded] \in [u : SUBSET Word, v : SUBSET Word]
         /\ Done < LowCount(width) => Done * width + width <= WordBits
         /\ LowCount(width) < Done => WordBits < Done * width
         /\ Done < Capacity(width) => Done * width + width <= 2 * WordBits
<1> DEFINE c == Capacity(width)
           l == LowCount(width)
           q == Filled(First)
           begin == Done * width
<1>1. /\ width \in 1..WordBits /\ WordBits \in Nat /\ width \in Nat
      /\ Len(source) \in Nat /\ Len(stream) \in Nat /\ Len(result) \in Nat
  BY WidthFacts, WordAssumption DEF PInv, TypeOK
<1>2. /\ c \in 2..(2 * WordBits) /\ l \in 1..WordBits
      /\ l * width <= WordBits /\ WordBits < l * width + width
      /\ c * width <= 2 * WordBits /\ l * width \in Nat /\ c * width \in Nat
  BY <1>1, CapacityFacts
<1>3. c \in Nat \ {0} /\ l \in Nat
  <2> HIDE DEF c, l
  <2> QED BY <1>1, <1>2
<1>4. /\ loaded # 0 /\ First < Len(source) /\ Done \in 0..q
      /\ loaded \in 0..Len(stream) /\ Done = Len(result) - First
  BY DEF PInv, BlockTaken, TypeOK, Done
<1>5. loaded \in 1..Len(stream)
  BY <1>1, <1>4
<1>6. First \in Nat
  <2>1. loaded - 1 \in Nat
    BY <1>1, <1>5
  <2> QED BY <1>3, <2>1, ProductType DEF First
<1>7. q \in 1..c /\ First + q <= Len(source)
  <2>1. q = IF First + c <= Len(source) THEN c ELSE Len(source) - First
    BY DEF Filled
  <2> HIDE DEF q, c
  <2> QED BY <1>1, <1>3, <1>4, <1>6, <2>1
<1>8. Done \in Nat /\ Len(result) = First + Done
  <2> HIDE DEF q, c
  <2> QED BY <1>1, <1>3, <1>4, <1>6, <1>7
<1>9. begin \in Nat /\ (Done + 1) * width = begin + width
  BY <1>1, <1>8, ProductType, ProductNext
<1>10. stream[loaded] \in [u : SUBSET Word, v : SUBSET Word]
  <2>1. stream \in Seq([u : SUBSET Word, v : SUBSET Word])
    BY DEF PInv, TypeOK
  <2> DEFINE Blocks == [u : SUBSET Word, v : SUBSET Word]
  <2> HIDE DEF Blocks
  <2>2. stream \in Seq(Blocks)
    BY <2>1 DEF Blocks
  <2>3. stream[loaded] \in Blocks
    BY <1>5, <2>2
  <2> QED BY <2>3 DEF Blocks
<1>11. ASSUME Done < l PROVE begin + width <= WordBits
  <2>1. begin + width <= l * width
    BY <1>1, <1>3, <1>8, <1>11, RowsApart
  <2> DEFINE end == l * width
  <2> HIDE DEF begin, l, end
  <2> QED BY <1>1, <1>2, <1>9, <2>1 DEF end
<1>12. ASSUME l < Done PROVE WordBits < begin
  <2>1. l * width + width <= begin
    BY <1>1, <1>3, <1>8, <1>12, RowsApart
  <2> DEFINE end == l * width
  <2> HIDE DEF begin, l, end
  <2> QED BY <1>1, <1>2, <1>9, <2>1 DEF end
<1>13. ASSUME Done < c PROVE begin + width <= 2 * WordBits
  <2>1. begin + width <= c * width
    BY <1>1, <1>3, <1>8, <1>13, RowsApart
  <2> DEFINE end == c * width
  <2> HIDE DEF begin, c, end
  <2> QED BY <1>1, <1>2, <1>9, <2>1 DEF end
<1> QED BY <1>4, <1>5, <1>6, <1>7, <1>8, <1>9, <1>10, <1>11, <1>12, <1>13

\* The bits of the next integer of the loaded block.
LEMMA NextHeld ==
  ASSUME PInv, pc \in {"take_low", "take_high"}, Done < Filled(First),
         NEW k \in 0..(width - 1)
  PROVE  Bit(stream[loaded].u, stream[loaded].v, Done * width + k)
           <=> k \in source[First + Done + 1]
<1> DEFINE q == Filled(First)
<1>1. /\ width \in 1..WordBits /\ WordBits \in Nat
      /\ First \in Nat /\ loaded \in 1..Len(stream) /\ q \in 1..Capacity(width)
      /\ Done \in 0..q
  BY WidthFacts, TakeFacts, WordAssumption
<1>2. Holds(stream[loaded].u, stream[loaded].v, source, First, q, width)
  BY <1>1 DEF PInv, StreamHolds, TypeOK, First
<1>3. Capacity(width) \in Nat \ {0} /\ Capacity(width) * width <= 2 * WordBits
      /\ Capacity(width) * width \in Nat
  BY <1>1, CapacityFacts, CapacityType
<1>4. q \in Nat /\ Done \in Nat /\ width \in Nat /\ q <= Capacity(width)
  <2> HIDE DEF q
  <2> QED BY <1>1, <1>3
<1>5. q * width <= Capacity(width) * width /\ q * width \in Nat
  BY <1>3, <1>4, ProductOrder, ProductType
<1>6. q * width <= 2 * WordBits
  <2> DEFINE x == q * width
             y == Capacity(width) * width
  <2>1. x \in Nat /\ y \in Nat /\ x <= y /\ y <= 2 * WordBits
    BY <1>3, <1>5
  <2> HIDE DEF x, y
  <2>2. x <= 2 * WordBits
    BY <1>1, <2>1
  <2> QED BY <2>2 DEF x
<1> HIDE DEF q
<1>7. Done < q
  BY DEF q
<1> QED BY <1>1, <1>2, <1>4, <1>6, <1>7, HeldInteger

\* An integer whose bits are read from their place is the next one to deliver.
LEMMA IntegerTaken ==
  ASSUME PInv, pc \in {"take_low", "take_high"}, Done < Filled(First),
         UNCHANGED <<call, packing, loaded>>,
         NEW word, Store(word),
         \A k \in 0..(width - 1) :
           k \in word <=> Bit(stream[loaded].u, stream[loaded].v, Done * width + k)
  PROVE  /\ DecodesInOrder' /\ result' \in Seq(SUBSET Word)
         /\ First' = First /\ Filled(First)' = Filled(First)
         /\ Done' = Done + 1 /\ FromLow' = FromLow
<1> DEFINE q == Filled(First)
<1>1. /\ width \in 1..WordBits /\ WordBits \in Nat /\ Len(source) \in Nat
      /\ First \in Nat /\ First + q <= Len(source) /\ q \in 1..Capacity(width)
      /\ Done \in 0..q /\ Len(result) = First + Done
      /\ Capacity(width) \in Nat \ {0}
  BY WidthFacts, TakeFacts, WordAssumption, CapacityType
<1>2. /\ width' = width /\ source' = source /\ loaded' = loaded
      /\ result' = Append(result, word \cap Mask(width))
  BY DEF call, Store
<1>3. /\ source \in Seq(SUBSET Word) /\ result \in Seq(SUBSET Word)
      /\ \A i \in 1..Len(result) : result[i] = source[i] \cap Mask(width)
  BY DEF PInv, TypeOK, DecodesInOrder
<1>4. word \cap Mask(width) = source[First + Done + 1] \cap Mask(width)
  BY NextHeld DEF Mask
<1>5. First' = First
  BY <1>2 DEF First
<1>6. Filled(First)' = q
  BY <1>2, <1>5 DEF Filled
<1> HIDE DEF q
<1>7. /\ Len(result) \in Nat /\ Len(result) + 1 \in 1..Len(source)
      /\ First + Done + 1 = Len(result) + 1
  BY <1>1 DEF q
<1>8. source[Len(result) + 1] \in SUBSET Word
  BY <1>3, <1>7
<1>9. word \cap Mask(width) = source[Len(result) + 1] \cap Mask(width)
  BY <1>4, <1>7
<1>10. /\ result' \in Seq(SUBSET Word) /\ Len(result') = Len(result) + 1
       /\ \A i \in 1..Len(result) : result'[i] = result[i]
       /\ result'[Len(result) + 1] = source[Len(result) + 1] \cap Mask(width)
  BY <1>2, <1>3, <1>8, <1>9
<1>11. DecodesInOrder'
  <2>1. ASSUME NEW i \in 1..(Len(result) + 1)
        PROVE  result'[i] = source[i] \cap Mask(width)
    <3>1. CASE i \in 1..Len(result)
      BY <1>3, <1>10, <3>1
    <3>2. CASE i = Len(result) + 1
      BY <1>10, <3>2
    <3> QED BY <1>7, <3>1, <3>2
  <2>2. Len(result) + 1 <= Len(source)
    BY <1>1, <1>7
  <2> QED BY <1>2, <1>10, <2>1, <2>2 DEF DecodesInOrder
<1>12. Done' = Done + 1
  <2>1. Done' = Len(result') - First
    BY <1>5 DEF Done
  <2> QED BY <1>1, <1>7, <1>10, <2>1
<1>13. FromLow' = FromLow
  BY <1>2, <1>6 DEF FromLow, q
<1> QED BY <1>5, <1>6, <1>10, <1>11, <1>12, <1>13 DEF q

\* An integer is taken from the lower word.
LEMMA TakeLowInv ==
  ASSUME PInv, TakeLow
  PROVE  PInv'
<1> DEFINE q == Filled(First)
           l == LowCount(width)
           begin == Done * width
           x == stream[loaded].u
           y == stream[loaded].v
<1>1. /\ width \in 1..WordBits /\ WordBits \in Nat \ {0}
      /\ l \in 1..WordBits /\ q \in 1..Capacity(width) /\ Capacity(width) \in Nat \ {0}
      /\ Done \in 0..q /\ begin \in Nat /\ (Done + 1) * width = begin + width
      /\ Capacity(width) \in 2..(2 * WordBits)
  BY WidthFacts, TakeFacts, WordAssumption, CapacityFacts, CapacityType DEF TakeLow
<1>2. /\ pc = "take_low" /\ pc' = "take_low" /\ m > 0 /\ m' = m - 1 /\ n' = n
      /\ v' = v /\ u' \in Shifted(u, width) /\ Store(u)
      /\ UNCHANGED <<call, packing, loaded>>
      /\ width' = width /\ source' = source /\ loaded' = loaded /\ stream' = stream
  BY DEF TakeLow, call, packing
<1>3. /\ m = FromLow - Done /\ n = q - FromLow /\ v = y
      /\ begin < WordBits => u = ShiftRight(x, begin)
      /\ u \in SUBSET Word /\ First < Len(source) /\ loaded # 0
      /\ m \in 0..WordBits
  BY <1>2 DEF PInv, BlockTaken, TypeOK
<1>4. x \in SUBSET Word /\ y \in SUBSET Word
  <2>1. stream[loaded] \in [u : SUBSET Word, v : SUBSET Word]
    BY <1>2, TakeFacts
  <2> QED BY <2>1
<1> HIDE DEF q, l, begin, x, y
<1>5. Done < FromLow /\ Done < l /\ Done < q /\ FromLow \in 0..q
  <2>1. FromLow = Lesser(l, q)
    BY DEF FromLow, l, q
  <2> QED BY <1>1, <1>2, <1>3, <2>1 DEF Lesser
<1>6. begin + width <= WordBits /\ begin < WordBits /\ width \in Nat
  <2>1. begin + width <= WordBits
    BY <1>2, <1>5, TakeFacts DEF begin, l
  <2> QED BY <1>1, <2>1
<1>7. u = ShiftRight(x, begin)
  BY <1>3, <1>6
<1>8. ASSUME NEW k \in 0..(width - 1)
      PROVE  k \in u <=> Bit(x, y, begin + k)
  <2>1. k \in Word /\ begin + k < WordBits /\ begin + k = k + begin
    BY <1>1, <1>6 DEF Word
  <2> QED BY <1>7, <2>1 DEF Bit, ShiftRight
<1>9. /\ DecodesInOrder' /\ result' \in Seq(SUBSET Word)
      /\ First' = First /\ Filled(First)' = q
      /\ Done' = Done + 1 /\ FromLow' = FromLow
  BY <1>2, <1>5, <1>8, IntegerTaken DEF q, begin, x, y
<1>10. u' \in SUBSET Word
  BY <1>2, <1>3 DEF Shifted, ShiftRight
<1>11. begin + width < WordBits => u' = ShiftRight(x, begin + width)
  <2> SUFFICES ASSUME begin + width < WordBits PROVE u' = ShiftRight(x, begin + width)
    OBVIOUS
  <2>1. width # WordBits
    BY <1>1, <1>6
  <2>2. u' = ShiftRight(u, width)
    BY <1>2, <2>1 DEF Shifted
  <2> QED BY <1>1, <1>4, <1>6, <1>7, <2>2, ShiftRightAgain
<1>12. BlockTaken'
  <2>1. Done' * width' = begin + width
    BY <1>1, <1>2, <1>9
  <2>2. m' = FromLow' - Done' /\ n' = Filled(First)' - FromLow'
    BY <1>1, <1>2, <1>3, <1>5, <1>9
  <2>3. Done' * width' < WordBits => u' = ShiftRight(stream'[loaded'].u, Done' * width')
    BY <1>2, <1>11, <2>1 DEF x
  <2>4. v' = stream'[loaded'].v
    BY <1>2, <1>3 DEF y
  <2>5. Done' \in 0..Filled(First)' /\ First' < Len(source') /\ loaded' # 0
    BY <1>1, <1>2, <1>3, <1>5, <1>9
  <2> QED BY <1>2, <2>2, <2>3, <2>4, <2>5 DEF BlockTaken
<1>13. TypeOK'
  <2>1. m' \in 0..WordBits
    BY <1>1, <1>2, <1>3
  <2> QED BY <1>2, <1>9, <1>10, <2>1 DEF PInv, TypeOK, call, packing
<1>14. BlocksRead'
  BY <1>2 DEF BlocksRead
<1> QED BY <1>2, <1>9, <1>12, <1>13, <1>14, DecodeStep

\* An integer is put together from both words.
LEMMA TakeMiddleInv ==
  ASSUME PInv, TakeMiddle
  PROVE  PInv'
<1> DEFINE q == Filled(First)
           l == LowCount(width)
           begin == Done * width
           x == stream[loaded].u
           y == stream[loaded].v
           r == WordBits - l * width
           word == u \cup ShiftLeft(v, r)
<1>1. /\ width \in 1..WordBits /\ WordBits \in Nat \ {0}
      /\ l \in 1..WordBits /\ q \in 1..Capacity(width) /\ Capacity(width) \in Nat \ {0}
      /\ l * width <= WordBits /\ WordBits < l * width + width
      /\ Done \in 0..q /\ begin \in Nat /\ (Done + 1) * width = begin + width
      /\ Capacity(width) \in 2..(2 * WordBits)
  BY WidthFacts, TakeFacts, WordAssumption, CapacityFacts, CapacityType DEF TakeMiddle
<1>2. /\ pc = "take_low" /\ pc' = "take_high" /\ m = 0 /\ n > 0 /\ n' = n - 1 /\ m' = m
      /\ l * width # WordBits
      /\ u' = u /\ v' \in Shifted(v, width - r) /\ Store(word)
      /\ UNCHANGED <<call, packing, loaded>>
      /\ width' = width /\ source' = source /\ loaded' = loaded /\ stream' = stream
  BY DEF TakeMiddle, MiddleInBoth, call, packing
<1>3. /\ m = FromLow - Done /\ n = q - FromLow /\ v = y
      /\ begin < WordBits => u = ShiftRight(x, begin)
      /\ u \in SUBSET Word /\ v \in SUBSET Word /\ First < Len(source) /\ loaded # 0
      /\ n \in 0..(2 * WordBits)
  BY <1>2 DEF PInv, BlockTaken, TypeOK
<1>4. x \in SUBSET Word /\ y \in SUBSET Word
  <2>1. stream[loaded] \in [u : SUBSET Word, v : SUBSET Word]
    BY <1>2, TakeFacts
  <2> QED BY <2>1
<1> HIDE DEF q, word
<1>5. Done = FromLow /\ Done = l /\ Done < q
  <2> HIDE DEF l, begin, r
  <2>1. FromLow = Lesser(l, q)
    BY DEF FromLow, l, q
  <2> QED BY <1>1, <1>2, <1>3, <2>1 DEF Lesser
<1>6. l * width = begin
  BY <1>5
<1>7. /\ begin < WordBits /\ WordBits < begin + width /\ r = WordBits - begin
      /\ width \in Nat /\ r \in Nat
  <2>1. begin <= WordBits /\ WordBits < begin + width /\ begin # WordBits
    BY <1>1, <1>2, <1>6
  <2>2. r = WordBits - begin
    BY <1>6
  <2> HIDE DEF begin, r, l
  <2> QED BY <1>1, <2>1, <2>2
<1> HIDE DEF l, begin, x, y, r
<1>8. u = ShiftRight(x, begin)
  BY <1>3, <1>7
<1>9. ASSUME NEW k \in 0..(width - 1)
      PROVE  k \in word <=> Bit(x, y, begin + k)
  <2>1. k \in Word /\ k \in Int
    BY <1>1, <1>7 DEF Word
  <2>2. k \in ShiftLeft(v, r) <=> k - r \in y
    <3>1. v \in SUBSET Int
      BY <1>3, WordAssumption DEF Word
    <3>2. k \in ShiftLeft(v, r) <=> k \in Word /\ k - r \in v
      BY <1>7, <2>1, <3>1, ShiftLeftBit
    <3> QED BY <1>3, <2>1, <3>2
  <2>3. k \in u <=> k + begin \in x
    BY <1>8, <2>1 DEF ShiftRight
  <2>4. k + begin = begin + k /\ k - r = (begin + k) - WordBits
    BY <1>1, <1>7
  <2>5. CASE begin + k < WordBits
    <3>1. ~(k - r \in Word)
      BY <1>1, <1>7, <2>4, <2>5 DEF Word
    <3> QED BY <1>4, <2>2, <2>3, <2>4, <2>5, <3>1 DEF Bit, word
  <2>6. CASE ~(begin + k < WordBits)
    <3>1. ~(k + begin \in Word)
      BY <1>1, <2>4, <2>6 DEF Word
    <3> QED BY <1>4, <2>2, <2>3, <2>4, <2>6, <3>1 DEF Bit, word
  <2> QED BY <2>5, <2>6
<1>10. /\ DecodesInOrder' /\ result' \in Seq(SUBSET Word)
       /\ First' = First /\ Filled(First)' = q
       /\ Done' = Done + 1 /\ FromLow' = FromLow
  BY <1>2, <1>5, <1>9, IntegerTaken DEF q, begin, x, y
<1>11. width - r = (begin + width) - WordBits /\ width - r # WordBits
  BY <1>1, <1>7
<1>12. v' = ShiftRight(y, (begin + width) - WordBits) /\ v' \in SUBSET Word
  <2>1. v' = ShiftRight(v, width - r)
    BY <1>2, <1>11 DEF Shifted
  <2> QED BY <1>3, <1>11, <2>1 DEF ShiftRight
<1>13. BlockTaken'
  <2>1. Done' * width' = begin + width
    BY <1>1, <1>2, <1>10
  <2>2. n' = Filled(First)' - Done'
    BY <1>1, <1>2, <1>3, <1>5, <1>10
  <2>3. WordBits <= begin + width
    BY <1>1, <1>7
  <2>4. v' = ShiftRight(stream'[loaded'].v, Done' * width' - WordBits)
    BY <1>2, <1>12, <2>1 DEF y
  <2>5. Done' \in 0..Filled(First)' /\ First' < Len(source') /\ loaded' # 0
    BY <1>1, <1>2, <1>3, <1>5, <1>10
  <2> QED BY <1>2, <2>1, <2>2, <2>3, <2>4, <2>5 DEF BlockTaken
<1>14. TypeOK'
  <2>1. n' \in 0..(2 * WordBits)
    BY <1>1, <1>2, <1>3
  <2> QED BY <1>2, <1>10, <1>12, <2>1 DEF PInv, TypeOK, call, packing
<1>15. BlocksRead'
  BY <1>2 DEF BlocksRead
<1> QED BY <1>2, <1>10, <1>13, <1>14, <1>15, DecodeStep

\* No integer is in both words, or none is left.
LEMMA TakeNoMiddleInv ==
  ASSUME PInv, TakeNoMiddle
  PROVE  PInv'
<1> DEFINE q == Filled(First)
           l == LowCount(width)
           y == stream[loaded].v
<1>1. /\ width \in 1..WordBits /\ WordBits \in Nat \ {0}
      /\ l \in 1..WordBits /\ q \in 1..Capacity(width) /\ Capacity(width) \in Nat \ {0}
      /\ Done \in 0..q
  BY WidthFacts, TakeFacts, WordAssumption, CapacityFacts, CapacityType DEF TakeNoMiddle
<1>2. /\ pc = "take_low" /\ pc' = "take_high" /\ m = 0 /\ (n = 0 \/ l * width = WordBits)
      /\ UNCHANGED <<call, packing, unpacking, u, v, m, n>>
      /\ width' = width /\ source' = source /\ loaded' = loaded /\ stream' = stream
      /\ result' = result
  BY DEF TakeNoMiddle, MiddleInBoth, call, packing, unpacking
<1>3. /\ m = FromLow - Done /\ n = q - FromLow /\ v = y
      /\ First < Len(source) /\ loaded # 0
  BY <1>2 DEF PInv, BlockTaken
<1>4. y \in SUBSET Word
  <2>1. stream[loaded] \in [u : SUBSET Word, v : SUBSET Word]
    BY <1>2, TakeFacts
  <2> QED BY <2>1
<1>5. Done = FromLow /\ (n = 0 \/ Done = l) /\ n = q - Done /\ n \in Nat
  <2> HIDE DEF q, l
  <2>1. FromLow = Lesser(l, q)
    BY DEF FromLow, l, q
  <2> QED BY <1>1, <1>2, <1>3, <2>1 DEF Lesser
<1>6. First' = First /\ Filled(First)' = q /\ Done' = Done
  BY <1>2 DEF First, Filled, Done
<1>7. n > 0 => WordBits <= Done * width /\ v = ShiftRight(y, Done * width - WordBits)
  <2> SUFFICES ASSUME n > 0 PROVE /\ WordBits <= Done * width
                                  /\ v = ShiftRight(y, Done * width - WordBits)
    OBVIOUS
  <2>1. Done * width = WordBits /\ WordBits - WordBits = 0 /\ WordBits <= WordBits
    <3>1. n # 0 /\ Done = l
      BY <1>5
    <3> QED BY <1>1, <1>2, <3>1
  <2> QED BY <1>3, <1>4, <2>1, ShiftRightNone
<1>8. BlockTaken'
  BY <1>1, <1>2, <1>3, <1>5, <1>6, <1>7 DEF BlockTaken
<1>9. TypeOK' /\ DecodesInOrder'
  BY <1>2 DEF PInv, TypeOK, DecodesInOrder, call, packing, unpacking
<1>10. BlocksRead'
  BY <1>2 DEF BlocksRead
<1> QED BY <1>2, <1>8, <1>9, <1>10, DecodeStep

\* An integer is taken from the upper word.
LEMMA TakeHighInv ==
  ASSUME PInv, TakeHigh
  PROVE  PInv'
<1> DEFINE q == Filled(First)
           c == Capacity(width)
           begin == Done * width
           x == stream[loaded].u
           y == stream[loaded].v
<1>1. /\ width \in 1..WordBits /\ WordBits \in Nat \ {0}
      /\ q \in 1..c /\ c \in Nat \ {0} /\ c \in 2..(2 * WordBits)
      /\ c * width <= 2 * WordBits /\ c * width \in Nat
      /\ Done \in 0..q /\ begin \in Nat /\ (Done + 1) * width = begin + width
  BY WidthFacts, TakeFacts, WordAssumption, CapacityFacts, CapacityType DEF TakeHigh
<1>2. /\ pc = "take_high" /\ pc' = "take_high" /\ n > 0 /\ n' = n - 1 /\ m' = m
      /\ u' = u /\ v' \in Shifted(v, width) /\ Store(v)
      /\ UNCHANGED <<call, packing, loaded>>
      /\ width' = width /\ source' = source /\ loaded' = loaded /\ stream' = stream
  BY DEF TakeHigh, call, packing
<1>3. /\ n = q - Done /\ WordBits <= begin /\ v = ShiftRight(y, begin - WordBits)
      /\ v \in SUBSET Word /\ First < Len(source) /\ loaded # 0
      /\ n \in 0..(2 * WordBits)
  BY <1>2 DEF PInv, BlockTaken, TypeOK
<1>4. y \in SUBSET Word
  <2>1. stream[loaded] \in [u : SUBSET Word, v : SUBSET Word]
    BY <1>2, TakeFacts
  <2> QED BY <2>1
<1>5. n' > 0 => (begin + width) + width <= 2 * WordBits
  <2> SUFFICES ASSUME n' > 0 PROVE (begin + width) + width <= 2 * WordBits
    OBVIOUS
  <2>1. Done + 1 \in Nat /\ Done + 1 < c
    <3> HIDE DEF q, c, begin
    <3> QED BY <1>1, <1>2, <1>3
  <2>2. (Done + 1) * width + width <= c * width
    BY <1>1, <2>1, RowsApart
  <2>3. (begin + width) + width <= c * width
    BY <1>1, <2>2
  <2> DEFINE end == c * width
  <2> HIDE DEF q, c, begin, end
  <2> QED BY <1>1, <2>3 DEF end
<1> HIDE DEF q, c, begin, x, y
<1>6. Done < q
  BY <1>1, <1>2, <1>3
<1>7. begin + width <= 2 * WordBits /\ width \in Nat
  <2>1. Done < c
    BY <1>1, <1>6
  <2> QED BY <1>1, <1>2, <2>1, TakeFacts DEF begin, c
<1>8. ASSUME NEW k \in 0..(width - 1)
      PROVE  k \in v <=> Bit(x, y, begin + k)
  <2>1. k \in Word /\ ~(begin + k < WordBits)
        /\ k + (begin - WordBits) = (begin + k) - WordBits
    BY <1>1, <1>3 DEF Word
  <2>2. k \in v <=> k + (begin - WordBits) \in y
    BY <1>3, <2>1 DEF ShiftRight
  <2> QED BY <2>1, <2>2 DEF Bit
<1>9. /\ DecodesInOrder' /\ result' \in Seq(SUBSET Word)
      /\ First' = First /\ Filled(First)' = q
      /\ Done' = Done + 1 /\ FromLow' = FromLow
  BY <1>2, <1>6, <1>8, IntegerTaken DEF q, begin, x, y
<1>10. v' \in SUBSET Word
  BY <1>2, <1>3 DEF Shifted, ShiftRight
<1>11. n' > 0 => v' = ShiftRight(y, (begin + width) - WordBits)
  <2> SUFFICES ASSUME n' > 0 PROVE v' = ShiftRight(y, (begin + width) - WordBits)
    OBVIOUS
  <2>1. width # WordBits
    BY <1>1, <1>3, <1>5
  <2>2. v' = ShiftRight(v, width)
    BY <1>2, <2>1 DEF Shifted
  <2>3. PICK a \in Nat : a = begin - WordBits
    BY <1>1, <1>3
  <2>4. v' = ShiftRight(y, a + width)
    BY <1>3, <1>4, <1>7, <2>2, <2>3, ShiftRightAgain
  <2>5. a + width = (begin + width) - WordBits
    BY <1>1, <2>3
  <2> QED BY <2>4, <2>5
<1>12. BlockTaken'
  <2>1. Done' * width' = begin + width
    BY <1>1, <1>2, <1>9
  <2>2. n' = Filled(First)' - Done'
    BY <1>1, <1>2, <1>3, <1>9
  <2>3. WordBits <= begin + width
    BY <1>1, <1>3
  <2>4. n' > 0 => v' = ShiftRight(stream'[loaded'].v, Done' * width' - WordBits)
    BY <1>2, <1>11, <2>1 DEF y
  <2>5. Done' \in 0..Filled(First)' /\ First' < Len(source') /\ loaded' # 0
    BY <1>1, <1>2, <1>3, <1>6, <1>9
  <2> QED BY <1>2, <2>1, <2>2, <2>3, <2>4, <2>5 DEF BlockTaken
<1>13. TypeOK'
  <2>1. n' \in 0..(2 * WordBits)
    BY <1>1, <1>2, <1>3
  <2> QED BY <1>2, <1>9, <1>10, <2>1 DEF PInv, TypeOK, call, packing
<1>14. BlocksRead'
  BY <1>2 DEF BlocksRead
<1> QED BY <1>2, <1>9, <1>12, <1>13, <1>14, DecodeStep

\* All integers of the block are decoded.
LEMMA EndOfBlockInv ==
  ASSUME PInv, EndOfBlock
  PROVE  PInv'
<1> DEFINE q == Filled(First)
           c == Capacity(width)
           b == loaded - 1
<1>1. /\ width \in 1..WordBits /\ c \in Nat \ {0} /\ Len(source) \in Nat
      /\ Len(stream) \in Nat /\ loaded \in 1..Len(stream)
      /\ First \in Nat /\ q \in 1..c /\ Done \in 0..q /\ Len(result) = First + Done
  BY WidthFacts, TakeFacts, CapacityType DEF EndOfBlock
<1>2. /\ pc = "take_high" /\ pc' = "decode" /\ n = 0
      /\ UNCHANGED <<call, packing, unpacking, u, v, m, n>>
      /\ width' = width /\ source' = source /\ loaded' = loaded /\ stream' = stream
      /\ result' = result
  BY DEF EndOfBlock, call, packing, unpacking
<1>3. n = q - Done
  BY <1>2 DEF PInv, BlockTaken
<1>4. q = IF First + c <= Len(source) THEN c ELSE Len(source) - First
  BY DEF Filled
<1>5. b \in Nat /\ loaded = b + 1 /\ First = b * c /\ loaded * c = b * c + c
  <2>1. b \in Nat /\ loaded = b + 1
    BY <1>1
  <2>2. loaded * c = b * c + c
    <3> HIDE DEF b, c
    <3> QED BY <1>1, <2>1, ProductNext
  <2> QED BY <2>1, <2>2 DEF First
<1> HIDE DEF q, c, b
<1>6. Len(result) = First + q
  BY <1>1, <1>2, <1>3
<1>7. BlockNumber(Len(result), width) = loaded
  <2>1. BlockNumber(b * Capacity(width) + q, width) = b + 1
    BY <1>1, <1>5, BlocksNeeded DEF c
  <2> QED BY <1>5, <1>6, <2>1 DEF c
<1>8. Len(result) = loaded * c \/ Left = 0
  <2>1. CASE q = c
    BY <1>5, <1>6, <2>1
  <2>2. CASE q = Len(source) - First
    BY <1>1, <1>6, <2>2 DEF Left
  <2> QED BY <1>4, <2>1, <2>2
<1>9. BlocksRead'
  BY <1>2, <1>7, <1>8 DEF BlocksRead, Left, c
<1>10. TypeOK' /\ DecodesInOrder'
  BY <1>2 DEF PInv, TypeOK, DecodesInOrder, call, packing, unpacking
<1>11. BlockTaken'
  BY <1>2 DEF BlockTaken
<1> QED BY <1>2, <1>9, <1>10, <1>11, DecodeStep

\* Nothing is left of a call that has returned.
LEMMA InitPInv == Init => PInv
<1> SUFFICES ASSUME Init PROVE PInv
  OBVIOUS
<1>1. TypeOK
  BY WordAssumption DEF Init, TypeOK
<1>2. Idle /\ StreamHolds /\ DecodesInOrder
  BY DEF Init, Idle, StreamHolds, DecodesInOrder
<1>3. BlocksWritten /\ BlockPlaced /\ EncodeInv /\ BlocksRead /\ BlockTaken /\ DecodeInv
  BY DEF Init, BlocksWritten, BlockPlaced, EncodeInv, BlocksRead, BlockTaken, DecodeInv
<1> QED BY <1>1, <1>2, <1>3 DEF PInv, Init

LEMMA DecodeReturnsInv == DecodeReturns => PInv'
<1> SUFFICES ASSUME DecodeReturns PROVE PInv'
  OBVIOUS
<1>1. Init'
  BY DEF DecodeReturns, Init
<1>2. TypeOK'
  BY <1>1, WordAssumption DEF Init, TypeOK
<1>3. Idle' /\ StreamHolds' /\ DecodesInOrder'
  BY <1>1 DEF Init, Idle, StreamHolds, DecodesInOrder
<1>4. BlocksWritten' /\ BlockPlaced' /\ EncodeInv' /\ BlocksRead' /\ BlockTaken' /\ DecodeInv'
  BY <1>1
  DEF Init, BlocksWritten, BlockPlaced, EncodeInv, BlocksRead, BlockTaken, DecodeInv
<1> QED BY <1>1, <1>2, <1>3, <1>4 DEF PInv, Init

\* Every step keeps the invariant.
LEMMA NextPInv == PInv /\ [Next]_vars => PInv'
<1> SUFFICES ASSUME PInv, [Next]_vars PROVE PInv'
  OBVIOUS
<1>1. CASE UNCHANGED vars
  BY <1>1
  DEF vars, call, packing, unpacking, PInv, TypeOK, Idle, Init, StreamHolds, Filled,
      BlocksWritten, AtEnd, BlockPlaced, Placed, EncodeInv, BlocksRead, Left, BlockTaken,
      First, Done, FromLow, DecodeInv, DecodesInOrder
<1>2. CASE Encoding
  BY <1>2, StartBlockInv, PutLowInv, SkipMiddleInv, PutMiddleInv, PutHighInv,
     StoreBlockInv, EncodeReturnsInv
  DEF Encoding
<1>3. CASE Decoding
  BY <1>3, LoadBlockInv, TakeLowInv, TakeMiddleInv, TakeNoMiddleInv, TakeHighInv,
     EndOfBlockInv, DecodeReturnsInv
  DEF Decoding
<1> QED BY <1>1, <1>2, <1>3, BeginInv DEF Next

-------------------------------------------------------------------------------
(* What the loops keep true.                                                *)

\* The invariant holds in every state.
LEMMA SpecPInv == Spec => []PInv
BY InitPInv, NextPInv, PTL DEF Spec

\* The variables of the loops of block_encode and block_decode always have their
\* types: no count goes below zero.
THEOREM LoopsTypeCorrect == Spec => []TypeOK
<1>1. PInv => TypeOK
  BY DEF PInv
<1> QED BY SpecPInv, <1>1, PTL

\* What the invariant says of a shift.
LEMMA FitsFromInv == PInv => FitsInWord
<1> SUFFICES ASSUME PInv PROVE FitsInWord
  OBVIOUS
<1> DEFINE c == Capacity(width)
           l == LowCount(width)
           begin == Placed * width
<1>1. ASSUME pc = "put_low" \/ pc = "put_high"
      PROVE  /\ width \in 1..WordBits /\ WordBits \in Nat
             /\ c \in 2..(2 * WordBits) /\ l \in 1..WordBits
             /\ WordBits < l * width + width
             /\ Placed \in 0..c /\ begin \in Nat
             /\ Placed < l => begin + width <= WordBits
             /\ Placed < c => begin + width <= 2 * WordBits
  BY <1>1, WidthFacts, PlacedFacts, CapacityFacts, WordAssumption
<1>2. ASSUME pc = "put_low"
      PROVE  m = l - Placed /\ shift = begin /\ m \in Nat
  BY <1>2, WordAssumption DEF PInv, BlockPlaced, TypeOK
<1>3. ASSUME pc = "put_high"
      PROVE  n = c - Placed /\ shift = begin - WordBits
  BY <1>3 DEF PInv, BlockPlaced
<1>4. ASSUME pc = "put_low", m > 0 PROVE shift + width <= WordBits
  <2>1. Placed < l
    <3> HIDE DEF c, l, begin
    <3> QED BY <1>1, <1>2, <1>4
  <2> QED BY <1>1, <1>2, <1>4, <2>1
<1>5. ASSUME pc = "put_low", m = 0 PROVE shift + width > WordBits
  <2>1. Placed = l
    <3> HIDE DEF c, l, begin
    <3> QED BY <1>1, <1>2, <1>5
  <2>2. l * width = begin
    BY <2>1
  <2>3. WordBits < begin + width
    BY <1>1, <1>5, <2>2
  <2> HIDE DEF c, l, begin
  <2> QED BY <1>1, <1>2, <1>5, <2>3
<1>6. ASSUME pc = "put_high", n > 0 PROVE shift + width <= WordBits
  <2> HIDE DEF c, l, begin
  <2>1. Placed < c
    BY <1>1, <1>3, <1>6
  <2> QED BY <1>1, <1>3, <1>6, <2>1
<1> QED BY <1>4, <1>5, <1>6 DEF FitsInWord

\* The integer that block_encode places fits above the shift, in whichever word.
THEOREM IntegersFit == Spec => []FitsInWord
BY SpecPInv, FitsFromInv, PTL

\* decode() delivers the integers, cut to the packed bits, in their order.
THEOREM DecodedInOrder == Spec => []DecodesInOrder
<1>1. PInv => DecodesInOrder
  BY DEF PInv
<1> QED BY SpecPInv, <1>1, PTL

\* What it says of the number of blocks.
LEMMA ReadsFromInv == PInv => ReadsWhatWasWritten
<1> SUFFICES ASSUME PInv PROVE ReadsWhatWasWritten
  OBVIOUS
<1>1. loaded <= Len(stream) /\ Len(source) \in Nat /\ Len(result) \in Nat
  BY DEF PInv, TypeOK
<1>2. ASSUME pc = "decode"
      PROVE  /\ Len(stream) = BlockNumber(Len(source), width)
             /\ loaded = BlockNumber(Len(result), width)
  BY <1>2 DEF PInv, DecodeInv, BlocksRead
<1>3. Left = 0 => Len(source) = Len(result)
  BY <1>1 DEF Left
<1> QED BY <1>1, <1>2, <1>3 DEF ReadsWhatWasWritten

\* decode() reads the blocks that encode() has written, and all of them.
THEOREM BlocksReadAsWritten == Spec => []ReadsWhatWasWritten
BY SpecPInv, ReadsFromInv, PTL

-------------------------------------------------------------------------------
(* The loops and module Bitpck.                                             *)

\* The integers of a block that is written.
LEMMA ChunkFacts ==
  ASSUME PInv, pc = "decode", NEW b \in DOMAIN stream
  PROVE  \E first \in Nat, q \in 1..Capacity(width) :
           /\ first = (b - 1) * Capacity(width) /\ q = Filled(first)
           /\ first + q <= Len(source)
           /\ Chunk(b) \in Seq(SUBSET Word) /\ Len(Chunk(b)) = q
           /\ \A i \in 1..q : Chunk(b)[i] = source[first + i]
<1>1. width \in 1..WordBits /\ source \in Seq(SUBSET Word)
  BY WidthFacts
<1>2. PICK c \in Nat \ {0} : c = Capacity(width)
  BY <1>1, CapacityType
<1>3. PICK a \in Nat : a = b - 1 /\ a < Len(stream)
  BY DEF PInv, TypeOK
<1>4. PICK first \in Nat : first = a * c
  BY <1>2
<1>5. first < Len(source)
  BY <1>1, <1>2, <1>3, <1>4, BlockBegins DEF PInv, DecodeInv
<1>6. PICK len \in Nat : len = Len(source)
  BY <1>1
<1>7. PICK last \in Nat : last = IF first + c < len THEN first + c ELSE len
  BY <1>2
<1>8. PICK q \in 1..c : q = last - first
  <2>1. last - first \in 1..c
    BY <1>2, <1>5, <1>6, <1>7
  <2> QED BY <2>1
<1>9. q = Filled(first) /\ first + q <= len
  BY <1>2, <1>5, <1>6, <1>7, <1>8 DEF Filled
<1>10. Chunk(b) = SubSeq(source, first + 1, last)
  BY <1>2, <1>3, <1>4, <1>6, <1>7 DEF Chunk
<1>11. /\ SubSeq(source, first + 1, last) \in Seq(SUBSET Word)
       /\ Len(SubSeq(source, first + 1, last)) = q
       /\ \A i \in 1..q : SubSeq(source, first + 1, last)[i] = source[first + i]
  BY <1>1, <1>2, <1>5, <1>6, <1>7, <1>8
<1>12. first = (b - 1) * Capacity(width) /\ q \in 1..Capacity(width)
  BY <1>2, <1>3, <1>4
<1>13. /\ Chunk(b) \in Seq(SUBSET Word) /\ Len(Chunk(b)) = q
       /\ \A i \in 1..q : Chunk(b)[i] = source[first + i]
  BY <1>10, <1>11
<1> QED BY <1>6, <1>9, <1>12, <1>13

\* The block that encode() has written is that of module Bitpck.
LEMMA WrittenBlock ==
  ASSUME PInv, pc = "decode", NEW b \in DOMAIN stream
  PROVE  stream[b] = BlockEncode(Chunk(b), width)
<1>1. PICK first \in Nat, q \in 1..Capacity(width) :
        /\ first = (b - 1) * Capacity(width) /\ q = Filled(first)
        /\ first + q <= Len(source)
        /\ Chunk(b) \in Seq(SUBSET Word) /\ Len(Chunk(b)) = q
        /\ \A i \in 1..q : Chunk(b)[i] = source[first + i]
  BY ChunkFacts
<1>2. width \in 1..WordBits /\ q \in Nat /\ q <= Capacity(width)
  BY WidthFacts, CapacityType
<1>3. PICK block \in [u : SUBSET Word, v : SUBSET Word] : block = stream[b]
  <2>1. stream \in Seq([u : SUBSET Word, v : SUBSET Word])
    BY DEF PInv, TypeOK
  <2>2. PICK S : S = [u : SUBSET Word, v : SUBSET Word]
    OBVIOUS
  <2>3. stream \in Seq(S)
    BY <2>1, <2>2
  <2>4. stream[b] \in S
    BY <2>3
  <2> QED BY <2>2, <2>4
<1>4. PICK other \in [u : SUBSET Word, v : SUBSET Word] : other = BlockEncode(Chunk(b), width)
  BY <1>1, <1>2, EncodedType
<1>5. ASSUME NEW p \in 0..(2 * WordBits - 1)
      PROVE  Bit(block.u, block.v, p) <=> Bit(other.u, other.v, p)
  <2>1. Bit(other.u, other.v, p)
          <=> p < q * width /\ (p % width) \in Chunk(b)[(p \div width) + 1]
    BY <1>1, <1>2, <1>4, EncodedBits
  <2>2. Bit(block.u, block.v, p)
          <=> p < q * width /\ (p % width) \in source[first + (p \div width) + 1]
    BY <1>1, <1>3 DEF PInv, StreamHolds, Holds
  <2>3. p \in Nat
    BY WordAssumption
  <2>4. PICK i \in Nat : i = p \div width /\ (p < q * width <=> i < q)
    BY <1>2, <2>3, RowOfBit
  <2>5. i < q => Chunk(b)[i + 1] = source[first + i + 1]
    <3>1. first + (i + 1) = first + i + 1
      OBVIOUS
    <3>2. i < q => i + 1 \in 1..q
      BY <1>2
    <3> QED BY <1>1, <3>1, <3>2
  <2> QED BY <2>1, <2>2, <2>4, <2>5
<1>6. block.u = other.u /\ block.v = other.v
  <2>1. /\ block.u \in SUBSET Word /\ block.v \in SUBSET Word
        /\ other.u \in SUBSET Word /\ other.v \in SUBSET Word
    OBVIOUS
  <2>2. PICK x \in SUBSET Word, y \in SUBSET Word, x2 \in SUBSET Word, y2 \in SUBSET Word :
          x = block.u /\ y = block.v /\ x2 = other.u /\ y2 = other.v
    BY <2>1
  <2>3. SameBits(x, y, x2, y2)
    BY <1>5, <2>2 DEF SameBits
  <2>4. x = x2 /\ y = y2
    BY <2>3, BlockOfBits
  <2> QED BY <2>2, <2>4
<1> QED BY <1>3, <1>4, <1>6

\* fetch finds an integer of a block that is written.
LEMMA FetchedFromStream ==
  ASSUME PInv, pc = "decode", NEW b \in DOMAIN stream,
         NEW i \in Nat, i < Filled((b - 1) * Capacity(width))
  PROVE  BlockFetch(stream[b], i, width) =
           source[(b - 1) * Capacity(width) + i + 1] \cap Mask(width)
<1>1. PICK first \in Nat, q \in 1..Capacity(width) :
        first = (b - 1) * Capacity(width) /\ q = Filled(first)
  BY ChunkFacts
<1>2. width \in 1..WordBits /\ q \in Nat /\ q <= Capacity(width)
  BY WidthFacts, CapacityType
<1>3. stream[b] \in [u : SUBSET Word, v : SUBSET Word]
  <2>1. stream \in Seq([u : SUBSET Word, v : SUBSET Word])
    BY DEF PInv, TypeOK
  <2>2. PICK S : S = [u : SUBSET Word, v : SUBSET Word]
    OBVIOUS
  <2>3. stream \in Seq(S)
    BY <2>1, <2>2
  <2>4. stream[b] \in S
    BY <2>3
  <2> QED BY <2>2, <2>4
<1>4. Holds(stream[b].u, stream[b].v, source, first, q, width)
  BY <1>1 DEF PInv, StreamHolds
<1> QED BY <1>1, <1>2, <1>3, <1>4, FetchedInteger

\* What the invariant says of blocks in the terms of module Bitpck.
LEMMA DescribedFromInv == PInv => BlocksAreAsDescribed
<1> SUFFICES ASSUME PInv, pc = "decode" PROVE BlocksAreAsDescribed
  BY DEF BlocksAreAsDescribed
<1>1. /\ width \in 1..WordBits /\ source \in Seq(SUBSET Word) /\ Len(source) \in Nat
      /\ Len(stream) = BlockNumber(Len(source), width)
      /\ DOMAIN stream = 1..Len(stream) /\ Len(stream) \in Nat
  BY WidthFacts DEF PInv, TypeOK, DecodeInv
<1>2. ASSUME NEW b \in DOMAIN stream
      PROVE  BlockDecode(stream[b], Len(Chunk(b)), width) =
               [i \in DOMAIN Chunk(b) |-> Chunk(b)[i] \cap Mask(width)]
  <2>1. PICK first \in Nat, q \in 1..Capacity(width) :
          /\ first = (b - 1) * Capacity(width) /\ q = Filled(first)
          /\ Chunk(b) \in Seq(SUBSET Word) /\ Len(Chunk(b)) = q
          /\ \A i \in 1..q : Chunk(b)[i] = source[first + i]
    BY ChunkFacts
  <2>2. q \in Nat /\ DOMAIN Chunk(b) = 1..q
    BY <1>1, <2>1, CapacityType
  <2>3. ASSUME NEW i \in 1..q
        PROVE  BlockDecode(stream[b], q, width)[i] = Chunk(b)[i] \cap Mask(width)
    <3>1. PICK j \in Nat : j = i - 1 /\ j < q
      BY <2>2
    <3>2. first + j + 1 = first + i
      BY <3>1
    <3>3. BlockFetch(stream[b], j, width) = source[first + j + 1] \cap Mask(width)
      BY <2>1, <3>1, FetchedFromStream
    <3>4. BlockDecode(stream[b], q, width)[i] = BlockFetch(stream[b], j, width)
      BY <1>1, <2>2, <3>1, DecodedInteger
    <3> QED BY <2>1, <3>2, <3>3, <3>4
  <2>4. BlockDecode(stream[b], q, width) =
          [i \in 1..q |-> BlockDecode(stream[b], q, width)[i]]
    BY DEF BlockDecode
  <2> QED BY <2>1, <2>2, <2>3, <2>4
<1>3. ASSUME NEW i \in DOMAIN source
      PROVE  Fetch(stream, i - 1, width) = source[i] \cap Mask(width)
  <2>1. PICK j \in Nat : j = i - 1 /\ j < Len(source)
    BY <1>1
  <2>2. PICK c \in Nat \ {0} : c = Capacity(width)
    BY <1>1, CapacityType
  <2>3. PICK a \in Nat, k \in 0..(c - 1) :
          a = j \div c /\ k = j % c /\ j = a * c + k
    BY <2>2, Division, ZenonT(30)
  <2>4. PICK first \in Nat : first = a * c /\ first + k = j
    BY <2>2, <2>3
  <2>5. first < Len(source)
    BY <1>1, <2>1, <2>2, <2>3, <2>4
  <2>6. a < Len(stream)
    BY <1>1, <2>2, <2>4, <2>5, OneBlockMore
  <2>7. a + 1 \in DOMAIN stream /\ (a + 1) - 1 = a /\ k \in Nat
    BY <1>1, <2>2, <2>6
  <2>8. k < Filled(first)
    <3>1. Filled(first) = IF first + c <= Len(source) THEN c ELSE Len(source) - first
      BY <2>2 DEF Filled
    <3>2. k < Len(source) - first /\ k < c
      BY <1>1, <2>1, <2>2, <2>4, SMTT(30)
    <3> QED BY <3>1, <3>2
  <2>9. BlockFetch(stream[a + 1], k, width) = source[first + k + 1] \cap Mask(width)
    BY <2>2, <2>4, <2>7, <2>8, FetchedFromStream
  <2>10. first + k + 1 = i
    <3>1. i \in Nat /\ k \in Nat
      BY <1>1, <2>2
    <3>2. first \in Nat /\ first + k = i - 1
      BY <2>1, <2>4
    <3> QED BY ONLY <3>1, <3>2
  <2> QED BY <2>1, <2>2, <2>3, <2>9, <2>10 DEF Fetch
<1> QED BY <1>2, <1>3, WrittenBlock DEF BlocksAreAsDescribed

\* The loops of encode() write the blocks of module Bitpck, and its block_decode and
\* fetch read them like the loops of decode() do: what the rest of the model takes
\* for the codec is the codec.
THEOREM BlocksDescribed == Spec => []BlocksAreAsDescribed
BY SpecPInv, DescribedFromInv, PTL

-------------------------------------------------------------------------------
(***************************************************************************)
(* Patched bit-packing restores what it was given, for every width of a    *)
(* word, every number of bits that are packed and all lists, in one call   *)
(* of encode() or in as many as MayContinue allows: decode_patch() finds   *)
(* each outlier by its distance from the one before, and puts its high     *)
(* bits back.                                                              *)
(***************************************************************************)

\* The integer of the 1-based index i has more bits than are packed.
Outlier(i) == sent[i] \ Mask(nbits) # {}

\* The position behind the first k of the outliers that are at the 0-based
\* positions pos.
Behind(pos, k) == IF k = 0 THEN 0 ELSE pos[k] + 1

\* The exceptions are the outliers at the positions pos: between them there is none,
\* nor behind them up to the integer that has been passed last.
Collected(pos) ==
  /\ Len(excpts.indices) = Len(pos) /\ Len(excpts.values) = Len(pos)
  /\ \A k \in DOMAIN pos :
       /\ pos[k] \in Behind(pos, k - 1)..(excpts.index - 1)
       /\ \A i \in (Behind(pos, k - 1) + 1)..pos[k] : ~Outlier(i)
       /\ excpts.indices[k] = pos[k] - Behind(pos, k - 1)
       /\ excpts.values[k] = High(sent[pos[k] + 1])
       /\ Outlier(pos[k] + 1)
  /\ Behind(pos, Len(pos)) <= excpts.index
  /\ \A i \in (Behind(pos, Len(pos)) + 1)..excpts.index : ~Outlier(i)

\* The lists of the calls of encode() that have returned are decoded, that of the
\* running call is the rest of what was sent.
ListsInOrder ==
  kind = "patched" =>
    /\ Len(sent) = Len(decoded) + Len(source)
    /\ excpts.index = Len(decoded) + taken
    /\ \A i \in 1..Len(source) : source[i] = sent[Len(decoded) + i]
    /\ \A i \in 1..Len(decoded) : decoded[i] = sent[i] \cap Mask(nbits)
    /\ pc # "idle" => width = nbits
    /\ patched = 0
    /\ \E pos \in Seq(Nat) : Collected(pos) /\ origin = Behind(pos, Len(pos))

\* decode_patch() has restored the outliers in front of the origin.
OutliersInOrder ==
  kind = "patching" =>
    /\ Len(decoded) = Len(sent) /\ excpts.index = Len(sent)
    /\ \A i \in 1..Len(sent) :
         /\ (i <= origin => decoded[i] = sent[i])
         /\ (i > origin => decoded[i] = sent[i] \cap Mask(nbits))
    /\ \E pos \in Seq(Nat) : Collected(pos) /\ origin = Behind(pos, patched)

QInv ==
  /\ PInv /\ PatchedTypeOK
  /\ kind \in {"patched", "patching", "used"} => nbits \in Widths
  /\ kind \in {"none", "plain"} =>
       excpts = NoExceptions /\ origin = 0 /\ patched = 0 /\ sent = <<>> /\ decoded = <<>>
  /\ kind \in {"none", "patching", "used"} => pc = "idle"
  /\ ListsInOrder /\ OutliersInOrder
  /\ kind = "used" =>
       /\ decoded = sent /\ excpts.index = Len(sent)
       /\ \E pos \in Seq(Nat) : Collected(pos)

-------------------------------------------------------------------------------
(* Lemmas.                                                                  *)

\* The high bits of a word, put back beside the low ones.
LEMMA Restored ==
  ASSUME NEW x \in SUBSET Word, NEW k \in Nat
  PROVE  (x \cap Mask(k)) \cup ShiftLeft(ShiftRight(x, k), k) = x
<1>1. ASSUME NEW p \in Word
      PROVE  p \in (x \cap Mask(k)) \cup ShiftLeft(ShiftRight(x, k), k) <=> p \in x
  <2>1. p \in Int /\ p >= 0 /\ (p - k) + k = p
    BY WordAssumption DEF Word
  <2>2. p \in ShiftLeft(ShiftRight(x, k), k) <=> p - k \in ShiftRight(x, k)
    <3>1. ShiftRight(x, k) \in SUBSET Int
      BY WordAssumption DEF ShiftRight, Word
    <3>2. p \in ShiftLeft(ShiftRight(x, k), k)
            <=> p \in Word /\ p - k \in ShiftRight(x, k)
      BY <2>1, <3>1, ShiftLeftBit
    <3> QED BY <3>2
  <2>3. p - k \in ShiftRight(x, k) <=> p - k \in Word /\ p \in x
    BY <2>1 DEF ShiftRight
  <2>4. p - k \in Word \/ p \in Mask(k)
    BY <2>1, WordAssumption DEF Word, Mask
  <2> QED BY <2>2, <2>3, <2>4
<1>2. ShiftLeft(ShiftRight(x, k), k) \subseteq Word
  BY DEF ShiftLeft
<1> QED BY <1>1, <1>2

\* A position is a natural number.
LEMMA BehindType ==
  ASSUME NEW pos \in Seq(Nat), NEW k \in 0..Len(pos)
  PROVE  Behind(pos, k) \in Nat
BY DEF Behind

\* A step of the client is one of the loops, or leaves them alone.
LEMMA LoopsStep == QInv /\ PatchedNext => [Next]_vars
<1> SUFFICES ASSUME QInv, PatchedNext PROVE [Next]_vars
  OBVIOUS
<1>1. ASSUME NEW w \in Widths, NEW list \in Lists(w),
             BeginPlain(w, list) \/ BeginPatched(w, list)
      PROVE  Next
  BY <1>1 DEF BeginPlain, BeginPatched, Next
<1>2. ASSUME MayContinue, NEW list \in Lists(nbits), Continue(list) PROVE Next
  BY <1>2 DEF MayContinue, Continue, Next, QInv
<1>3. CASE PutPlain \/ PutPatched
  BY <1>3 DEF PutPlain, PutPatched, Put, Next, Encoding
<1>4. CASE Loop
  BY <1>4 DEF Loop, Next, Encoding, Decoding
<1>5. CASE PlainDecoded \/ BasicDecoded
  BY <1>5 DEF PlainDecoded, BasicDecoded, Next, Decoding
<1>6. CASE BeginPatch \/ PatchNext \/ PatchReturns \/ Reset
  BY <1>6 DEF BeginPatch, PatchNext, PatchReturns, Reset
<1> QED BY <1>1, <1>2, <1>3, <1>4, <1>5, <1>6 DEF PatchedNext

\* Between two calls nothing is left in the variables of the loops.
LEMMA IdleFacts ==
  ASSUME QInv, pc = "idle"
  PROVE  source = <<>> /\ taken = 0
BY DEF QInv, PInv, Idle, Init

-------------------------------------------------------------------------------
(* The steps of encode().                                                   *)

\* A list for the other codecs has no exceptions.
LEMMA BeginPlainInv ==
  ASSUME QInv, NEW w \in Widths, NEW list \in Lists(w), BeginPlain(w, list), PInv'
  PROVE  QInv'
<1>1. kind = "none" /\ kind' = "plain" /\ UNCHANGED <<nbits, sent, outliers, patched, decoded>>
  BY DEF BeginPlain
<1>2. PatchedTypeOK' /\ ListsInOrder' /\ OutliersInOrder'
  BY <1>1 DEF QInv, PatchedTypeOK, ListsInOrder, OutliersInOrder, outliers
<1> QED BY <1>1, <1>2 DEF QInv, outliers

\* encode() begins with parameters of its own.
LEMMA BeginPatchedInv ==
  ASSUME QInv, NEW w \in Widths, NEW list \in Lists(w), BeginPatched(w, list), PInv'
  PROVE  QInv'
<1>1. /\ kind = "none" /\ kind' = "patched" /\ nbits' = w /\ origin' = 0 /\ sent' = list
      /\ excpts' = NoExceptions /\ patched' = 0 /\ decoded' = <<>>
      /\ taken' = taken /\ pc = "idle" /\ pc' = "encode" /\ width' = w /\ source' = list
  BY DEF BeginPatched, Begin, QInv, packing
<1>2. taken' = 0
  BY <1>1, IdleFacts
<1>3. list \in Seq(SUBSET Word) /\ w \in 1..WordBits
  BY ListsAssumption, WidthsAssumption
<1>4. PatchedTypeOK'
  BY <1>1, <1>3, WordAssumption DEF PatchedTypeOK, NoExceptions
<1>5. PICK pos \in Seq(Nat) : Len(pos) = 0
  BY Len(<<>>) = 0 /\ <<>> \in Seq(Nat)
<1>6. ListsInOrder'
  <2>1. Collected(pos)'
    BY <1>1, <1>5 DEF Collected, Behind, NoExceptions
  <2>2. \E p \in Seq(Nat) : Collected(p)' /\ origin' = Behind(p, Len(p))
    <3>1. origin' = Behind(pos, Len(pos))
      BY <1>1, <1>5 DEF Behind
    <3> WITNESS pos \in Seq(Nat)
    <3> QED BY <2>1, <3>1
  <2>3. Len(list) \in Nat /\ Len(decoded') = 0
    BY <1>1, <1>3
  <2>4. /\ Len(sent') = Len(decoded') + Len(source')
        /\ excpts'.index = Len(decoded') + taken'
        /\ \A i \in 1..Len(source') : source'[i] = sent'[Len(decoded') + i]
        /\ \A i \in 1..Len(decoded') : decoded'[i] = sent'[i] \cap Mask(nbits')
    BY <1>1, <1>2, <2>3 DEF NoExceptions
  <2> QED BY <1>1, <2>2, <2>4 DEF ListsInOrder
<1> QED BY <1>1, <1>4, <1>6 DEF QInv, OutliersInOrder

\* encode() is called again, before any outlier.
LEMMA ContinueInv ==
  ASSUME QInv, MayContinue, NEW list \in Lists(nbits), Continue(list), PInv'
  PROVE  QInv'
<1>1. /\ kind = "patched" /\ kind' = "patched" /\ nbits' = nbits /\ origin' = 0
      /\ sent' = sent \o list /\ excpts' = excpts /\ patched' = patched
      /\ decoded' = decoded /\ excpts.indices = <<>>
      /\ taken' = taken /\ pc = "idle" /\ pc' = "encode" /\ width' = nbits
      /\ source' = list
  BY DEF MayContinue, Continue, Begin, QInv, packing
<1>2. taken = 0 /\ source = <<>>
  BY <1>1, IdleFacts
<1>3. /\ nbits \in Widths /\ list \in Seq(SUBSET Word)
      /\ sent \in Seq(SUBSET Word) /\ decoded \in Seq(SUBSET Word)
      /\ excpts \in [index : Nat, indices : Seq(Nat), values : Seq(SUBSET Word)]
      /\ Len(excpts.values) = 0
  BY <1>1, ListsAssumption DEF QInv, PatchedTypeOK
<1>4. /\ Len(sent) = Len(decoded) /\ excpts.index = Len(decoded) /\ patched = 0
      /\ \A i \in 1..Len(decoded) : decoded[i] = sent[i] \cap Mask(nbits)
  BY <1>1, <1>2, <1>3 DEF QInv, ListsInOrder
<1>5. PICK pos \in Seq(Nat) : Collected(pos)
  BY <1>1 DEF QInv, ListsInOrder
<1>6. \A i \in 1..Len(sent) : ~Outlier(i)
  <2>1. Len(pos) = 0 /\ Behind(pos, Len(pos)) = 0
    BY <1>1, <1>5 DEF Collected, Behind
  <2> QED BY <1>4, <1>5, <2>1 DEF Collected
<1>7. /\ sent' \in Seq(SUBSET Word) /\ Len(sent') = Len(sent) + Len(list)
      /\ \A i \in 1..Len(sent) : sent'[i] = sent[i]
      /\ \A i \in 1..Len(list) : sent'[Len(sent) + i] = list[i]
  BY <1>1, <1>3
<1>8. PatchedTypeOK'
  BY <1>1, <1>3, <1>7 DEF QInv, PatchedTypeOK
<1>9. ListsInOrder'
  <2>1. \A i \in 1..Len(sent) : ~Outlier(i)'
    BY <1>1, <1>6, <1>7 DEF Outlier
  <2>2. Collected(pos)'
    BY <1>1, <1>3, <1>4, <1>5, <2>1 DEF Collected, Behind
  <2>3. \E p \in Seq(Nat) : Collected(p)' /\ origin' = Behind(p, Len(p))
    <3>1. origin' = Behind(pos, Len(pos))
      BY <1>1, <1>5 DEF Behind, Collected
    <3> WITNESS pos \in Seq(Nat)
    <3> QED BY <2>2, <3>1
  <2>4. Len(decoded) \in Nat /\ Len(list) \in Nat
    BY <1>3
  <2>5. /\ Len(sent') = Len(decoded') + Len(source')
        /\ excpts'.index = Len(decoded') + taken'
        /\ \A i \in 1..Len(source') : source'[i] = sent'[Len(decoded') + i]
        /\ \A i \in 1..Len(decoded') : decoded'[i] = sent'[i] \cap Mask(nbits')
    BY <1>1, <1>2, <1>4, <1>7, <2>4
  <2> QED BY <1>1, <1>4, <2>3, <2>5 DEF ListsInOrder
<1> QED BY <1>1, <1>3, <1>8, <1>9 DEF QInv, OutliersInOrder

\* A step of the loops that passes no integer.
LEMMA LoopInv ==
  ASSUME QInv, Loop, PInv'
  PROVE  QInv'
<1>1. /\ pc # "idle" /\ UNCHANGED patchVars
      /\ UNCHANGED <<call, taken>>
  BY DEF Loop, StartBlock, SkipMiddle, StoreBlock, EncodeReturns, LoadBlock, TakeLow,
         TakeMiddle, TakeNoMiddle, TakeHigh, EndOfBlock, packing
<1>2. /\ kind' = kind /\ nbits' = nbits /\ sent' = sent /\ excpts' = excpts
      /\ origin' = origin /\ patched' = patched /\ decoded' = decoded
      /\ width' = width /\ source' = source /\ taken' = taken
  BY <1>1 DEF patchVars, client, outliers, call
<1>3. PatchedTypeOK'
  BY <1>2 DEF QInv, PatchedTypeOK
<1>4. ListsInOrder'
  BY <1>1, <1>2 DEF QInv, ListsInOrder, Collected, Outlier, High
<1>5. OutliersInOrder'
  BY <1>2 DEF QInv, OutliersInOrder, Collected, Outlier, High
<1>6. kind \in {"plain", "patched"}
  BY <1>1 DEF QInv, PatchedTypeOK
<1> QED BY <1>2, <1>3, <1>4, <1>5, <1>6 DEF QInv

\* An integer of a list that has no exceptions is packed.
LEMMA PutPlainInv ==
  ASSUME QInv, PutPlain, PInv'
  PROVE  QInv'
<1>1. /\ kind = "plain" /\ kind' = kind /\ nbits' = nbits /\ sent' = sent
      /\ excpts' = excpts /\ origin' = origin /\ patched' = patched
      /\ decoded' = decoded
  BY DEF PutPlain, patchVars, client, outliers
<1>2. PatchedTypeOK' /\ ListsInOrder' /\ OutliersInOrder'
  BY <1>1 DEF QInv, PatchedTypeOK, ListsInOrder, OutliersInOrder
<1> QED BY <1>1, <1>2 DEF QInv

\* An integer is packed, after value_encode() has set aside its high bits.
LEMMA PutPatchedInv ==
  ASSUME QInv, PutPatched, PInv'
  PROVE  QInv'
<1> DEFINE index == excpts.index
<1>1. /\ kind = "patched" /\ kind' = kind /\ nbits' = nbits /\ sent' = sent
      /\ patched' = patched /\ decoded' = decoded
      /\ pc # "idle" /\ ~AtEnd /\ taken' = taken + 1
      /\ width' = width /\ source' = source
  BY DEF PutPatched, Put, PutLow, PutMiddle, PutHigh, client, call
<1>2. /\ excpts \in [index : Nat, indices : Seq(Nat), values : Seq(SUBSET Word)]
      /\ index \in Nat /\ excpts.indices \in Seq(Nat)
      /\ excpts.values \in Seq(SUBSET Word) /\ origin \in Nat
      /\ sent \in Seq(SUBSET Word) /\ decoded \in Seq(SUBSET Word)
      /\ nbits \in Widths
  BY <1>1 DEF QInv, PatchedTypeOK
<1>3. /\ source \in Seq(SUBSET Word) /\ taken \in 0..(Len(source) - 1)
  BY <1>1 DEF QInv, PInv, TypeOK, AtEnd
<1>4. /\ Len(sent) = Len(decoded) + Len(source)
      /\ index = Len(decoded) + taken
      /\ \A i \in 1..Len(source) : source[i] = sent[Len(decoded) + i]
      /\ \A i \in 1..Len(decoded) : decoded[i] = sent[i] \cap Mask(nbits)
      /\ width = nbits /\ patched = 0
  BY <1>1 DEF QInv, ListsInOrder
<1>5. PICK pos \in Seq(Nat) : Collected(pos) /\ origin = Behind(pos, Len(pos))
  BY <1>1 DEF QInv, ListsInOrder
<1>6. NextValue = sent[index + 1] /\ NextValue \in SUBSET Word
  <2>1. /\ taken + 1 \in 1..Len(source)
        /\ Len(decoded) + (taken + 1) = (Len(decoded) + taken) + 1
    BY <1>2, <1>3
  <2> QED BY <1>3, <1>4, <2>1 DEF NextValue
<1>7. Collect(NextValue)
  BY DEF PutPatched
<1>8. \E p \in Seq(Nat) : Collected(p)' /\ origin' = Behind(p, Len(p))
  <2>1. CASE Outlier(index + 1)
    <3> DEFINE l == Len(pos)
    <3>1. PICK last \in Seq(Nat) : last = Append(pos, index)
      <4>1. Append(pos, index) \in Seq(Nat)
        BY <1>2
      <4> QED BY <4>1
    <3>2. /\ excpts' = [index   |-> index + 1,
                        indices |-> Append(excpts.indices, index - origin),
                        values  |-> Append(excpts.values, High(NextValue))]
          /\ origin' = index + 1
      BY <1>6, <1>7, <2>1 DEF Collect, Outlier
    <3>3. /\ l \in Nat /\ Len(last) = l + 1 /\ last[l + 1] = index
          /\ \A k \in 1..l : last[k] = pos[k]
      BY <1>2, <3>1
    <3>4. /\ Behind(last, l + 1) = index + 1
          /\ \A k \in 0..l : Behind(last, k) = Behind(pos, k)
      BY <3>3 DEF Behind
    <3>5. /\ Len(excpts.indices) = l /\ Len(excpts.values) = l
          /\ \A k \in 1..l :
               /\ pos[k] \in Behind(pos, k - 1)..(index - 1)
               /\ \A i \in (Behind(pos, k - 1) + 1)..pos[k] : ~Outlier(i)
               /\ excpts.indices[k] = pos[k] - Behind(pos, k - 1)
               /\ excpts.values[k] = High(sent[pos[k] + 1])
               /\ Outlier(pos[k] + 1)
          /\ origin <= index
          /\ \A i \in (origin + 1)..index : ~Outlier(i)
      BY <1>5 DEF Collected
    <3>6. /\ excpts'.index = index + 1
          /\ Len(excpts'.indices) = l + 1 /\ Len(excpts'.values) = l + 1
          /\ \A k \in 1..l : /\ excpts'.indices[k] = excpts.indices[k]
                             /\ excpts'.values[k] = excpts.values[k]
          /\ excpts'.indices[l + 1] = index - origin
          /\ excpts'.values[l + 1] = High(NextValue)
      <4>1. /\ excpts.indices \in Seq(Nat) /\ Len(excpts.indices) = l /\ l \in Nat
            /\ excpts.values \in Seq(SUBSET Word) /\ Len(excpts.values) = l
        BY <1>2, <3>3, <3>5
      <4>2. /\ excpts'.index = index + 1
            /\ excpts'.indices = Append(excpts.indices, index - origin)
            /\ excpts'.values = Append(excpts.values, High(NextValue))
        BY <3>2
      <4> HIDE DEF l, index
      <4> QED BY <4>1, <4>2
    <3>7. \A i : Outlier(i)' <=> Outlier(i)
      BY <1>1 DEF Outlier
    <3>8. \A w : High(w)' = High(w)
      BY <1>1 DEF High
    <3> HIDE DEF l, index
    <3>9. ASSUME NEW k \in 1..(l + 1)
          PROVE  /\ last[k] \in Behind(last, k - 1)..(excpts'.index - 1)
                 /\ \A i \in (Behind(last, k - 1) + 1)..last[k] : ~Outlier(i)
                 /\ excpts'.indices[k] = last[k] - Behind(last, k - 1)
                 /\ excpts'.values[k] = High(sent[last[k] + 1])
                 /\ Outlier(last[k] + 1)
      <4>1. CASE k = l + 1
        <5>1. Behind(last, k - 1) = origin
          BY <1>5, <3>3, <3>4, <4>1 DEF l
        <5>2. last[k] = index /\ origin \in Nat /\ index \in Nat /\ origin <= index
              /\ excpts'.index = index + 1
              /\ excpts'.indices[k] = index - origin
              /\ excpts'.values[k] = High(NextValue)
          BY <1>2, <3>3, <3>5, <3>6, <4>1 DEF index
        <5>3. \A i \in (origin + 1)..index : ~Outlier(i)
          BY <3>5
        <5>4. NextValue = sent[index + 1] /\ Outlier(last[k] + 1)
          BY <1>6, <2>1, <5>2 DEF index
        <5> QED BY <5>1, <5>2, <5>3, <5>4
      <4>2. CASE k \in 1..l
        <5>1. Behind(last, k - 1) = Behind(pos, k - 1) /\ last[k] = pos[k]
          BY <3>3, <3>4, <4>2
        <5>2. Behind(pos, k - 1) \in Nat /\ pos[k] \in Nat
          <6>1. k - 1 \in 0..Len(pos) /\ k \in 1..Len(pos)
            BY <4>2, <3>3 DEF l
          <6> QED BY <6>1, BehindType
        <5>3. /\ pos[k] \in Behind(pos, k - 1)..(index - 1)
              /\ \A i \in (Behind(pos, k - 1) + 1)..pos[k] : ~Outlier(i)
              /\ excpts.indices[k] = pos[k] - Behind(pos, k - 1)
              /\ excpts.values[k] = High(sent[pos[k] + 1])
              /\ Outlier(pos[k] + 1)
              /\ excpts'.indices[k] = excpts.indices[k]
              /\ excpts'.values[k] = excpts.values[k]
          BY <3>5, <3>6, <4>2
        <5>4. pos[k] \in Behind(pos, k - 1)..(excpts'.index - 1)
          <6>1. PICK limit \in Nat, b \in Nat, c \in Nat :
                  limit = index /\ b = Behind(pos, k - 1) /\ c = pos[k]
            BY <1>2, <5>2 DEF index
          <6>2. excpts'.index = limit + 1 /\ c \in b..(limit - 1)
            BY <3>6, <5>3, <6>1
          <6> QED BY <6>1, <6>2
        <5> QED BY <5>1, <5>3, <5>4
      <4> QED BY <3>3, <4>1, <4>2
    <3>10. DOMAIN last = 1..(l + 1)
      BY <3>3
    <3>11. Collected(last)'
      <4>1. Behind(last, Len(last)) = index + 1 /\ index + 1 \in Nat
        BY <1>2, <3>3, <3>4 DEF index
      <4>2. \A i \in (Behind(last, Len(last)) + 1)..excpts'.index : ~Outlier(i)'
        BY <3>6, <4>1
      <4>3. Behind(last, Len(last)) <= excpts'.index
        BY <3>6, <4>1
      <4>4. ASSUME NEW k \in DOMAIN last
            PROVE  /\ last[k] \in Behind(last, k - 1)..(excpts'.index - 1)
                   /\ \A i \in (Behind(last, k - 1) + 1)..last[k] : ~Outlier(i)'
                   /\ excpts'.indices[k] = last[k] - Behind(last, k - 1)
                   /\ excpts'.values[k] = High(sent[last[k] + 1])'
                   /\ Outlier(last[k] + 1)'
        BY <1>1, <3>7, <3>8, <3>9, <3>10
      <4> QED BY <3>3, <3>6, <4>2, <4>3, <4>4 DEF Collected
    <3>12. origin' = Behind(last, Len(last))
      BY <3>2, <3>3, <3>4
    <3> WITNESS last \in Seq(Nat)
    <3> QED BY <3>11, <3>12
  <2>2. CASE ~Outlier(index + 1)
    <3>1. excpts' = [excpts EXCEPT !.index = @ + 1] /\ origin' = origin
      BY <1>6, <1>7, <2>2 DEF Collect, Outlier
    <3>2. /\ excpts'.index = index + 1 /\ excpts'.indices = excpts.indices
          /\ excpts'.values = excpts.values
      BY <1>2, <3>1
    <3>3. Collected(pos)'
      <4>1. \A i : Outlier(i)' <=> Outlier(i)
        BY <1>1 DEF Outlier
      <4>2. \A w : High(w)' = High(w)
        BY <1>1 DEF High
      <4>3. Behind(pos, Len(pos)) \in Nat /\ Behind(pos, Len(pos)) <= index
        BY <1>5, BehindType DEF Collected
      <4>4. \A i \in (Behind(pos, Len(pos)) + 1)..excpts'.index : ~Outlier(i)'
        <5>1. \A i \in (Behind(pos, Len(pos)) + 1)..index : ~Outlier(i)
          BY <1>5 DEF Collected
        <5> HIDE DEF index
        <5> QED BY <1>2, <2>2, <3>2, <4>1, <4>3, <5>1
      <4>5. ASSUME NEW k \in DOMAIN pos
            PROVE  /\ pos[k] \in Behind(pos, k - 1)..(excpts'.index - 1)
                   /\ \A i \in (Behind(pos, k - 1) + 1)..pos[k] : ~Outlier(i)'
                   /\ excpts'.indices[k] = pos[k] - Behind(pos, k - 1)
                   /\ excpts'.values[k] = High(sent[pos[k] + 1])'
                   /\ Outlier(pos[k] + 1)'
        <5>1. Behind(pos, k - 1) \in Nat /\ pos[k] \in Nat
          <6>1. k - 1 \in 0..Len(pos)
            OBVIOUS
          <6> QED BY <6>1, BehindType
        <5>2. /\ pos[k] \in Behind(pos, k - 1)..(index - 1)
              /\ \A i \in (Behind(pos, k - 1) + 1)..pos[k] : ~Outlier(i)
              /\ excpts.indices[k] = pos[k] - Behind(pos, k - 1)
              /\ excpts.values[k] = High(sent[pos[k] + 1])
              /\ Outlier(pos[k] + 1)
          BY <1>5 DEF Collected
        <5>3. pos[k] \in Behind(pos, k - 1)..(excpts'.index - 1)
          <6> HIDE DEF index
          <6> QED BY <1>2, <3>2, <5>1, <5>2
        <5> QED BY <1>1, <3>2, <4>1, <4>2, <5>2, <5>3
      <4> QED BY <1>2, <1>5, <3>2, <4>3, <4>4, <4>5 DEF Collected
    <3>4. origin' = Behind(pos, Len(pos))
      BY <1>5, <3>1
    <3> WITNESS pos \in Seq(Nat)
    <3> QED BY <3>3, <3>4
  <2> QED BY <2>1, <2>2
<1>9. excpts'.index = index + 1
  BY <1>2, <1>7 DEF Collect
<1>10. ListsInOrder'
  <2>1. index + 1 = Len(decoded) + (taken + 1)
    BY <1>2, <1>3, <1>4
  <2> QED BY <1>1, <1>4, <1>8, <1>9, <2>1 DEF ListsInOrder
<1>11. PatchedTypeOK'
  <2>1. index - origin \in Nat
    BY <1>2, <1>5 DEF Collected
  <2>2. High(NextValue) \in SUBSET Word
    BY DEF High, ShiftRight
  <2>3. Len(excpts.indices) = Len(excpts.values)
    BY DEF QInv, PatchedTypeOK
  <2>4. /\ excpts' \in [index : Nat, indices : Seq(Nat), values : Seq(SUBSET Word)]
        /\ Len(excpts'.indices) = Len(excpts'.values)
        /\ origin' \in Nat
        /\ patched' \in 0..Len(excpts'.indices)
    <3>1. patched' = 0 /\ index + 1 \in Nat
      BY <1>1, <1>2, <1>4
    <3>2. CASE NextValue \ Mask(nbits) # {}
      <4>1. /\ excpts' = [index   |-> index + 1,
                          indices |-> Append(excpts.indices, index - origin),
                          values  |-> Append(excpts.values, High(NextValue))]
            /\ origin' = index + 1
        BY <1>7, <3>2 DEF Collect
      <4>2. /\ Append(excpts.indices, index - origin) \in Seq(Nat)
            /\ Append(excpts.values, High(NextValue)) \in Seq(SUBSET Word)
            /\ Len(Append(excpts.indices, index - origin))
                 = Len(Append(excpts.values, High(NextValue)))
            /\ Len(Append(excpts.indices, index - origin)) \in Nat
        BY <1>2, <2>1, <2>2, <2>3
      <4> QED BY <3>1, <4>1, <4>2
    <3>3. CASE ~(NextValue \ Mask(nbits) # {})
      <4>1. excpts' = [excpts EXCEPT !.index = @ + 1] /\ origin' = origin
        BY <1>7, <3>3 DEF Collect
      <4> QED BY <1>2, <2>3, <3>1, <4>1, SMTT(30)
    <3> QED BY <3>2, <3>3
  <2> QED BY <1>1, <2>4 DEF QInv, PatchedTypeOK
<1> QED BY <1>1, <1>2, <1>10, <1>11 DEF QInv, OutliersInOrder

-------------------------------------------------------------------------------
(* The steps of decode().                                                   *)

\* A list that has no exceptions is decoded.
LEMMA PlainDecodedInv ==
  ASSUME QInv, PlainDecoded, PInv'
  PROVE  QInv'
<1>1. /\ kind = "plain" /\ kind' = "none" /\ nbits' = nbits /\ sent' = sent
      /\ excpts' = excpts /\ origin' = origin /\ patched' = patched
      /\ decoded' = decoded /\ pc' = "idle"
  BY DEF PlainDecoded, DecodeReturns, outliers
<1>2. PatchedTypeOK' /\ ListsInOrder' /\ OutliersInOrder'
  BY <1>1 DEF QInv, PatchedTypeOK, ListsInOrder, OutliersInOrder
<1> QED BY <1>1, <1>2 DEF QInv

\* decode_basic() appends the integers of a call, without their high bits.
LEMMA BasicDecodedInv ==
  ASSUME QInv, BasicDecoded, PInv'
  PROVE  QInv'
<1>1. /\ kind = "patched" /\ kind' = kind /\ nbits' = nbits /\ sent' = sent
      /\ excpts' = excpts /\ origin' = origin /\ patched' = patched
      /\ decoded' = decoded \o result
      /\ pc = "decode" /\ Left = 0 /\ pc' = "idle" /\ source' = <<>> /\ taken' = 0
  BY DEF BasicDecoded, DecodeReturns, client, outliers
<1>2. /\ sent \in Seq(SUBSET Word) /\ decoded \in Seq(SUBSET Word)
      /\ result \in Seq(SUBSET Word) /\ source \in Seq(SUBSET Word)
  BY DEF QInv, PatchedTypeOK, PInv, TypeOK
<1>3. Len(result) = Len(source) /\ taken = Len(source)
  BY <1>1, <1>2 DEF Left, QInv, PInv, DecodeInv, AtEnd
<1>4. /\ Len(sent) = Len(decoded) + Len(source)
      /\ excpts.index = Len(decoded) + taken
      /\ \A i \in 1..Len(source) : source[i] = sent[Len(decoded) + i]
      /\ \A i \in 1..Len(decoded) : decoded[i] = sent[i] \cap Mask(nbits)
      /\ width = nbits /\ patched = 0
      /\ \E pos \in Seq(Nat) : Collected(pos) /\ origin = Behind(pos, Len(pos))
  BY <1>1 DEF QInv, ListsInOrder
<1>5. \A i \in 1..Len(source) : result[i] = sent[Len(decoded) + i] \cap Mask(nbits)
  <2>1. \A i \in DOMAIN result : result[i] = source[i] \cap Mask(width)
    BY DEF QInv, PInv, DecodesInOrder
  <2> QED BY <1>2, <1>3, <1>4, <2>1
<1>6. decoded' \in Seq(SUBSET Word) /\ Len(decoded') = Len(decoded) + Len(result)
  BY <1>1, <1>2
<1>7. ASSUME NEW i \in 1..Len(decoded') PROVE decoded'[i] = sent[i] \cap Mask(nbits)
  <2>1. CASE i <= Len(decoded)
    BY <1>1, <1>2, <1>4, <1>7, <2>1
  <2>2. CASE ~(i <= Len(decoded))
    <3>1. PICK j \in 1..Len(source) : i = Len(decoded) + j
      <4>1. i - Len(decoded) \in 1..Len(source) /\ i = Len(decoded) + (i - Len(decoded))
        BY <1>2, <1>3, <1>6, <1>7, <2>2
      <4> QED BY <4>1
    <3>2. decoded'[i] = result[j]
      BY <1>1, <1>2, <1>3, <3>1
    <3> QED BY <1>5, <3>1, <3>2
  <2> QED BY <2>1, <2>2
<1>8. \E pos \in Seq(Nat) : Collected(pos)' /\ origin' = Behind(pos, Len(pos))
  BY <1>1, <1>4 DEF Collected, Outlier, High
<1>9. ListsInOrder'
  <2>1. Len(sent') = Len(decoded') + Len(source') /\ excpts'.index = Len(decoded') + taken'
    BY <1>1, <1>2, <1>3, <1>4, <1>6
  <2>2. \A i \in 1..Len(source') : source'[i] = sent'[Len(decoded') + i]
    BY <1>1
  <2>3. \A i \in 1..Len(decoded') : decoded'[i] = sent'[i] \cap Mask(nbits')
    BY <1>1, <1>7
  <2> QED BY <1>1, <1>4, <1>8, <2>1, <2>2, <2>3 DEF ListsInOrder
<1>10. PatchedTypeOK'
  BY <1>1, <1>6 DEF QInv, PatchedTypeOK
<1> QED BY <1>1, <1>9, <1>10 DEF QInv, OutliersInOrder

\* decode_patch() begins.
LEMMA BeginPatchInv ==
  ASSUME QInv, BeginPatch, PInv'
  PROVE  QInv'
<1>1. /\ kind = "patched" /\ kind' = "patching" /\ nbits' = nbits /\ sent' = sent
      /\ excpts' = excpts /\ origin' = 0 /\ patched' = patched /\ decoded' = decoded
      /\ pc = "idle" /\ pc' = pc
  BY DEF BeginPatch, vars
<1>2. source = <<>> /\ taken = 0
  BY <1>1, IdleFacts
<1>3. sent \in Seq(SUBSET Word) /\ decoded \in Seq(SUBSET Word)
  BY DEF QInv, PatchedTypeOK
<1>4. /\ Len(decoded) = Len(sent) /\ excpts.index = Len(sent) /\ patched = 0
      /\ \A i \in 1..Len(sent) : decoded[i] = sent[i] \cap Mask(nbits)
  BY <1>1, <1>2, <1>3 DEF QInv, ListsInOrder
<1>5. PICK pos \in Seq(Nat) : Collected(pos)
  BY <1>1 DEF QInv, ListsInOrder
<1>6. Collected(pos)' /\ origin' = Behind(pos, patched')
  BY <1>1, <1>4, <1>5 DEF Collected, Outlier, High, Behind
<1>7. \A i \in 1..Len(sent) :
        /\ (i <= origin' => decoded'[i] = sent[i])
        /\ (i > origin' => decoded'[i] = sent[i] \cap Mask(nbits))
  BY <1>1, <1>4
<1>8. \E p \in Seq(Nat) : Collected(p)' /\ origin' = Behind(p, patched')
  <2> WITNESS pos \in Seq(Nat)
  <2> QED BY <1>6
<1>9. OutliersInOrder'
  BY <1>1, <1>4, <1>7, <1>8 DEF OutliersInOrder
<1>10. PatchedTypeOK'
  BY <1>1 DEF QInv, PatchedTypeOK
<1> QED BY <1>1, <1>9, <1>10 DEF QInv, ListsInOrder

\* What is known of the outlier that decode_patch() restores next: it is behind the
\* origin, no other lies between, and its index leads there.
LEMMA NextOutlier ==
  ASSUME QInv, kind = "patching", NEW pos \in Seq(Nat), Collected(pos),
         origin = Behind(pos, patched), patched < Len(excpts.indices)
  PROVE  /\ patched + 1 \in 1..Len(pos)
         /\ PatchIndex = pos[patched + 1]
         /\ PatchIndex \in origin..(Len(sent) - 1)
         /\ \A i \in (origin + 1)..PatchIndex : ~Outlier(i)
         /\ excpts.values[patched + 1] = High(sent[PatchIndex + 1])
<1>1. patched \in Nat /\ Len(excpts.indices) = Len(pos) /\ Len(pos) \in Nat
  BY DEF QInv, PatchedTypeOK, Collected
<1>2. patched + 1 \in DOMAIN pos /\ (patched + 1) - 1 = patched
  BY <1>1
<1>3. /\ pos[patched + 1] \in origin..(excpts.index - 1)
      /\ \A i \in (origin + 1)..pos[patched + 1] : ~Outlier(i)
      /\ excpts.indices[patched + 1] = pos[patched + 1] - origin
      /\ excpts.values[patched + 1] = High(sent[pos[patched + 1] + 1])
  BY <1>2 DEF Collected
<1>4. origin \in Nat /\ pos[patched + 1] \in Nat /\ excpts.index = Len(sent)
  BY <1>2 DEF QInv, PatchedTypeOK, OutliersInOrder
<1>5. PatchIndex = pos[patched + 1]
  BY <1>3, <1>4 DEF PatchIndex
<1> QED BY <1>1, <1>2, <1>3, <1>4, <1>5

\* One outlier is restored.
LEMMA PatchNextInv ==
  ASSUME QInv, PatchNext, PInv'
  PROVE  QInv'
<1>1. /\ kind = "patching" /\ kind' = kind /\ nbits' = nbits /\ sent' = sent
      /\ excpts' = excpts /\ origin' = PatchIndex + 1 /\ patched' = patched + 1
      /\ decoded' = [decoded EXCEPT ![PatchIndex + 1] =
                       @ \cup ShiftLeft(excpts.values[patched + 1], nbits)]
      /\ pc' = pc /\ patched < Len(excpts.indices)
  BY DEF PatchNext, client, vars
<1>2. /\ Len(decoded) = Len(sent) /\ excpts.index = Len(sent)
      /\ \A i \in 1..Len(sent) :
           /\ (i <= origin => decoded[i] = sent[i])
           /\ (i > origin => decoded[i] = sent[i] \cap Mask(nbits))
  BY <1>1 DEF QInv, OutliersInOrder
<1>3. PICK pos \in Seq(Nat) : Collected(pos) /\ origin = Behind(pos, patched)
  BY <1>1 DEF QInv, OutliersInOrder
<1>4. /\ patched + 1 \in 1..Len(pos) /\ PatchIndex = pos[patched + 1]
      /\ PatchIndex \in origin..(Len(sent) - 1)
      /\ \A i \in (origin + 1)..PatchIndex : ~Outlier(i)
      /\ excpts.values[patched + 1] = High(sent[PatchIndex + 1])
  BY <1>1, <1>3, NextOutlier
<1>5. /\ sent \in Seq(SUBSET Word) /\ decoded \in Seq(SUBSET Word)
      /\ origin \in Nat /\ patched \in Nat /\ PatchIndex \in Nat
      /\ nbits \in Nat /\ Len(excpts.indices) \in Nat
  BY <1>1, <1>4, WidthsAssumption, SMTT(30) DEF QInv, PatchedTypeOK
<1>6. PatchIndex + 1 \in 1..Len(sent) /\ sent[PatchIndex + 1] \in SUBSET Word
  BY <1>4, <1>5
<1>7. decoded'[PatchIndex + 1] = sent[PatchIndex + 1]
  <2>1. decoded[PatchIndex + 1] = sent[PatchIndex + 1] \cap Mask(nbits)
    BY <1>2, <1>4, <1>5, <1>6
  <2>2. decoded'[PatchIndex + 1] =
          decoded[PatchIndex + 1] \cup ShiftLeft(excpts.values[patched + 1], nbits)
    BY <1>1, <1>2, <1>5, <1>6
  <2>3. (sent[PatchIndex + 1] \cap Mask(nbits))
          \cup ShiftLeft(ShiftRight(sent[PatchIndex + 1], nbits), nbits)
            = sent[PatchIndex + 1]
    BY <1>5, <1>6, Restored
  <2> QED BY <1>4, <2>1, <2>2, <2>3 DEF High
<1>8. decoded' \in Seq(SUBSET Word) /\ Len(decoded') = Len(sent)
  BY <1>1, <1>2, <1>5, <1>6, <1>7
<1>9. ASSUME NEW i \in 1..Len(sent)
      PROVE  /\ (i <= origin' => decoded'[i] = sent[i])
             /\ (i > origin' => decoded'[i] = sent[i] \cap Mask(nbits))
  <2>1. CASE i = PatchIndex + 1
    BY <1>1, <1>5, <1>7, <2>1
  <2>2. CASE i # PatchIndex + 1
    <3>1. decoded'[i] = decoded[i]
      BY <1>1, <1>2, <1>5, <2>2
    <3>2. CASE i \in (origin + 1)..PatchIndex
      <4>1. sent[i] \cap Mask(nbits) = sent[i]
        BY <1>4, <3>2 DEF Outlier
      <4>2. i > origin /\ ~(i > origin')
        BY <1>1, <1>5, <3>2
      <4> QED BY <1>2, <3>1, <4>1, <4>2
    <3>3. CASE ~(i \in (origin + 1)..PatchIndex)
      <4>1. i <= origin <=> i <= origin'
        BY <1>1, <1>4, <1>5, <2>2, <3>3
      <4>2. i > origin <=> i > origin'
        BY <1>1, <1>4, <1>5, <2>2, <3>3
      <4> QED BY <1>2, <3>1, <4>1, <4>2
    <3> QED BY <3>2, <3>3
  <2> QED BY <2>1, <2>2
<1>10. Collected(pos)' /\ origin' = Behind(pos, patched')
  <2>1. Behind(pos, patched') = PatchIndex + 1
    BY <1>1, <1>4, <1>5 DEF Behind
  <2>2. Collected(pos)'
    BY <1>1, <1>3 DEF Collected, Outlier, High
  <2> QED BY <1>1, <2>1, <2>2
<1>11. \E p \in Seq(Nat) : Collected(p)' /\ origin' = Behind(p, patched')
  <2> WITNESS pos \in Seq(Nat)
  <2> QED BY <1>10
<1>12. OutliersInOrder'
  BY <1>1, <1>2, <1>8, <1>9, <1>11 DEF OutliersInOrder
<1>13. PatchedTypeOK'
  <2>1. patched' \in 0..Len(excpts'.indices) /\ origin' \in Nat
    BY <1>1, <1>5
  <2> QED BY <1>1, <1>8, <2>1 DEF QInv, PatchedTypeOK
<1> QED BY <1>1, <1>12, <1>13 DEF QInv, ListsInOrder

\* Behind the last outlier nothing was cut off.
LEMMA PatchReturnsInv ==
  ASSUME QInv, PatchReturns, PInv'
  PROVE  QInv'
<1>1. /\ kind = "patching" /\ kind' = "used" /\ nbits' = nbits /\ sent' = sent
      /\ excpts' = excpts /\ origin' = origin /\ patched' = patched
      /\ decoded' = decoded /\ pc' = pc /\ patched = Len(excpts.indices)
  BY DEF PatchReturns, outliers, vars
<1>2. /\ Len(decoded) = Len(sent) /\ excpts.index = Len(sent)
      /\ \A i \in 1..Len(sent) :
           /\ (i <= origin => decoded[i] = sent[i])
           /\ (i > origin => decoded[i] = sent[i] \cap Mask(nbits))
  BY <1>1 DEF QInv, OutliersInOrder
<1>3. \A i \in (origin + 1)..Len(sent) : ~Outlier(i)
  BY <1>1, <1>2 DEF QInv, OutliersInOrder, Collected
<1>4. sent \in Seq(SUBSET Word) /\ decoded \in Seq(SUBSET Word) /\ origin \in Nat
  BY DEF QInv, PatchedTypeOK
<1>5. ASSUME NEW i \in 1..Len(sent) PROVE decoded[i] = sent[i]
  <2>1. CASE i <= origin
    BY <1>2, <2>1
  <2>2. CASE i > origin
    <3>1. i \in (origin + 1)..Len(sent)
      BY <1>4, <2>2
    <3>2. sent[i] \subseteq Mask(nbits)
      BY <1>3, <3>1 DEF Outlier
    <3> QED BY <1>2, <2>2, <3>2
  <2> QED BY <1>4, <2>1, <2>2
<1>6. decoded = sent
  BY <1>2, <1>4, <1>5
<1>7. PatchedTypeOK'
  BY <1>1 DEF QInv, PatchedTypeOK
<1>8. \E pos \in Seq(Nat) : Collected(pos)'
  <2>1. PICK pos \in Seq(Nat) : Collected(pos)
    BY <1>1 DEF QInv, OutliersInOrder
  <2>2. Collected(pos)'
    BY <1>1, <2>1 DEF Collected, Outlier, High
  <2> QED BY <2>2
<1> QED BY <1>1, <1>2, <1>6, <1>7, <1>8 DEF QInv, ListsInOrder, OutliersInOrder

\* The exceptions are reset for another list.
LEMMA ResetInv ==
  ASSUME QInv, Reset, PInv'
  PROVE  QInv'
<1>1. /\ kind = "used" /\ kind' = "none" /\ nbits' = 0 /\ sent' = <<>>
      /\ excpts' = NoExceptions /\ origin' = 0 /\ patched' = 0
      /\ decoded' = <<>> /\ pc' = pc
  BY DEF Reset, vars
<1>2. PatchedTypeOK'
  BY <1>1, WordAssumption DEF PatchedTypeOK, NoExceptions
<1> QED BY <1>1, <1>2 DEF QInv, ListsInOrder, OutliersInOrder

LEMMA InitQInv == PatchedInit => QInv
<1> SUFFICES ASSUME PatchedInit PROVE QInv
  OBVIOUS
<1>1. PInv /\ pc = "idle"
  BY InitPInv DEF PatchedInit, Init
<1>2. PatchedTypeOK
  BY WordAssumption DEF PatchedInit, PatchedTypeOK, NoExceptions
<1> QED BY <1>1, <1>2 DEF PatchedInit, QInv, ListsInOrder, OutliersInOrder

\* Every step keeps the invariant.
LEMMA NextQInv == QInv /\ [PatchedNext]_patchedVars => QInv'
<1> SUFFICES ASSUME QInv, [PatchedNext]_patchedVars PROVE QInv'
  OBVIOUS
<1>1. CASE UNCHANGED patchedVars
  <2>1. PInv'
    <3>1. UNCHANGED vars
      BY <1>1 DEF patchedVars
    <3> QED BY <3>1, NextPInv DEF QInv
  <2>2. /\ kind' = kind /\ nbits' = nbits /\ sent' = sent /\ excpts' = excpts
        /\ origin' = origin /\ patched' = patched /\ decoded' = decoded
        /\ width' = width /\ source' = source /\ taken' = taken /\ pc' = pc
    BY <1>1 DEF patchedVars, vars, patchVars, client, outliers, call, packing
  <2>3. PatchedTypeOK' /\ ListsInOrder' /\ OutliersInOrder'
    BY <2>2, ZenonT(60) DEF QInv, PatchedTypeOK, ListsInOrder, OutliersInOrder, Collected, Outlier, High
  <2>4. \A pos : Collected(pos) => Collected(pos)'
    BY <2>2 DEF Collected, Outlier, High
  <2> QED BY <2>1, <2>2, <2>3, <2>4 DEF QInv
<1>2. CASE PatchedNext
  <2>1. PInv'
    BY <1>2, LoopsStep, NextPInv DEF QInv
  <2>2. ASSUME NEW w \in Widths, NEW list \in Lists(w),
               BeginPlain(w, list) \/ BeginPatched(w, list)
        PROVE  QInv'
    BY <2>1, <2>2, BeginPlainInv, BeginPatchedInv
  <2>3. ASSUME MayContinue, NEW list \in Lists(nbits), Continue(list) PROVE QInv'
    BY <2>1, <2>3, ContinueInv
  <2>4. CASE PutPlain \/ PutPatched \/ Loop
    BY <2>1, <2>4, PutPlainInv, PutPatchedInv, LoopInv
  <2>5. CASE PlainDecoded \/ BasicDecoded
    BY <2>1, <2>5, PlainDecodedInv, BasicDecodedInv
  <2>6. CASE BeginPatch \/ PatchNext \/ PatchReturns \/ Reset
    BY <2>1, <2>6, BeginPatchInv, PatchNextInv, PatchReturnsInv, ResetInv
  <2> QED BY <1>2, <2>2, <2>3, <2>4, <2>5, <2>6 DEF PatchedNext
<1> QED BY <1>1, <1>2

-------------------------------------------------------------------------------
(* What patched bit-packing keeps true.                                     *)

\* The invariant holds in every state.
LEMMA SpecQInv == PatchedSpec => []QInv
BY InitQInv, NextQInv, PTL DEF PatchedSpec

\* The exceptions always have their types: no distance comes from a subtraction
\* below zero.
THEOREM PatchedTypeCorrect == PatchedSpec => []PatchedTypeOK
<1>1. QInv => PatchedTypeOK
  BY DEF QInv
<1> QED BY SpecQInv, <1>1, PTL

\* What the invariant says of the next outlier.
LEMMA InsideFromInv == QInv => PatchesInside
<1> SUFFICES ASSUME QInv, kind = "patching", patched < Len(excpts.indices)
             PROVE  PatchIndex < Len(decoded)
  BY DEF PatchesInside
<1>1. PICK pos \in Seq(Nat) : Collected(pos) /\ origin = Behind(pos, patched)
  BY DEF QInv, OutliersInOrder
<1>2. PatchIndex \in origin..(Len(sent) - 1)
  BY <1>1, NextOutlier
<1>3. Len(decoded) = Len(sent) /\ Len(sent) \in Nat /\ origin \in Nat
  BY DEF QInv, PatchedTypeOK, OutliersInOrder
<1> QED BY <1>2, <1>3

\* decode_patch() writes only where decode_basic() has written before, for a client
\* that keeps to its contract: no encode() behind an outlier (MayContinue), and
\* reset() between two lists.
THEOREM PatchesAreInside == PatchedSpec => []PatchesInside
BY SpecQInv, InsideFromInv, PTL

\* What it says of the integers that are decoded.
LEMMA RestoresFromInv == QInv => PatchRestores
<1> SUFFICES ASSUME QInv PROVE PatchRestores
  OBVIOUS
<1>1. sent \in Seq(SUBSET Word) /\ decoded \in Seq(SUBSET Word)
  BY DEF QInv, PatchedTypeOK
<1>2. ASSUME kind = "patched", pc = "idle"
      PROVE  /\ Len(decoded) = Len(sent)
             /\ \A i \in DOMAIN sent : decoded[i] = sent[i] \cap Mask(nbits)
  <2>1. Len(source) = 0
    BY <1>2, IdleFacts
  <2> QED BY <1>1, <1>2, <2>1 DEF QInv, ListsInOrder
<1>3. ASSUME kind = "patching"
      PROVE  /\ Len(decoded) = Len(sent)
             /\ \A i \in DOMAIN sent :
                  /\ (i <= origin => decoded[i] = sent[i])
                  /\ (i > origin => decoded[i] = sent[i] \cap Mask(nbits))
  BY <1>1, <1>3 DEF QInv, OutliersInOrder
<1>4. ASSUME kind \in {"patched", "patching"}, pc = "idle"
      PROVE  /\ Len(decoded) = Len(sent)
             /\ \A i \in DOMAIN sent :
                  decoded[i] = IF kind = "patching" /\ i <= origin THEN sent[i]
                               ELSE sent[i] \cap Mask(nbits)
  <2>1. CASE kind = "patched"
    BY <1>2, <1>4, <2>1
  <2>2. CASE kind = "patching"
    <3>1. \A i \in DOMAIN sent : i <= origin \/ i > origin
      BY <1>1 DEF QInv, PatchedTypeOK
    <3> QED BY <1>3, <2>2, <3>1
  <2> QED BY <1>4, <2>1, <2>2
<1> QED BY <1>4 DEF PatchRestores, QInv

\* Everything that was encoded is restored, outlier by outlier, for such a client.
THEOREM PatchingRestores == PatchedSpec => []PatchRestores
BY SpecQInv, RestoresFromInv, PTL

\* The loops keep what they promise when they work for the patched codec.
THEOREM PatchedLoops == PatchedSpec => [](TypeOK /\ DecodesInOrder)
<1>1. QInv => TypeOK /\ DecodesInOrder
  BY DEF QInv, PInv
<1> QED BY SpecQInv, <1>1, PTL

\* The indices of the exceptions are the distances of the positions, and decoded they
\* are the positions again.
LEMMA DecodedPositions ==
  ASSUME NEW codes \in Seq(Nat), NEW pos \in Seq(Nat), Len(codes) = Len(pos),
         \A k \in DOMAIN pos : codes[k] = pos[k] - Behind(pos, k - 1)
  PROVE  OffsetDecode(codes) = pos /\ OffsetEncode(pos) = codes
<1> DEFINE IsDecoded(f) ==
             f = [k \in DOMAIN codes |-> codes[k] + (IF k = 1 THEN 0 ELSE f[k - 1] + 1)]
           places == CHOOSE f : IsDecoded(f)
<1>1. PICK len \in Nat : len = Len(pos) /\ DOMAIN pos = 1..len /\ DOMAIN codes = 1..len
  OBVIOUS
<1>2. ASSUME NEW k \in 1..len
      PROVE  /\ pos[k] \in Nat /\ codes[k] \in Nat
             /\ k # 1 => k - 1 \in 1..len /\ pos[k - 1] \in Nat
             /\ pos[k] = codes[k] + (IF k = 1 THEN 0 ELSE pos[k - 1] + 1)
  <2>1. pos[k] \in Nat /\ codes[k] \in Nat
    BY <1>1
  <2>2. k # 1 => k - 1 \in 1..len
    OBVIOUS
  <2>3. k # 1 => pos[k - 1] \in Nat
    BY <1>1, <2>2
  <2>4. codes[k] = pos[k] - Behind(pos, k - 1)
    BY <1>1
  <2>5. Behind(pos, k - 1) = IF k = 1 THEN 0 ELSE pos[k - 1] + 1
    BY DEF Behind
  <2> QED BY <2>1, <2>2, <2>3, <2>4, <2>5, SMTT(30)
<1>3. \E f : IsDecoded(f)
  <2>1. pos = [k \in 1..len |-> pos[k]]
    BY <1>1
  <2>2. pos = [k \in 1..len |-> codes[k] + (IF k = 1 THEN 0 ELSE pos[k - 1] + 1)]
    BY <1>2, <2>1
  <2>3. IsDecoded(pos)
    BY <1>1, <2>2
  <2> HIDE DEF IsDecoded
  <2> QED BY <2>3
<1>4. IsDecoded(places)
  <2> HIDE DEF IsDecoded
  <2> QED BY <1>3
<1>5. OffsetDecode(codes) = places
  BY DEF OffsetDecode
<1> HIDE DEF places
<1>6. /\ places = [k \in 1..len |-> places[k]]
      /\ \A k \in 1..len :
           places[k] = codes[k] + (IF k = 1 THEN 0 ELSE places[k - 1] + 1)
  BY <1>1, <1>4
<1> HIDE DEF IsDecoded
<1> DEFINE Same == {k \in Nat : k \in 1..len => places[k] = pos[k]}
<1>7. 0 \in Same
  OBVIOUS
<1>8. ASSUME NEW k \in Nat, k \in Same PROVE k + 1 \in Same
  <2> SUFFICES ASSUME k + 1 \in 1..len PROVE places[k + 1] = pos[k + 1]
    OBVIOUS
  <2>1. CASE k = 0
    <3>1. k + 1 = 1 /\ 1 \in 1..len
      BY <2>1
    <3> QED BY <1>2, <1>6, <3>1
  <2>2. CASE k # 0
    <3>1. k \in 1..len /\ (k + 1) - 1 = k /\ k + 1 # 1
      BY <2>2
    <3>2. places[k] = pos[k]
      BY <1>8, <3>1
    <3>3. places[k + 1] = codes[k + 1] + (places[k] + 1)
      <4>1. places[k + 1] = codes[k + 1]
                              + (IF k + 1 = 1 THEN 0 ELSE places[(k + 1) - 1] + 1)
        BY <1>6
      <4> QED BY <3>1, <4>1
    <3>4. pos[k + 1] = codes[k + 1] + (pos[k] + 1)
      <4>1. pos[k + 1] = codes[k + 1] + (IF k + 1 = 1 THEN 0 ELSE pos[(k + 1) - 1] + 1)
        BY <1>2
      <4> QED BY <3>1, <4>1
    <3> QED BY <3>2, <3>3, <3>4
  <2> QED BY <2>1, <2>2
<1> HIDE DEF Same
<1>9. \A k \in 1..len : places[k] = pos[k]
  <2>1. Nat \subseteq Same
    BY <1>7, <1>8, EveryNumber
  <2> QED BY <2>1 DEF Same
<1>10. OffsetDecode(codes) = pos
  <2>1. pos = [k \in 1..len |-> pos[k]]
    BY <1>1
  <2> QED BY <1>5, <1>6, <1>9, <2>1
<1>11. OffsetEncode(pos) = codes
  <2>1. codes = [k \in 1..len |-> codes[k]]
    BY <1>1
  <2>2. ASSUME NEW k \in 1..len
        PROVE  codes[k] = pos[k] - (IF k = 1 THEN 0 ELSE pos[k - 1] + 1)
    BY <1>2
  <2> QED BY <1>1, <2>1, <2>2 DEF OffsetEncode
<1> QED BY <1>10, <1>11

\* The positions of the exceptions are those of all the outliers.
LEMMA AllOutliers ==
  ASSUME NEW pos \in Seq(Nat), Collected(pos), excpts.index \in Nat,
         NEW i \in 1..excpts.index
  PROVE  Outlier(i) <=> \E k \in DOMAIN pos : i = pos[k] + 1
<1>1. PICK len \in Nat : len = Len(pos) /\ DOMAIN pos = 1..len
  OBVIOUS
<1>2. ASSUME NEW k \in DOMAIN pos, i = pos[k] + 1 PROVE Outlier(i)
  BY <1>2 DEF Collected
<1>3. ASSUME Outlier(i) PROVE \E k \in DOMAIN pos : i = pos[k] + 1
  <2> DEFINE After == {k \in 1..len : i <= pos[k] + 1}
  <2>1. CASE After = {}
    <3>1. Behind(pos, len) < i
      <4>1. len # 0 => len \in 1..len /\ pos[len] \in Nat
        BY <1>1
      <4>2. len # 0 => ~(i <= pos[len] + 1)
        BY <2>1, <4>1
      <4> QED BY <4>1, <4>2 DEF Behind
    <3>2. Behind(pos, len) \in Nat
      <4>1. len \in 0..Len(pos)
        BY <1>1
      <4> QED BY <4>1, BehindType
    <3>3. i \in (Behind(pos, len) + 1)..excpts.index
      BY <3>1, <3>2
    <3> QED BY <1>1, <1>3, <3>3 DEF Collected
  <2>2. CASE After # {}
    <3>1. PICK k \in After : \A j \in After : k <= j
      <4>1. After \subseteq Nat
        OBVIOUS
      <4> HIDE DEF After
      <4> QED BY <2>2, <4>1, LeastNumber
    <3>2. k \in 1..len /\ i <= pos[k] + 1 /\ pos[k] \in Nat
      BY <1>1, <3>1
    <3>3. Behind(pos, k - 1) \in Nat
      <4>1. k - 1 \in 0..Len(pos)
        BY <1>1, <3>2
      <4> QED BY <4>1, BehindType
    <3>4. Behind(pos, k - 1) < i
      <4>1. CASE k = 1
        BY <4>1 DEF Behind
      <4>2. CASE k # 1
        <5>1. k - 1 \in 1..len /\ k - 1 \notin After
          BY <3>1, <3>2, <4>2
        <5>2. pos[k - 1] \in Nat
          BY <1>1, <5>1
        <5> QED BY <4>2, <5>1, <5>2 DEF Behind
      <4> QED BY <4>1, <4>2
    <3>5. ~(i <= pos[k])
      <4> SUFFICES ASSUME i <= pos[k] PROVE FALSE
        OBVIOUS
      <4>1. i \in (Behind(pos, k - 1) + 1)..pos[k]
        BY <3>2, <3>3, <3>4
      <4> QED BY <1>1, <1>3, <3>2, <4>1 DEF Collected
    <3>6. i = pos[k] + 1
      BY <3>2, <3>5
    <3> QED BY <1>1, <3>2, <3>6
  <2> QED BY <2>1, <2>2
<1> QED BY <1>2, <1>3

\* What the invariant says of the exceptions.
LEMMA ExceptionsFromInv == QInv => ExceptionsAreAsDescribed
<1> SUFFICES ASSUME QInv, kind \in {"patched", "patching", "used"}, pc = "idle"
             PROVE  ExceptionsAreAsDescribed
  BY DEF ExceptionsAreAsDescribed
<1>1. /\ excpts \in [index : Nat, indices : Seq(Nat), values : Seq(SUBSET Word)]
      /\ sent \in Seq(SUBSET Word)
  BY DEF QInv, PatchedTypeOK
<1>2. excpts.index \in Nat /\ excpts.indices \in Seq(Nat) /\ excpts.values \in Seq(SUBSET Word)
  BY <1>1
<1>3. excpts.index = Len(sent)
  <2>1. ASSUME kind = "patched" PROVE excpts.index = Len(sent)
    <3>1. Len(source) = 0 /\ taken = 0
      BY IdleFacts
    <3>2. Len(sent) = Len(decoded) + Len(source) /\ excpts.index = Len(decoded) + taken
      BY <2>1 DEF QInv, ListsInOrder
    <3> QED BY <3>1, <3>2
  <2> QED BY <2>1 DEF QInv, OutliersInOrder
<1>4. PICK pos \in Seq(Nat) : Collected(pos)
  BY DEF QInv, ListsInOrder, OutliersInOrder
<1>5. OffsetDecode(excpts.indices) = pos /\ OffsetEncode(pos) = excpts.indices
  <2>1. /\ Len(excpts.indices) = Len(pos)
        /\ \A k \in DOMAIN pos : excpts.indices[k] = pos[k] - Behind(pos, k - 1)
    BY <1>4 DEF Collected
  <2> QED BY <1>2, <2>1, DecodedPositions
<1>6. nbits \in Nat
  <2>1. nbits \in Widths
    BY DEF QInv
  <2> QED BY <2>1, WidthsAssumption, WordAssumption
<1> DEFINE high == [i \in DOMAIN sent |-> High(sent[i])]
<1>7. \A i \in DOMAIN sent : high[i] # {} <=> Outlier(i)
  <2> TAKE i \in DOMAIN sent
  <2>1. sent[i] \in SUBSET Word
    BY <1>1
  <2>2. high[i] = ShiftRight(sent[i], nbits)
    BY DEF High
  <2>3. ShiftRight(sent[i], nbits) # {} <=> sent[i] \ Mask(nbits) # {}
    <3>1. ASSUME NEW b \in ShiftRight(sent[i], nbits) PROVE b + nbits \in sent[i] \ Mask(nbits)
      BY <1>6, WordAssumption DEF ShiftRight, Mask, Word
    <3>2. ASSUME NEW p \in sent[i] \ Mask(nbits) PROVE p - nbits \in ShiftRight(sent[i], nbits)
      <4>1. p \in Word
        BY <2>1
      <4>2. p - nbits \in Word /\ (p - nbits) + nbits = p
        BY <1>6, <4>1, WordAssumption DEF Mask, Word
      <4> QED BY <4>2 DEF ShiftRight
    <3> QED BY <3>1, <3>2
  <2> QED BY <2>2, <2>3 DEF Outlier
<1>8. DOMAIN sent = 1..excpts.index
  BY <1>1, <1>3
<1>9. \A k \in DOMAIN pos : pos[k] + 1 \in DOMAIN sent
  <2> TAKE k \in DOMAIN pos
  <2>1. k \in 1..Len(pos) /\ k - 1 \in 0..Len(pos)
    OBVIOUS
  <2>2. Behind(pos, k - 1) \in Nat /\ pos[k] \in Nat
    BY <2>1, BehindType
  <2>3. pos[k] \in Behind(pos, k - 1)..(excpts.index - 1)
    BY <1>4 DEF Collected
  <2> QED BY <1>2, <1>8, <2>2, <2>3
<1>10. {pos[k] + 1 : k \in DOMAIN pos} = {i \in DOMAIN sent : high[i] # {}}
  <2>1. \A i \in DOMAIN sent : Outlier(i) <=> \E k \in DOMAIN pos : i = pos[k] + 1
    BY <1>2, <1>4, <1>8, AllOutliers
  <2> HIDE DEF high
  <2> QED BY <1>7, <1>9, <2>1
<1>11. \A k \in DOMAIN pos : k > 1 => pos[k - 1] < pos[k]
  <2> TAKE k \in DOMAIN pos
  <2> HAVE k > 1
  <2>1. k - 1 \in DOMAIN pos /\ k - 1 # 0
    OBVIOUS
  <2>2. pos[k] \in Nat /\ pos[k - 1] \in Nat
    BY <2>1
  <2>3. pos[k] \in Behind(pos, k - 1)..(excpts.index - 1)
    BY <1>4 DEF Collected
  <2> QED BY <1>2, <2>1, <2>2, <2>3 DEF Behind
<1>12. excpts.values = [k \in DOMAIN pos |-> high[pos[k] + 1]]
  <2>1. ASSUME NEW k \in DOMAIN pos PROVE excpts.values[k] = high[pos[k] + 1]
    BY <1>4, <1>9 DEF Collected
  <2>2. DOMAIN excpts.values = DOMAIN pos
    BY <1>2, <1>4 DEF Collected
  <2>3. excpts.values = [k \in DOMAIN pos |-> excpts.values[k]]
    BY <1>2, <2>2
  <2> HIDE DEF high
  <2> QED BY <2>1, <2>3
<1>13. high = [i \in DOMAIN sent |-> High(sent[i])]
  OBVIOUS
<1> HIDE DEF high
<1> QED
  BY <1>3, <1>5, <1>10, <1>11, <1>12, <1>13 DEF ExceptionsAreAsDescribed

\* The exceptions that the calls of encode() have filled are those of the whole list:
\* none is forgotten, none is there twice, and their indices lead back to their
\* positions.
THEOREM ExceptionsDescribed == PatchedSpec => []ExceptionsAreAsDescribed
BY SpecQInv, ExceptionsFromInv, PTL

========================================================================================
