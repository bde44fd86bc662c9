----------------------------- MODULE VarintStream -----------------------------
(***************************************************************************)
(* encode() and decode() of varint_codec (varint.h), byte by byte, for the *)
(* client of README.md: it encodes several arrays of integers, which may   *)
(* be of different types, one behind the other into memory that space()    *)
(* has measured, and decodes them again.  Module Varint says in one        *)
(* expression what bytes an integer becomes; here they come out of the     *)
(* shifts of the loops, cut to the width of the type.                      *)
(*                                                                         *)
(* An integer is the word that the value codec has made of it.  A byte is  *)
(* the set of the positions of its 1 bits, too.                            *)
(***************************************************************************)
EXTENDS Words, FiniteSetsExt

CONSTANTS
  ByteBits,   \* the bits of a byte (8)
  IntBits,    \* the bits of an int, to which narrower types are promoted (32)
  Messages    \* the arrays that are encoded together: sequences of records of
              \* the bits of the type and the integers

Numbers == INSTANCE Varint WITH Width <- WordBits, IsSigned <- FALSE

GroupBits == Numbers!GroupBits

ArrayType == [bits : 1..WordBits, ints : Seq(SUBSET Word)]

ASSUME VarintAssumption ==
  /\ ByteBits \in Nat \ {0, 1}
  /\ IntBits \in 1..WordBits
  /\ Messages \subseteq Seq(ArrayType)
  /\ \A message \in Messages :
       \A a \in DOMAIN message : \A i \in DOMAIN message[a].ints :
         message[a].ints[i] \subseteq Mask(message[a].bits)

VARIABLES
  step,     \* "idle", or what the running call does next
  arrays,   \* the arrays that are encoded
  array,    \* the one under way
  item,     \* how many of its integers are done
  value,    \* `value': what is left to encode, or what has been decoded
  place,    \* `shift': where the bits of the next byte go
  bytes,    \* the bytes that dst has passed
  at,       \* the position of src in them
  got       \* the integers decoded, array by array

varintVars == <<step, arrays, array, item, value, place, bytes, at, got>>

VarintInit ==
  /\ step = "idle"
  /\ arrays = <<>> /\ array = 1 /\ item = 0
  /\ value = {} /\ place = 0
  /\ bytes = <<>> /\ at = 1 /\ got = <<>>

BeginArrays(message) ==
  /\ step = "idle"
  /\ step' = "write"
  /\ arrays' = message
  /\ UNCHANGED <<array, item, value, place, bytes, at, got>>

InArray == array <= Len(arrays)

Items == arrays[array].ints

\* The loop of encode() or decode() ends, and the client turns to the next array.
NextArray ==
  /\ step \in {"write", "read"}
  /\ InArray /\ item = Len(Items)
  /\ array' = array + 1
  /\ item' = 0
  /\ UNCHANGED <<step, arrays, value, place, bytes, at, got>>

-------------------------------------------------------------------------------
(* integer_traits<unsigned_t>::usedcount, and what space() makes of it.       *)

\* promoted_nbits: the bits that the arithmetic on a type has.
Promoted(bits) == IF bits < IntBits THEN IntBits ELSE bits

\* The zeros above the highest 1 bit, counted in the promoted type.
Clz(word, bits) ==
  Cardinality({p \in Mask(Promoted(bits)) : \A q \in word : q < p})

\* (mutant of UsedCount) the bits of the type itself.
UsedCountUnpromoted(word, bits) ==
  IF word = {} THEN 0 ELSE bits - Clz(word, bits)

UsedCount(word, bits) ==
  IF word = {} THEN 0 ELSE Promoted(bits) - Clz(word, bits)

\* value_space: the bytes that an integer is expected to take.
SpaceOf(word, bits) ==
  IF word = {} THEN 1 ELSE Numbers!NbitsSpace(UsedCount(word, bits))

\* space() of the first count integers of an array.
Space(ints, bits, count) ==
  LET sum[k \in 0..count] ==
        IF k = 0 THEN 0 ELSE sum[k - 1] + SpaceOf(ints[k], bits)
  IN sum[count]

-------------------------------------------------------------------------------
(* value_encode.                                                            *)

Mark == {GroupBits}   \* 0x80

StartValue ==
  /\ step = "write" /\ InArray /\ item < Len(Items)
  /\ value' = Items[item + 1]
  /\ step' = "put"
  /\ UNCHANGED <<arrays, array, item, place, bytes, at, got>>

\* (mutant of NeedsMore) value > 0x80
NeedsMoreAbove == value \ Mask(GroupBits) # {} /\ value # Mark

\* (mutant of NeedsMore) the loop ends one byte early.
NeedsMoreLater == value \ Mask(2 * GroupBits) # {}

\* value >= 0x80
NeedsMore == value \ Mask(GroupBits) # {}

\* (mutant of PutMarked) a shift of eight bits a byte.
PutMarkedByte ==
  /\ step = "put" /\ NeedsMore
  /\ bytes' = Append(bytes, (value \cup Mark) \cap Mask(ByteBits))
  /\ value' = ShiftRight(value, ByteBits)
  /\ UNCHANGED <<step, arrays, array, item, place, at, got>>

PutMarked ==
  /\ step = "put" /\ NeedsMore
  /\ bytes' = Append(bytes, (value \cup Mark) \cap Mask(ByteBits))
  /\ value' = ShiftRight(value, GroupBits)
  /\ UNCHANGED <<step, arrays, array, item, place, at, got>>

PutLast ==
  /\ step = "put" /\ ~NeedsMore
  /\ bytes' = Append(bytes, value)
  /\ value' = {}
  /\ item' = item + 1
  /\ step' = "write"
  /\ UNCHANGED <<arrays, array, place, at, got>>

WriteReturns ==
  /\ step = "write" /\ ~InArray
  /\ step' = "read"
  /\ array' = 1 /\ item' = 0
  /\ got' = [a \in DOMAIN arrays |-> <<>>]
  /\ UNCHANGED <<arrays, value, place, bytes, at>>

-------------------------------------------------------------------------------
(* value_decode.  Its first iterations are unrolled in the code.            *)

\* *src++
NextByte == bytes[at]

Continues(byte) == byte \cap Mark # {}

Deliver(word) ==
  /\ got' = [got EXCEPT ![array] = Append(@, word)]
  /\ item' = item + 1
  /\ step' = "read"
  /\ value' = {} /\ place' = 0

\* (mutant of Piece) the mark is shifted along with the bits of the group.
PieceMarked(byte) == {ShiftLeft(byte, place) \cap Mask(arrays[array].bits)}

\* (byte & 0x7f) << shift, as it is stored into an unsigned_t.  The type that is
\* shifted has no answer to a shift by its width or more.
Piece(byte) ==
  LET bits == arrays[array].bits
      group == byte \ Mark
  IN IF place < Promoted(bits) THEN {ShiftLeft(group, place) \cap Mask(bits)}
     ELSE {group, {}}

TakeOnly ==
  /\ step = "read" /\ InArray /\ item < Len(Items)
  /\ ~Continues(NextByte)
  /\ at' = at + 1
  /\ Deliver(NextByte)
  /\ UNCHANGED <<arrays, array, bytes>>

TakeFirst ==
  /\ step = "read" /\ InArray /\ item < Len(Items)
  /\ Continues(NextByte)
  /\ at' = at + 1
  /\ value' = NextByte \ Mark
  /\ place' = GroupBits
  /\ step' = "take"
  /\ UNCHANGED <<arrays, array, item, bytes, got>>

\* (mutant of TakeNext) a shift of eight bits a byte.
TakeNextByte ==
  /\ step = "take"
  /\ Continues(NextByte)
  /\ at' = at + 1
  /\ \E piece \in Piece(NextByte) : value' = value \cup piece
  /\ place' = place + ByteBits
  /\ UNCHANGED <<step, arrays, array, item, bytes, got>>

TakeNext ==
  /\ step = "take"
  /\ Continues(NextByte)
  /\ at' = at + 1
  /\ \E piece \in Piece(NextByte) : value' = value \cup piece
  /\ place' = place + GroupBits
  /\ UNCHANGED <<step, arrays, array, item, bytes, got>>

TakeLast ==
  /\ step = "take"
  /\ ~Continues(NextByte)
  /\ at' = at + 1
  /\ \E piece \in Piece(NextByte) : Deliver(value \cup piece)
  /\ UNCHANGED <<arrays, array, bytes>>

\* The client is done with the arrays.
ReadReturns ==
  /\ step = "read" /\ ~InArray
  /\ step' = "idle"
  /\ arrays' = <<>> /\ array' = 1 /\ item' = 0
  /\ value' = {} /\ place' = 0
  /\ bytes' = <<>> /\ at' = 1 /\ got' = <<>>

VarintStep ==
  \/ NextArray
  \/ StartValue \/ PutMarked \/ PutLast \/ WriteReturns
  \/ TakeOnly \/ TakeFirst \/ TakeNext \/ TakeLast \/ ReadReturns

VarintNext == (\E message \in Messages : BeginArrays(message)) \/ VarintStep

VarintSpec == VarintInit /\ [][VarintNext]_varintVars

-------------------------------------------------------------------------------
(* Properties.                                                              *)

\* The variables have their types: no byte is wider than a byte, and src stays
\* within the bytes written.
VarintTypeOK ==
  /\ step \in {"idle", "write", "put", "read", "take"}
  /\ arrays \in Seq(ArrayType)
  /\ array \in 1..(Len(arrays) + 1)
  /\ InArray => item \in 0..Len(Items)
  /\ value \in SUBSET Word
  /\ place \in Nat
  /\ bytes \in Seq(SUBSET Mask(ByteBits))
  /\ at \in 1..(Len(bytes) + 1)
  /\ got \in Seq(Seq(SUBSET Word))

\* space() of what the client has encoded, or decoded, up to the present integer.
SpaceSoFar ==
  LET before[a \in 1..array] ==
        IF a = 1 THEN 0
        ELSE before[a - 1] + Space(arrays[a - 1].ints, arrays[a - 1].bits,
                                   Len(arrays[a - 1].ints))
  IN before[array]
       + (IF InArray THEN Space(Items, arrays[array].bits, item) ELSE 0)

\* README.md asserts it after each array: encode() moves dst by what space() has
\* measured, in its loops over bytes, and decode() moves src by as much.
MovesBySpace ==
  /\ step = "write" => Len(bytes) = SpaceSoFar
  /\ step = "read" => at - 1 = SpaceSoFar

\* While an integer is decoded, its low bits are there and higher ones are still
\* to come: the unbounded loop of value_decode neither shifts a bit out of the type
\* nor shifts by the width of it.
NoBitIsLost ==
  step = "take" =>
    /\ value = Items[item + 1] \cap Mask(place)
    /\ Items[item + 1] \ Mask(place) # {}

\* Whatever the types and lengths of the arrays, each integer decoded is the one
\* that was encoded in its place.
DeliversInOrder ==
  \A a \in DOMAIN got : \A i \in DOMAIN got[a] : got[a][i] = arrays[a].ints[i]

\* The loops write the bytes that module Varint describes, and it reads them as
\* they do, as far as the integers are numbers TLC can count to.
BytesAreAsDescribed ==
  LET number(word) == MapThenSumSet(LAMBDA b : 2^b, word)
      small == \A a \in DOMAIN arrays : \A i \in DOMAIN arrays[a].ints :
                 arrays[a].ints[i] \subseteq 0..29
      stream == [p \in DOMAIN bytes |-> number(bytes[p])]
  IN step = "read" /\ InArray /\ item < Len(Items) /\ small =>
       LET u == number(Items[item + 1])
           read == Numbers!ReadValue(stream, at)
           written == Numbers!ValueBytes(u)
       IN /\ read.value = u
          /\ SubSeq(stream, at, read.next - 1) = written

================================================================================
