--------------------------------- MODULE Varint ---------------------------------
(***************************************************************************)
(* varint_codec (varint.h) on unsigned integers: groups of ByteBits - 1    *)
(* bits, the least significant first, the top bit of a byte marking that   *)
(* another byte follows.  The value codec in front of it (zigzag, origin)  *)
(* is applied by the caller.  A stream is a sequence of bytes; a reader    *)
(* holds the position of the next byte.                                    *)
(***************************************************************************)
EXTENDS IntegerTraits, Sequences

CONSTANT ByteBits   \* the bits of a byte (8)

ASSUME ByteAssumption == ByteBits \in Nat \ {0, 1}

GroupBits == ByteBits - 1       \* the 7 value bits of a byte
Continue == 2^GroupBits         \* the 0x80 mark

\* (mutant of NbitsSpace) the last bits, fewer than a group, are forgotten.
NbitsSpaceDown(nbits) == nbits \div GroupBits

\* The bytes of a value with nbits significant bits.
NbitsSpace(nbits) == (nbits + GroupBits - 1) \div GroupBits

\* (mutant of ValueSpace) zero has no significant bits and takes no byte.
ValueSpaceNoZero(u) == NbitsSpace(UsedCount(u))

ValueSpace(u) == IF u = 0 THEN 1 ELSE NbitsSpace(UsedCount(u))

\* (mutant of ValueBytes) the loop ends one byte early.
ValueBytesEarly(u) ==
  LET bytes[v \in Nat] ==
        IF v < Continue * Continue THEN <<v>>
        ELSE <<Continue + (v % Continue)>> \o bytes[v \div Continue]
  IN bytes[u]

ValueBytes(u) ==
  LET bytes[v \in Nat] ==
        IF v < Continue THEN <<v>>
        ELSE <<Continue + (v % Continue)>> \o bytes[v \div Continue]
  IN bytes[u]

\* The value that starts at position `at` of a stream and ends with the first byte
\* without the mark, and the position after it.
ReadValue(stream, at) ==
  LET last == CHOOSE p \in at..Len(stream) :
                /\ stream[p] < Continue
                /\ \A q \in at..(p - 1) : stream[q] >= Continue
      number[p \in at..last] ==
        IF p = last THEN stream[p]
        ELSE (stream[p] - Continue) + Continue * number[p + 1]
  IN [value |-> number[at], next |-> last + 1]

================================================================================
