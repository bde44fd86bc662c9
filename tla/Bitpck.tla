--------------------------------- MODULE Bitpck ---------------------------------
(***************************************************************************)
(* The block operations of bitpck_codec (bitpck.h).  A block is two words  *)
(* of WordBits bits, u and v, and takes as many integers of nbits bits as  *)
(* fit; the one in the middle may begin in u and end in v.                 *)
(*                                                                         *)
(* The encoding loops shift the next integer to the place that the         *)
(* variable `shift' has reached; here that place is a product.             *)
(***************************************************************************)
EXTENDS Words

\* How many integers a block takes, and how many of them begin and end in u.
Capacity(nbits) == (2 * WordBits) \div nbits

LowCount(nbits) == Capacity(nbits) \div 2

\* (mutant of BlockNumber) a last block that is not full is not counted.
BlockNumberDown(nvalues, nbits) == nvalues \div Capacity(nbits)

BlockNumber(nvalues, nbits) ==
  (nvalues + Capacity(nbits) - 1) \div Capacity(nbits)

\* The integer of 0-based index LowCount(nbits) lies in both words.
Straddles(nbits) == LowCount(nbits) * nbits # WordBits

\* block_encode of the integers of ints, at most a capacity of them.
BlockEncode(ints, nbits) ==
  LET m == LowCount(nbits)
      nbits1 == WordBits - m * nbits
      nbits2 == nbits - nbits1
      low == UNION {ShiftLeft(ints[i] \cap Mask(nbits), (i - 1) * nbits) :
                      i \in 1..m \cap DOMAIN ints}
      high(first, start) ==
        UNION {ShiftLeft(ints[i] \cap Mask(nbits), start + (i - first) * nbits) :
                 i \in first..Len(ints)}
  IN IF Straddles(nbits) /\ Len(ints) > m
     THEN [u |-> low \cup ShiftLeft(ints[m + 1] \cap Mask(nbits1), m * nbits),
           v |-> (ShiftRight(ints[m + 1], nbits1) \cap Mask(nbits2))
                   \cup high(m + 2, nbits2)]
     ELSE [u |-> low, v |-> high(m + 1, 0)]

\* block_decode of the first count integers of a block.
BlockDecode(block, count, nbits) ==
  LET m == LowCount(nbits)
      r == WordBits - m * nbits
  IN [i \in 1..count |->
        Mask(nbits) \cap
          IF i <= m THEN ShiftRight(block.u, (i - 1) * nbits)
          ELSE IF ~Straddles(nbits)
          THEN ShiftRight(block.v, (i - m - 1) * nbits)
          ELSE IF i = m + 1
          THEN ShiftRight(block.u, m * nbits) \cup ShiftLeft(block.v, r)
          ELSE ShiftRight(block.v, nbits - r + (i - m - 2) * nbits)]

\* (mutant of BlockFetch) the integer in the middle is looked for in u alone.
BlockFetchLow(block, i, nbits) ==
  Mask(nbits) \cap
    IF i <= LowCount(nbits) THEN ShiftRight(block.u, i * nbits)
    ELSE ShiftRight(block.v, i * nbits - WordBits)

\* block_fetch of the integer of 0-based index i.
BlockFetch(block, i, nbits) ==
  LET m == LowCount(nbits)
  IN Mask(nbits) \cap
       IF i < m THEN ShiftRight(block.u, i * nbits)
       ELSE IF Straddles(nbits) /\ i = m
       THEN ShiftRight(block.u, m * nbits)
              \cup ShiftLeft(block.v, WordBits - m * nbits)
       ELSE ShiftRight(block.v, i * nbits - WordBits)

\* fetch of the integer of 0-based index i from consecutive blocks.
Fetch(blocks, i, nbits) ==
  BlockFetch(blocks[i \div Capacity(nbits) + 1], i % Capacity(nbits), nbits)

================================================================================
