------------------------------ MODULE GroupLayout ------------------------------
(***************************************************************************)
(* The memory of an integer_group<T> (integer_group.h), and the search in  *)
(* it that the groups of an array add (array_integer_group,                *)
(* integer_array.h): metadata, padding, data.  The reader finds the data   *)
(* from the number of metadata bytes it has read, where the writer had     *)
(* placed them from a number it had predicted.                             *)
(***************************************************************************)
EXTENDS IntegerCodec, SequenceOps

CONSTANT Alignment   \* integer_group::alignment (8)

ASSUME AlignmentAssumption == Alignment \in Nat \ {0}

\* (offset + alignment_mask) & ~alignment_mask
Offset(metaspace, flag) ==
  IF flag
  THEN Alignment * ((metaspace + Alignment - 1) \div Alignment)
  ELSE metaspace

\* The bytes that are allocated for the integers s.
Allocation(s, flag) ==
  LET meta == Select(ClearMetadata, s)
  IN Offset(Metaspace(meta), flag) + Dataspace(meta)

\* The bytes that encode() leaves in memory whose bytes all were junk, when select()
\* has given it the metadata meta.
WrittenBytes(meta, s, flag, junk) ==
  LET metaBytes == MetaBytes(meta)
      dataBytes == DataBytes(meta, s)
      offset == Offset(Metaspace(meta), flag)
  IN [k \in 1..(offset + Len(dataBytes)) |->
        IF k > offset THEN dataBytes[k - offset]
        ELSE IF k <= Len(metaBytes) THEN metaBytes[k]
        ELSE junk]

EncodedBytes(s, flag, junk) == WrittenBytes(Select(ClearMetadata, s), s, flag, junk)

\* decode() of count integers.
DecodedInts(bytes, count, flag) ==
  LET read == ReadMeta(ClearMetadata, bytes)
  IN ReadData(read.meta, bytes, Offset(read.next - 1, flag) + 1, count)

\* decode() of the metadata alone.
Description(bytes) == ReadMeta(ClearMetadata, bytes).meta

\* (mutant of TooWide) integers as wide as the packed ones are skipped too.
TooWideOrEqual(desc, v) ==
  \/ desc.encoding = "bitpck" /\ UsedCount(ZigzagIfSigned(v)) >= desc.nbits
  \/ /\ desc.encoding = "bitfor"
     /\ UsedCount(OriginEncode(desc.origin, v)) >= desc.nbits

\* The bits of the packed integers cannot hold v, and no decoding is needed.
TooWide(desc, v) ==
  \/ desc.encoding = "bitpck" /\ UsedCount(ZigzagIfSigned(v)) > desc.nbits
  \/ /\ desc.encoding = "bitfor"
     /\ UsedCount(OriginEncode(desc.origin, v)) > desc.nbits

\* (mutant of SearchOffset) the padding behind the metadata is forgotten.
SearchOffsetUnpadded(metaspace) == metaspace

\* find() works out the offset of the data by itself.
SearchOffset(metaspace) ==
  Alignment * ((metaspace + Alignment - 1) \div Alignment)

\* (mutant of PlainIntegers) the pointer moves by a byte.
PlainIntegersByByte(bytes, at, count) ==
  [i \in 1..count |-> ToOriginal(ReadNormal(bytes, at + (i - 1), 1).us[1])]

\* What the loop over plain integers compares, in its iterations.
PlainIntegers(bytes, at, count) ==
  [i \in 1..count |->
     ToOriginal(ReadNormal(bytes, at + (i - 1) * ValueSize, 1).us[1])]

\* What the loop over varints compares: each starts where the one before it ended.
VarintIntegers(bytes, at, count) ==
  LET next == [p \in Nat |-> ReadValue(bytes, p).next]
      place[i \in 0..count] == IF i = 0 THEN at ELSE next[place[i - 1]]
  IN [i \in 1..count |-> UnzigzagIfSigned(ReadValue(bytes, place[i - 1]).value)]

\* array_integer_group::find() in a group of count integers: some encodings need no
\* decoding, and for some the integer may be too wide.
FoundIndex(bytes, count, v) ==
  LET read == ReadMeta(ClearMetadata, bytes)
      desc == read.meta.value_desc
      at == SearchOffset(read.next - 1) + 1
  IN CASE desc.encoding = "naught" -> IF v = desc.origin THEN 0 ELSE NotFound
       [] desc.encoding = "normal" -> FirstIndex(PlainIntegers(bytes, at, count), v)
       [] desc.encoding = "varint" -> FirstIndex(VarintIntegers(bytes, at, count), v)
       [] OTHER -> IF TooWide(desc, v) THEN NotFound
                   ELSE FirstIndex(DecodedInts(bytes, count, TRUE), v)

================================================================================
