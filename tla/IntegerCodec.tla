------------------------------ MODULE IntegerCodec ------------------------------
(***************************************************************************)
(* integer_codec<T> (integer_codec.h): the choice of an encoding for a     *)
(* sequence of integers from its statistics (integer_stats.h), the         *)
(* metadata that describe the choice, and the bytes that the metadata and  *)
(* the sequence become.  naught.h, normal.h, bitfor.h and the sequence     *)
(* loops of bitpck.h are part of it.                                       *)
(*                                                                         *)
(* A buffer of bytes is a sequence of numbers below 2^ByteBits; whoever    *)
(* reads one holds the position of the next byte.                          *)
(***************************************************************************)
EXTENDS Varint, IntegerStats, Bitpck, Bitpfr, SequencesExt

Encodings ==
  <<"naught", "normal", "varint", "varfor", "bitpck", "bitfor", "bitpfr">>

ASSUME SizesAssumption ==
  /\ Width % ByteBits = 0 /\ WordBits % ByteBits = 0
  /\ Width <= WordBits /\ WordBits < 2^ByteBits
  /\ Len(Encodings) <= 2^ByteBits

\* What the metadata of an encoding keep.
WithOrigin == {"naught", "varfor", "bitfor", "bitpfr"}
WithNbits == {"bitpck", "bitfor", "bitpfr"}

\* (mutant of ClearDescriptor) the byte of the encoding is counted already.
ClearDescriptorOne ==
  [encoding |-> "normal", dataspace |-> 0, metaspace |-> 1,
   origin |-> 0, nbits |-> 0]

ClearDescriptor ==
  [encoding |-> "normal", dataspace |-> 0, metaspace |-> 0,
   origin |-> 0, nbits |-> 0]

\* encoding_metadata after its construction or clear().
ClearMetadata ==
  [value_desc |-> ClearDescriptor, noutliers |-> 0,
   outlier_index_desc |-> ClearDescriptor,
   outlier_value_desc |-> ClearDescriptor]

ValueSize == Width \div ByteBits            \* sizeof(T)
BlockSize == (2 * WordBits) \div ByteBits   \* block_size

\* bitpck_codec::space
PackedSpace(nvalues, nbits) == BlockSize * BlockNumber(nvalues, nbits)

-------------------------------------------------------------------------------
(* Selection.                                                               *)

\* (mutant of Compare) the metadata are not counted.
CompareData(desc, candidate) ==
  IF candidate.dataspace < desc.dataspace THEN candidate ELSE desc

Compare(desc, candidate) ==
  IF candidate.dataspace + candidate.metaspace < desc.dataspace + desc.metaspace
  THEN candidate ELSE desc

\* The sum of what a function has.
SumOf(g) == MapThenSumSet(LAMBDA x : g[x], DOMAIN g)

\* varint_codec::space
VarintSpace(us) ==
  LET space == [i \in DOMAIN us |-> ValueSpace(us[i])]
  IN SumOf([k \in Range(space) |->
              k * Cardinality({i \in DOMAIN us : space[i] = k})])

\* select_basic: the normal encoding, unless another is strictly smaller.
SelectBasic(desc, stats, ints) ==
  LET n == stats.nvalues
      min == stats.min
      max == stats.max
      zmin == ZigzagIfSigned(min)
      zmax == ZigzagIfSigned(max)
      pckbits == UsedCount(IF zmin > zmax THEN zmin ELSE zmax)
      forbits == UsedCount(ToUnsigned(max - min))
      minspace == ValueSpace(ZigzagIfSigned(min))
      vispace == VarintSpace([i \in DOMAIN ints |-> ZigzagIfSigned(ints[i])])
      vfspace == VarintSpace([i \in DOMAIN ints |-> OriginEncode(min, ints[i])])
      candidate(encoding, metaspace, dataspace, origin, nbits) ==
        [encoding |-> encoding, dataspace |-> dataspace,
         metaspace |-> metaspace, origin |-> origin, nbits |-> nbits]
      normal == [desc EXCEPT !.encoding = "normal", !.dataspace = n * ValueSize]
      bitpck == candidate("bitpck", 1, PackedSpace(n, pckbits), 0, pckbits)
      bitfor == candidate("bitfor", 1 + minspace, PackedSpace(n, forbits), min, forbits)
      varint == candidate("varint", 0, vispace, 0, 0)
      varfor == candidate("varfor", minspace, vfspace, min, 0)
  IN Compare(Compare(Compare(Compare(normal, bitpck), bitfor), varint), varfor)

\* The cheaper way to write a list of outlier data, varint on a tie.
Cheaper(desc, packed, plain, nbits) ==
  [desc EXCEPT !.encoding = IF packed < plain THEN "bitpck" ELSE "varint",
               !.nbits = nbits]

Least(a, b) == IF a < b THEN a ELSE b

\* What select() takes for the least memory that the indices of the outliers need.
IndexMinimum(noutliers, nvalues) == Least(PackedSpace(noutliers, 1), nvalues)

\* The bits to pack the indices of the outliers with.
IndexNbits(indices) == Max({1} \cup {UsedCount(indices[i]) : i \in DOMAIN indices})

\* One iteration of the loop of select(): patched bit-packing with nbits bits.
SelectPatched(meta, stats, deltas, histogram, nbits) ==
  LET n == stats.nvalues
      min == stats.min
      nbits_max == UsedCount(ToUnsigned(stats.max - min))
      noutliers == n - SumOf([k \in 0..nbits |-> histogram[k]])
      basic_metaspace == 1 + ValueSpace(ZigzagIfSigned(min))
      extra_metaspace == 2 + ValueSpace(noutliers)
      basic_dataspace == PackedSpace(n, nbits)
      valpck == PackedSpace(noutliers, nbits_max - nbits)
      valvar == SumOf([nb \in (nbits + 1)..nbits_max |->
                         NbitsSpace(nb - nbits) * histogram[nb]])
      fixed == basic_metaspace + extra_metaspace + basic_dataspace
                 + Least(valpck, valvar)
      selected == meta.value_desc.dataspace + meta.value_desc.metaspace
      indices == Exceptions(deltas, nbits).indices
      indnbits == IndexNbits(indices)
      indpck == PackedSpace(noutliers, indnbits)
      indvar == VarintSpace(indices)
  IN IF \/ histogram[nbits] = 0
        \/ fixed + IndexMinimum(noutliers, n) >= selected
        \/ fixed + Least(indpck, indvar) >= selected
     THEN meta
     ELSE [value_desc |->
             [encoding  |-> "bitpfr",
              dataspace |-> basic_dataspace + Least(valpck, valvar)
                              + Least(indpck, indvar),
              metaspace |-> basic_metaspace + extra_metaspace,
              origin    |-> min,
              nbits     |-> nbits],
           noutliers |-> noutliers,
           outlier_index_desc |->
             Cheaper(meta.outlier_index_desc, indpck, indvar, indnbits),
           outlier_value_desc |->
             Cheaper(meta.outlier_value_desc, valpck, valvar, nbits_max - nbits)]

\* select() into metadata that may hold the result of an earlier call.
Select(meta, ints) ==
  LET stats == Stats(ints)
      basic == [meta EXCEPT !.value_desc = SelectBasic(@, stats, ints)]
      deltas == Deltas(stats, ints)
      histogram == Histogram(deltas)
      nbits_max == UsedCount(ToUnsigned(stats.max - stats.min))
      passes[nbits \in 0..(nbits_max - 1)] ==
        IF nbits = 0 THEN basic
        ELSE SelectPatched(passes[nbits - 1], stats, deltas, histogram, nbits)
  IN IF stats.nvalues = 0
     THEN [meta EXCEPT !.value_desc.encoding = "normal",
                       !.value_desc.dataspace = 0, !.value_desc.metaspace = 0]
     ELSE IF stats.min = stats.max
     THEN [meta EXCEPT !.value_desc.encoding = "naught",
                       !.value_desc.dataspace = 0,
                       !.value_desc.metaspace = ValueSpace(ZigzagIfSigned(stats.min)),
                       !.value_desc.origin = stats.min]
     ELSE IF stats.nvalues < 5 THEN basic
     ELSE passes[nbits_max - 1]

\* encoding_metadata::metaspace(): one more byte, for the encoding itself.
Metaspace(meta) == 1 + meta.value_desc.metaspace

Dataspace(meta) == meta.value_desc.dataspace

-------------------------------------------------------------------------------
(* Metadata.                                                                *)

Byte(n) == n % 2^ByteBits

\* encode_extra: zero stands for the varint encoding.
ExtraByte(desc) == Byte(IF desc.encoding = "bitpck" THEN desc.nbits ELSE 0)

MetaBytes(meta) ==
  LET desc == meta.value_desc
      when(condition, bytes) == IF condition THEN bytes ELSE <<>>
  IN <<(CHOOSE k \in DOMAIN Encodings : Encodings[k] = desc.encoding) - 1>>
     \o when(desc.encoding \in WithOrigin, ValueBytes(ZigzagIfSigned(desc.origin)))
     \o when(desc.encoding \in WithNbits, <<Byte(desc.nbits)>>)
     \o when(desc.encoding = "bitpfr",
             ValueBytes(meta.noutliers)
               \o <<ExtraByte(meta.outlier_index_desc),
                    ExtraByte(meta.outlier_value_desc)>>)

\* decode_extra
ExtraDescriptor(desc, byte) ==
  [desc EXCEPT !.encoding = IF byte = 0 THEN "varint" ELSE "bitpck",
               !.nbits = IF byte = 0 THEN @ ELSE byte]

\* decode() into meta, and the position of the byte after the metadata.
ReadMeta(meta, stream) ==
  LET encoding == Encodings[stream[1] + 1]
      origin == ReadValue(stream, 2)
      afterOrigin == IF encoding \in WithOrigin THEN origin.next ELSE 2
      afterBits ==
        IF encoding \in WithNbits THEN afterOrigin + 1 ELSE afterOrigin
      noutliers == ReadValue(stream, afterBits)
      described ==
        [meta EXCEPT
           !.value_desc.encoding = encoding,
           !.value_desc.origin =
             IF encoding \in WithOrigin THEN UnzigzagIfSigned(origin.value) ELSE @,
           !.value_desc.nbits =
             IF encoding \in WithNbits THEN stream[afterOrigin] ELSE @]
  IN IF encoding # "bitpfr" THEN [meta |-> described, next |-> afterBits]
     ELSE [meta |->
             [described EXCEPT
                !.noutliers = noutliers.value,
                !.outlier_index_desc = ExtraDescriptor(@, stream[noutliers.next]),
                !.outlier_value_desc = ExtraDescriptor(@, stream[noutliers.next + 1])],
           next |-> noutliers.next + 2]

-------------------------------------------------------------------------------
(* Data.                                                                    *)

\* A number as a word, and back.
WordOf(n) == {k \in 0..(UsedCount(n) - 1) : (n \div 2^k) % 2 = 1}

NumberOf(word) == SumOf([k \in word |-> 2^k])

\* A block in memory: u before v, the least significant byte first.
BlockBytes(block) ==
  LET bits == block.u \cup {WordBits + b : b \in block.v}
      first(k) == ByteBits * (k - 1)
  IN [k \in 1..BlockSize |->
        NumberOf({b - first(k) : b \in bits \cap (first(k)..(first(k) + ByteBits - 1))})]

BlockAt(stream, at) ==
  LET bit(b) == (stream[at + b \div ByteBits] \div 2^(b % ByteBits)) % 2 = 1
  IN [u |-> {b \in Word : bit(b)}, v |-> {b \in Word : bit(WordBits + b)}]

\* The integers that block b takes, as words.
BlockWords(us, b, nbits) ==
  LET first == (b - 1) * Capacity(nbits)
      count == Least(Capacity(nbits), Len(us) - first)
  IN [i \in 1..count |-> WordOf(us[first + i])]

\* bitpck_codec::encode: blocks are written as long as integers are left.
PackedBytes(us, nbits) ==
  FlattenSeq([b \in 1..BlockNumber(Len(us), nbits) |->
                BlockBytes(BlockEncode(BlockWords(us, b, nbits), nbits))])

\* bitpck_codec::decode: the last block may be read in part.
ReadPacked(stream, at, count, nbits) ==
  LET left(b) == count - (b - 1) * Capacity(nbits)
      words(b) == BlockDecode(BlockAt(stream, at + (b - 1) * BlockSize),
                              Least(left(b), Capacity(nbits)), nbits)
      ws == FlattenSeq([b \in 1..BlockNumber(count, nbits) |-> words(b)])
  IN [us |-> [i \in DOMAIN ws |-> NumberOf(ws[i])],
      next |-> at + PackedSpace(count, nbits)]

\* varint_codec::encode and decode of a sequence.  The bytes are joined by halves:
\* a whole group is too long for TLC to flatten from one end.
VarintBytes(us) ==
  LET join[r \in (0..Len(us)) \X (0..Len(us))] ==
        IF r[1] >= r[2] THEN <<>>
        ELSE IF r[1] + 1 = r[2] THEN ValueBytes(us[r[2]])
        ELSE LET middle == (r[1] + r[2]) \div 2
             IN join[<<r[1], middle>>] \o join[<<middle, r[2]>>]
  IN join[<<0, Len(us)>>]

\* A varint ends at a byte without the continuation mark.
ReadVarints(stream, at, count) ==
  LET ends == Ordered({p \in at..Len(stream) : stream[p] < Continue})
      start(i) == IF i = 1 THEN at ELSE ends[i - 1] + 1
  IN [us |-> [i \in 1..count |-> ReadValue(stream, start(i)).value],
      next |-> start(count + 1)]

\* normal_codec: the bytes of each integer as they are in memory.
NormalBytes(us) ==
  [p \in 1..(Len(us) * ValueSize) |->
     Byte(us[1 + (p - 1) \div ValueSize] \div 2^(ByteBits * ((p - 1) % ValueSize)))]

ReadNormal(stream, at, count) ==
  [us |-> [i \in 1..count |->
             SumOf([k \in 1..ValueSize |->
                      stream[at + (i - 1) * ValueSize + k - 1]
                        * 2^(ByteBits * (k - 1))])],
   next |-> at + count * ValueSize]

\* The bytes of unsigned integers, and their way back.  The origin that naught
\* repeats is in the metadata: it has no data.
WriteBasic(us, desc) ==
  CASE desc.encoding = "naught" -> <<>>
    [] desc.encoding = "normal" -> NormalBytes(us)
    [] desc.encoding \in {"varint", "varfor"} -> VarintBytes(us)
    [] desc.encoding \in WithNbits -> PackedBytes(us, desc.nbits)

ReadBasic(stream, at, count, desc) ==
  CASE desc.encoding = "naught" -> [us |-> [i \in 1..count |-> 0], next |-> at]
    [] desc.encoding = "normal" -> ReadNormal(stream, at, count)
    [] desc.encoding \in {"varint", "varfor"} -> ReadVarints(stream, at, count)
    [] desc.encoding \in WithNbits -> ReadPacked(stream, at, count, desc.nbits)

\* The value codec of an encoding of T.
ValueCode(desc, v) ==
  CASE desc.encoding = "normal" -> ToUnsigned(v)
    [] desc.encoding \in {"varint", "bitpck"} -> ZigzagIfSigned(v)
    [] desc.encoding \in WithOrigin -> OriginEncode(desc.origin, v)

ValueOf(desc, u) ==
  CASE desc.encoding = "normal" -> ToOriginal(u)
    [] desc.encoding \in {"varint", "bitpck"} -> UnzigzagIfSigned(u)
    [] desc.encoding \in WithOrigin -> OriginDecode(desc.origin, u)

\* fetch of bitpck_codec and bitfor_codec: the integer of 0-based index i among
\* those packed from position `at', found without decoding any other.
FetchPacked(stream, at, i, desc) ==
  LET capacity == Capacity(desc.nbits)
      block == BlockAt(stream, at + BlockSize * (i \div capacity))
  IN ValueOf(desc, NumberOf(BlockFetch(block, i % capacity, desc.nbits)))

\* encode: the outliers follow the packed integers they are the rest of.
DataBytes(meta, ints) ==
  LET desc == meta.value_desc
      us == [i \in DOMAIN ints |-> ValueCode(desc, ints[i])]
      excpts == Exceptions(us, desc.nbits)
  IN IF desc.encoding # "bitpfr" THEN WriteBasic(us, desc)
     ELSE WriteBasic(us, desc)
            \o WriteBasic(excpts.indices, meta.outlier_index_desc)
            \o WriteBasic(excpts.values, meta.outlier_value_desc)

\* decode of count integers from position `at'.
ReadData(meta, stream, at, count) ==
  LET desc == meta.value_desc
      regular == ReadBasic(stream, at, count, desc)
      indices == ReadBasic(stream, regular.next, meta.noutliers,
                           meta.outlier_index_desc)
      values == ReadBasic(stream, indices.next, meta.noutliers,
                          meta.outlier_value_desc)
      us == IF desc.encoding # "bitpfr" THEN regular.us
            ELSE Patch(regular.us,
                       [indices |-> indices.us, values |-> values.us], desc.nbits)
  IN [i \in 1..count |-> ValueOf(desc, ToUnsigned(us[i]))]

================================================================================
