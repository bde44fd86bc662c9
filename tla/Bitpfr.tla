--------------------------------- MODULE Bitpfr ---------------------------------
(***************************************************************************)
(* The outliers of patched bit-packing (bitpfr.h, offset.h).  Encoding     *)
(* packs the low nbits bits of every integer and sets aside, for each      *)
(* integer that has more, its position and its high bits.  A position is   *)
(* stored as its distance to the position after the previous outlier: that *)
(* position is the origin of an offset_codec<size_t, 1, false>.            *)
(***************************************************************************)
EXTENDS Integers, Sequences, FiniteSets

\* A finite set of numbers, from the least to the greatest.
Ordered(S) ==
  LET ranked == {<<p, Cardinality({q \in S : q <= p})>> : p \in S}
  IN [k \in 1..Cardinality(S) |-> (CHOOSE r \in ranked : r[2] = k)[1]]

\* The 0-based positions of the integers that nbits bits do not hold.
OutlierPositions(us, nbits) ==
  Ordered({p \in 0..(Len(us) - 1) : us[p + 1] >= 2^nbits})

\* offset_codec::value_encode on increasing values.
OffsetEncode(values) ==
  [k \in DOMAIN values |->
     values[k] - (IF k = 1 THEN 0 ELSE values[k - 1] + 1)]

\* (mutant of OffsetDecode) the offset of 1 is not added to the origin.
OffsetDecodeNoOffset(codes) ==
  LET decoded[k \in DOMAIN codes] ==
        codes[k] + (IF k = 1 THEN 0 ELSE decoded[k - 1])
  IN decoded

\* offset_codec::value_decode, the codec's origin being the previous value + 1.
OffsetDecode(codes) ==
  LET decoded[k \in DOMAIN codes] ==
        codes[k] + (IF k = 1 THEN 0 ELSE decoded[k - 1] + 1)
  IN decoded

\* The `exceptions' that parameters::value_encode fills.
Exceptions(us, nbits) ==
  LET positions == OutlierPositions(us, nbits)
  IN [indices |-> OffsetEncode(positions),
      values  |-> [k \in DOMAIN positions |-> us[positions[k] + 1] \div 2^nbits]]

\* decode_patch: the high bits of each outlier are put back in place.
Patch(us, excpts, nbits) ==
  LET positions == OffsetDecode(excpts.indices)
      high(p) == LET k == CHOOSE k \in DOMAIN positions : positions[k] = p
                 IN excpts.values[k] * 2^nbits
      patched == {positions[k] : k \in DOMAIN positions}
  IN [i \in DOMAIN us |-> IF i - 1 \in patched THEN us[i] + high(i - 1) ELSE us[i]]

================================================================================
