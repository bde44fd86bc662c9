------------------------------ MODULE IntegerGroup ------------------------------
(***************************************************************************)
(* oroch::integer_group<T> (integer_group.h): an object that owns the      *)
(* memory `data' into which it has last encoded a sequence of integers.    *)
(* Nothing else of the call of encode() survives it.                       *)
(***************************************************************************)
EXTENDS GroupLayout

CONSTANTS
  Inputs,        \* the sequences of integers a group may be asked to encode
  Sought,        \* the integers that may be searched
  Junk,          \* what a byte of fresh memory may hold
  MaxEncodings   \* bound: the calls of encode() in the life of a group

ASSUME GroupAssumption ==
  /\ Inputs \subseteq Seq(Original)
  /\ \A s \in Inputs : UsedCount(Len(s)) <= WordBits
  /\ Sought \subseteq Original
  /\ Junk \subseteq 0..(2^ByteBits - 1)
  /\ MaxEncodings \in Nat

VARIABLES
  data,       \* data_, as far as it has been written; <<>> stands for null
  allocated,  \* the number of bytes it was allocated with
  integers,   \* the integers of the last call of encode()
  aligned,    \* the flag of that call
  encodings   \* how many calls there have been

groupVars == <<data, allocated, integers, aligned, encodings>>

-------------------------------------------------------------------------------

Init ==
  /\ data = <<>> /\ allocated = 0
  /\ integers = <<>> /\ aligned = TRUE
  /\ encodings = 0

Encode(s, flag, junk) ==
  /\ encodings < MaxEncodings
  /\ data' = EncodedBytes(s, flag, junk)
  /\ allocated' = Allocation(s, flag)
  /\ integers' = s
  /\ aligned' = flag
  /\ encodings' = encodings + 1

Next ==
  \E s \in Inputs, flag \in BOOLEAN, junk \in Junk : Encode(s, flag, junk)

Spec == Init /\ [][Next]_groupVars

Encoded == encodings > 0

-------------------------------------------------------------------------------
(* Properties.                                                              *)

\* Every value is one the program can hold, every byte fits a byte.
TypeOK ==
  /\ \A k \in DOMAIN data : data[k] \in 0..(2^ByteBits - 1)
  /\ allocated \in Nat
  /\ integers \in Inputs \cup {<<>>}
  /\ aligned \in BOOLEAN
  /\ encodings \in 0..MaxEncodings

\* What encode() writes is as long as what select() predicted: nothing is
\* written past data_, and nothing of it is left for decode() to read as junk.
FillsItsMemory == Encoded => Len(data) = allocated

\* decode() returns the integers of the last encode(), from the bytes alone.
DecodesWhatWasEncoded ==
  Encoded => DecodedInts(data, Len(integers), aligned) = integers

\* find(), with its shortcuts that skip decoding, is the first index in the
\* integers of the group.
FindsFirstIndex ==
  Encoded /\ aligned /\ integers # <<>> =>
    \A v \in Sought : FoundIndex(data, Len(integers), v) = FirstIndex(integers, v)

\* A client that has the metadata of a group read to it, and knows how the group
\* is laid out, may fetch() any integer of a packed group by itself.
FetchAgrees ==
  LET meta == Description(data)
  IN Encoded /\ meta.value_desc.encoding \in {"bitpck", "bitfor"} =>
       \A i \in DOMAIN integers :
         FetchPacked(data, Offset(Len(MetaBytes(meta)), aligned) + 1, i - 1,
                     meta.value_desc) = integers[i]

\* The chosen encoding is never larger than the integers themselves and a byte,
\* unless the metadata of a constant sequence are.
NeverExpands ==
  Encoded =>
    \/ allocated <= Offset(1, aligned) + Len(integers) * ValueSize
    \/ Cardinality(Range(integers)) = 1

\* The comment at integer_codec.h:325 says that the loop of select() drops a number of
\* bits `if the required space is too large', because `the very minimum memory
\* required for outlier indices' is too much already.  Then no number of bits that
\* the loop looks at would take less memory than what it has chosen in the end.
DropsOnlyTooLarge ==
  LET n == Len(integers)
      stats == Stats(integers)
      deltas == Deltas(stats, integers)
      histogram == Histogram(deltas)
      tried == {nbits \in 1..(UsedCount(ToUnsigned(stats.max - stats.min)) - 1) :
                  histogram[nbits] # 0}
      \* More than any encoding takes: nothing is dropped in favour of it.
      worst == [ClearMetadata EXCEPT !.value_desc.dataspace = 8 * n * BlockSize]
      patched(nbits) == SelectPatched(worst, stats, deltas, histogram, nbits)
      total(meta) == Metaspace(meta) + Dataspace(meta)
  IN Encoded /\ n >= 5 =>
       \A nbits \in tried : total(Select(ClearMetadata, integers)) <= total(patched(nbits))

================================================================================
